------------------------------- MODULE Containers -------------------------------
(***************************************************************************)
(* std::Vec (libs/std/vec.cmm) and std::Deque (libs/std/deque.cmm), and    *)
(* the versions of both that the compiler runs itself in a constexpr       *)
(* function (SemanticAnalyzer::evalContainerMethod).  kind says which.     *)
(*                                                                         *)
(* An object is the C structure, with the elements its data points at.     *)
(* Calls are atomic: a container belongs to one thread.  The allocator     *)
(* (external) gives out a buffer that is not in use, or fails.  get and    *)
(* set do not check their index: callers pass one that is there.           *)
(***************************************************************************)
EXTENDS Integers, Sequences, FiniteSets

CONSTANTS
    Values,
    Buffers,        \* bound: what the allocator can hand out
    None,           \* the null pointer, no answer, and the zeroed element
    Never,          \* the answer of a call that does not return
    MinCap,         \* the first capacity (8 in the code)
    MaxCap,         \* bound: no larger allocation succeeds
    MaxUsize,       \* the largest usize
    Positions,      \* the indices callers pass to insert, set, remove and swap
    Sizes           \* the sizes callers pass to reserve

ASSUME ContainerAssumption ==
    /\ MinCap \in Nat \ {0} /\ MaxCap \in Nat /\ MaxUsize \in Nat
    /\ MinCap <= MaxCap /\ 2 * MaxCap <= MaxUsize
    /\ Positions \subseteq Nat /\ Sizes \subseteq 0..MaxUsize
    /\ None \notin Values \cup Buffers
    /\ Never \notin BOOLEAN \cup Values \cup {None}

VARIABLES
    kind,           \* "vec" or "deque"
    obj,            \* data, cap, len, head (0 in a vec) and slots
    heap,           \* the buffers allocated and not freed
    call,           \* the last call
    answer          \* what it returned; Never when it does not return

vars == <<kind, obj, heap, call, answer>>

Zeroed(n) == [i \in 0..(n - 1) |-> None]
NoObject  == [data |-> None, cap |-> 0, len |-> 0, head |-> 0, slots |-> Zeroed(0)]

\* Where element i is; get reads it there.
At(o, i)       == (o.head + i) % o.cap
Element(o, i)  == o.slots[At(o, i)]
Elements(o)    == [i \in 1..o.len |-> Element(o, i - 1)]

-------------------------------------------------------------------------------
(* reserve.                                                                 *)

\* The capacity is doubled until it is what is wanted, in usize.  Where that would
\* leave usize, Vec takes what is wanted; Deque wraps around to 0, a width and a
\* MinCap that are powers of two provided, and doubles that for ever: Endless.
Endless    == 0
FirstCap   == IF obj.cap = 0 THEN MinCap ELSE obj.cap
NewCapUnguarded(want) ==
    LET doubled[n \in 1..MaxUsize] ==
            IF n >= want THEN n
            ELSE IF n <= MaxUsize \div 2 THEN doubled[2 * n] ELSE Endless
    IN  doubled[FirstCap]
NewCap(want) ==
    LET doubled[n \in 1..MaxUsize] ==
            IF n >= want THEN n
            ELSE IF n <= MaxUsize \div 2 THEN doubled[2 * n]
            ELSE IF kind = "vec" THEN want ELSE Endless
    IN  doubled[FirstCap]

\* The elements in the new buffer, unrolled from head on.
MovedAsItLies(b, n) ==
    [obj EXCEPT !.data = b, !.cap = n, !.head = 0,
                !.slots = [i \in 0..(n - 1) |-> IF i < obj.len THEN obj.slots[i]
                                                ELSE None]]
Moved(b, n) ==
    [obj EXCEPT !.data = b, !.cap = n, !.head = 0,
                !.slots = [i \in 0..(n - 1) |-> IF i < obj.len THEN Element(obj, i)
                                                ELSE None]]

\* The buffer reserve frees: Vec keeps one with no elements in it.
OutgrownInUse == IF obj.len = 0 THEN {} ELSE {obj.data}
Outgrown == IF kind = "vec" /\ obj.len = 0 THEN {} ELSE {obj.data}

\* What reserve may leave: [ok, obj, heap].
Room(want) ==
    LET n == NewCap(want)
        fresh == IF n <= MaxCap THEN Buffers \ heap ELSE {}
    IN  IF want <= obj.cap THEN {[ok |-> TRUE, obj |-> obj, heap |-> heap]}
        ELSE {[ok |-> FALSE, obj |-> obj, heap |-> heap]} \cup
             {[ok |-> TRUE, obj |-> Moved(b, n), heap |-> (heap \ Outgrown) \cup {b}] :
                 b \in fresh}
Hangs(want) == want > obj.cap /\ NewCap(want) = Endless

-------------------------------------------------------------------------------
(* The calls.  A call that has never returned was the last.                 *)

Returns(c, new, result) ==
    /\ answer # Never
    /\ call' = c /\ obj' = new /\ answer' = result
    /\ UNCHANGED kind

Init ==
    /\ kind \in {"vec", "deque"}
    /\ obj = NoObject /\ heap = {}
    /\ call = <<"init">> /\ answer = None

Reserve(n) ==
    IF Hangs(n)
    THEN Returns(<<"reserve", n>>, obj, Never) /\ UNCHANGED heap
    ELSE \E r \in Room(n) : Returns(<<"reserve", n>>, r.obj, r.ok) /\ heap' = r.heap

\* The element goes where At puts the next one; in a vec that is slots[len].
Pushed(o, v) == [o EXCEPT !.slots[At(o, o.len)] = v, !.len = @ + 1]
Push(v) ==
    \E r \in Room(obj.len + 1) :
        /\ Returns(<<"push", v>>, IF r.ok THEN Pushed(r.obj, v) ELSE r.obj, r.ok)
        /\ heap' = r.heap

PushedFront(o, v) ==
    LET h == (o.head + o.cap - 1) % o.cap
    IN  [o EXCEPT !.head = h, !.slots[h] = v, !.len = @ + 1]
PushFront(v) ==
    /\ kind = "deque"
    /\ \E r \in Room(obj.len + 1) :
        /\ Returns(<<"push_front", v>>,
                   IF r.ok THEN PushedFront(r.obj, v) ELSE r.obj, r.ok)
        /\ heap' = r.heap

\* pop and pop_back; out says whether the caller wants the element.
Pop(out) ==
    LET c == <<"pop", out>>
    IN  /\ IF obj.len = 0 THEN Returns(c, obj, FALSE)
           ELSE Returns(c, [obj EXCEPT !.len = @ - 1],
                        IF out THEN Element(obj, obj.len - 1) ELSE TRUE)
        /\ UNCHANGED heap

PopFrontUnwrapped(out) ==
    /\ kind = "deque" /\ obj.len > 0
    /\ Returns(<<"pop_front", out>>, [obj EXCEPT !.head = @ + 1, !.len = @ - 1],
               IF out THEN Element(obj, 0) ELSE TRUE)
    /\ UNCHANGED heap
PopFront(out) ==
    LET c == <<"pop_front", out>>
    IN  /\ kind = "deque"
        /\ IF obj.len = 0 THEN Returns(c, obj, FALSE)
           ELSE Returns(c, [obj EXCEPT !.head = (@ + 1) % obj.cap, !.len = @ - 1],
                        IF out THEN Element(obj, 0) ELSE TRUE)
        /\ UNCHANGED heap

Set(i, v) ==
    /\ i < obj.len
    /\ Returns(<<"set", i, v>>, [obj EXCEPT !.slots[At(obj, i)] = v], None)
    /\ UNCHANGED heap

\* insert and remove move the bytes behind the index; remove zeroes the slot
\* that has become free.
Inserted(o, i, v) ==
    [o EXCEPT !.len = @ + 1,
              !.slots = [j \in DOMAIN @ |-> CASE j = i -> v
                                              [] j > i /\ j <= o.len -> @[j - 1]
                                              [] OTHER -> @[j]]]
Insert(i, v) ==
    LET c == <<"insert", i, v>>
    IN  /\ kind = "vec"
        /\ IF i > obj.len THEN Returns(c, obj, FALSE) /\ UNCHANGED heap
           ELSE \E r \in Room(obj.len + 1) :
                   /\ Returns(c, IF r.ok THEN Inserted(r.obj, i, v) ELSE r.obj, r.ok)
                   /\ heap' = r.heap

Removed(o, i) ==
    [o EXCEPT !.len = @ - 1,
              !.slots = [j \in DOMAIN @ |-> CASE j >= i /\ j < o.len - 1 -> @[j + 1]
                                              [] j = o.len - 1 -> None
                                              [] OTHER -> @[j]]]
RemoveFrom(i) ==
    LET c == <<"remove", i>>
    IN  /\ kind = "vec"
        /\ IF i >= obj.len THEN Returns(c, obj, FALSE)
           ELSE Returns(c, Removed(obj, i), TRUE)
        /\ UNCHANGED heap

Swapped(o, i, j) == [o EXCEPT !.slots[i] = o.slots[j], !.slots[j] = o.slots[i]]
Swap(i, j) ==
    /\ kind = "vec"
    /\ Returns(<<"swap", i, j>>,
               IF i = j \/ i >= obj.len \/ j >= obj.len THEN obj
               ELSE Swapped(obj, i, j),
               None)
    /\ UNCHANGED heap

Clear ==
    /\ Returns(<<"clear">>, [obj EXCEPT !.len = 0, !.head = 0], None)
    /\ UNCHANGED heap
Destroy ==
    /\ Returns(<<"destroy">>, NoObject, None)
    /\ heap' = heap \ {obj.data}

Next ==
    \/ \E v \in Values : Push(v) \/ PushFront(v)
    \/ \E out \in BOOLEAN : Pop(out) \/ PopFront(out)
    \/ \E i \in Positions, v \in Values : Set(i, v) \/ Insert(i, v)
    \/ \E i \in Positions : RemoveFrom(i) \/ \E j \in Positions : Swap(i, j)
    \/ \E n \in Sizes : Reserve(n)
    \/ Clear \/ Destroy

Spec == Init /\ [][Next]_vars

-------------------------------------------------------------------------------
(* The same calls as the constexpr evaluator runs them, without an          *)
(* allocator.  Fails is an evaluation given up with a diagnostic.           *)

Fails == [fails |-> TRUE]
Gives(o, result) == [fails |-> FALSE, obj |-> o, answer |-> result]

\* growForPush of a deque, and what push and insert of a vec do first.
CtResizedAsItLies(n) ==
    [obj EXCEPT !.cap = n,
                !.slots = [i \in 0..(n - 1) |-> IF i < obj.cap THEN obj.slots[i]
                                                ELSE None]]
CtResized(n) ==
    [obj EXCEPT !.cap = n, !.head = 0,
                !.slots = [i \in 0..(n - 1) |-> IF i < obj.len THEN Element(obj, i)
                                                ELSE None]]
CtGrown ==
    IF obj.cap = 0 THEN CtResized(MinCap)
    ELSE IF obj.len + 1 > obj.cap THEN CtResized(obj.cap * 2) ELSE obj

CtInsert(i, v) ==
    IF i > obj.len THEN Fails ELSE Gives(Inserted(CtGrown, i, v), TRUE)
CtRemove(i) ==
    IF i >= obj.len THEN Gives(obj, FALSE) ELSE Gives(Removed(obj, i), TRUE)
CtSwap(i, j) ==
    Gives(IF i >= obj.len \/ j >= obj.len THEN obj ELSE Swapped(obj, i, j), None)
CtReserve(n) ==
    Gives(IF n <= obj.cap THEN obj ELSE CtResized(NewCap(n)), TRUE)
CtSet(i, v) ==
    IF i >= obj.len THEN Fails ELSE Gives([obj EXCEPT !.slots[At(obj, i)] = v], None)

\* A pop writes to a local variable; only Vec's accepts a null pointer.
CtPop(out) ==
    IF obj.len = 0 THEN Gives(obj, FALSE)
    ELSE IF kind = "deque" /\ ~out THEN Fails
    ELSE Gives([obj EXCEPT !.len = @ - 1],
               IF out THEN Element(obj, obj.len - 1) ELSE TRUE)
CtPopFront(out) ==
    IF obj.len = 0 THEN Gives(obj, FALSE)
    ELSE IF ~out THEN Fails
    ELSE Gives([obj EXCEPT !.head = (@ + 1) % obj.cap, !.len = @ - 1], Element(obj, 0))

CtResult(c) ==
    CASE c[1] = "push"       -> Gives(Pushed(CtGrown, c[2]), TRUE)
      [] c[1] = "push_front" -> Gives(PushedFront(CtGrown, c[2]), TRUE)
      [] c[1] = "pop"        -> CtPop(c[2])
      [] c[1] = "pop_front"  -> CtPopFront(c[2])
      [] c[1] = "set"        -> CtSet(c[2], c[3])
      [] c[1] = "insert"     -> CtInsert(c[2], c[3])
      [] c[1] = "remove"     -> CtRemove(c[2])
      [] c[1] = "swap"       -> CtSwap(c[2], c[3])
      [] c[1] = "reserve"    -> CtReserve(c[2])
      [] c[1] = "clear"      -> Gives([obj EXCEPT !.len = 0, !.head = 0], None)
      [] c[1] = "destroy"    -> Gives(NoObject, None)

-------------------------------------------------------------------------------
(* Properties.                                                              *)

\* The type of the object.  It has a buffer exactly when it has capacity, the
\* buffer is one that nobody has freed, and head lies in it.
TypeOK ==
    /\ kind \in {"vec", "deque"} /\ heap \subseteq Buffers
    /\ obj.cap \in 0..MaxCap /\ obj.len \in 0..obj.cap
    /\ obj.slots \in [0..(obj.cap - 1) -> Values \cup {None}]
    /\ IF obj.cap = 0 THEN obj.data = None ELSE obj.data \in heap
    /\ obj.head \in 0..obj.cap
    /\ obj.cap > 0 => obj.head < obj.cap
    /\ kind = "vec" => obj.head = 0

\* Both containers are a sequence to their caller, through growth, wrap-around
\* and failed allocations.
S == INSTANCE GrowableSequence WITH contents <- Elements(obj)
ImplementsSequence ==
    S!Init /\ [][answer' = Never \/ S!Next]_<<Elements(obj), call, answer>>

\* A buffer is lost only when a vec grows that was cleared or emptied before:
\* everything else that takes the buffer away from the object frees it.
Lost == heap \ {obj.data}
OnlyEmptiedVecLeaks ==
    [][Lost' # Lost => kind = "vec" /\ obj.len = 0 /\ obj.cap > 0]_vars

\* compile_time.md:170, "the evaluator follows the runtime API's semantics":
\* the call leaves the same elements, capacity and head and gives the same
\* answer at compile time, when neither side gives up (the evaluator on an index
\* out of range or a null pointer, the program for want of memory).
SameObject(o, p) ==
    /\ o.cap = p.cap /\ o.len = p.len /\ o.head = p.head
    /\ Elements(o) = Elements(p)
CompileTimeAgrees ==
    [][LET c == CtResult(call')
           short == answer' = FALSE /\ c.answer = TRUE
       IN  answer' = Never \/ c.fails \/ short
           \/ (c.answer = answer' /\ SameObject(c.obj, obj'))]_vars

\* stdlib.md:317, "capacity doubles from 8; a failed reserve keeps the old buffer
\* and returns false": a call returns, except a Deque::reserve of more than half
\* the range of usize.
OnlyHugeDequesHang ==
    answer = Never => /\ kind = "deque" /\ call[1] = "reserve"
                      /\ call[2] > MaxUsize \div 2
===============================================================================
