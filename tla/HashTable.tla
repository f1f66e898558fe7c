------------------------------- MODULE HashTable -------------------------------
(***************************************************************************)
(* std::HashMap and std::HashSet (libs/std/hashmap.cmm, hashset.cmm): open *)
(* addressing with linear probing and tombstones.  The two are one         *)
(* algorithm written twice; kind says which, and the two differ in how a   *)
(* key is stored and in what insert and put do first.  A set has no values.*)
(*                                                                         *)
(* Calls are atomic: a container belongs to one thread.  The slots are     *)
(* numbered from 0, as in the code.  get, contains and size change nothing *)
(* and are not actions: they are Search, Lookup and table.len.             *)
(***************************************************************************)
EXTENDS Naturals, FiniteSets

CONSTANTS
    Keys, Values,
    None,           \* no key, no value
    Hashes,         \* the hash functions callers supply
    MinCap,         \* capacity of the first table (8 * 2 in the code)
    MaxCap          \* bound: capacity of the largest table

ASSUME TableAssumption ==
    /\ Hashes \subseteq [Keys -> Nat]
    /\ MinCap \in Nat \ {0, 1} /\ MaxCap \in Nat
    /\ Keys # {} /\ None \notin Keys \cup Values \cup Nat

VARIABLES
    kind,           \* "map" or "set"
    hash_fn,        \* the caller's hash function
    table,          \* keys, values, states (one slot each), cap, len, tombstones
    answer          \* what the last put, insert or remove returned

vars == <<kind, hash_fn, table, answer>>

\* A slot; what a tombstone still holds is never read.
Empty      == [state |-> 0, key |-> None, value |-> None]
Live(k, v) == [state |-> 1, key |-> k, value |-> v]
Tombstone  == [state |-> 2, key |-> None, value |-> None]

NewTable(n) == [cap |-> n, len |-> 0, tombstones |-> 0,
                slots |-> [i \in 0..(n - 1) |-> Empty]]
NoTable     == NewTable(0)

-------------------------------------------------------------------------------
(* Probing.  The slots from hash % cap on, around the end, at most cap.     *)

At(t, k, n)    == ((hash_fn[k] % t.cap) + n) % t.cap
Slot(t, k, n)  == t.slots[At(t, k, n)]
Holds(slot, k) == slot.state = 1 /\ slot.key = k

Probes(t)      == 0..(t.cap - 1)

\* The first of the probes that stop a loop; cap when there is none.
FirstProbe(t, stops) == CHOOSE n \in stops \cup {t.cap} : \A m \in stops : n <= m

\* get_ptr and the search of contains and remove: up to the key or the first
\* slot that was never used; None when the key is not there.
SearchStopsAtTombstone(t, k) ==
    LET n == FirstProbe(t, {i \in Probes(t) : \/ Slot(t, k, i).state # 1
                                              \/ Holds(Slot(t, k, i), k)})
    IN  IF n < t.cap /\ Holds(Slot(t, k, n), k) THEN At(t, k, n) ELSE None
Search(t, k) ==
    LET n == FirstProbe(t, {i \in Probes(t) : \/ Slot(t, k, i).state = 0
                                              \/ Holds(Slot(t, k, i), k)})
    IN  IF n < t.cap /\ Holds(Slot(t, k, n), k) THEN At(t, k, n) ELSE None
Lookup(t, k) == t.slots[Search(t, k)].value         \* get, when it is there

\* Where put_raw and insert_raw stop: at a slot that is not live - and put_raw
\* at a slot with the key, if that comes first.
AnyFreeSlot(t, k) == FirstProbe(t, {i \in Probes(t) : Slot(t, k, i).state # 1})
RawStop(t, k) ==
    FirstProbe(t, {i \in Probes(t) : \/ Slot(t, k, i).state # 1
                                     \/ kind = "map" /\ Holds(Slot(t, k, i), k)})

\* put_raw and insert_raw; a table without room is left as it is.
PutRaw(t, k, v) ==
    LET n   == RawStop(t, k)
        i   == At(t, k, n)
        was == t.slots[i].state
    IN  IF n = t.cap THEN t
        ELSE [t EXCEPT !.slots[i] = Live(k, v),
                       !.len = IF was = 1 THEN @ ELSE @ + 1,
                       !.tombstones = IF was = 2 THEN @ - 1 ELSE @]

\* rehash: the live entries, in slot order, into a fresh table.
Moved(new, s) == IF s.state = 1 THEN PutRaw(new, s.key, s.value) ELSE new
Rehash(t, n) ==
    LET moved[i \in 0..t.cap] == IF i = 0 THEN NewTable(n)
                                 ELSE Moved(moved[i - 1], t.slots[i - 1])
    IN  moved[t.cap]

\* The capacity put and insert want first (needs_grow, which does not count
\* tombstones and does not ask whether the key is there already).
NeedsGrow(t) == (t.len + 1) * 10 >= t.cap * 7
WantedCap(t) ==
    IF t.cap = 0 THEN MinCap ELSE IF NeedsGrow(t) THEN t.cap * 2 ELSE t.cap
Grown == IF WantedCap(table) = table.cap THEN table
         ELSE Rehash(table, WantedCap(table))

-------------------------------------------------------------------------------
Init ==
    /\ kind \in {"map", "set"}
    /\ hash_fn \in Hashes
    /\ table = NoTable
    /\ answer = None

\* HashMap::put and HashSet::insert.
Put(k, v) ==
    /\ kind = "map" /\ WantedCap(table) <= MaxCap
    /\ table' = PutRaw(Grown, k, v)
    /\ answer' = TRUE
    /\ UNCHANGED <<kind, hash_fn>>
Insert(k) ==
    /\ kind = "set" /\ WantedCap(table) <= MaxCap
    /\ table' = IF Search(Grown, k) # None THEN Grown ELSE PutRaw(Grown, k, None)
    /\ answer' = TRUE
    /\ UNCHANGED <<kind, hash_fn>>

\* One of the allocations of rehash fails: the others are freed.
OutOfMemory ==
    /\ WantedCap(table) # table.cap
    /\ answer' = FALSE
    /\ UNCHANGED <<kind, hash_fn, table>>

\* remove: the slot becomes a tombstone, since probes for other keys may
\* have to go on past it.
Buried(t, i) == [t EXCEPT !.slots[i] = Tombstone, !.len = @ - 1]
Erased(t, i) == [t EXCEPT !.slots[i] = Empty, !.len = @ - 1]
Removed(t, i) ==
    [t EXCEPT !.slots[i] = Tombstone, !.len = @ - 1, !.tombstones = @ + 1]
Remove(k) ==
    LET i == Search(table, k)
    IN  /\ table' = IF i = None THEN table ELSE Removed(table, i)
        /\ answer' = (i # None)
        /\ UNCHANGED <<kind, hash_fn>>

\* clear keeps the arrays, destroy frees them; the table can be used again.
Clear ==
    /\ table' = NewTable(table.cap)
    /\ answer' = None
    /\ UNCHANGED <<kind, hash_fn>>
Destroy ==
    /\ table' = NoTable
    /\ answer' = None
    /\ UNCHANGED <<kind, hash_fn>>

Next ==
    \/ \E k \in Keys, v \in Values : Put(k, v)
    \/ \E k \in Keys : Insert(k) \/ Remove(k)
    \/ OutOfMemory \/ Clear \/ Destroy

Spec == Init /\ [][Next]_vars

-------------------------------------------------------------------------------
(* Properties.                                                              *)

LiveSlots  == {i \in DOMAIN table.slots : table.slots[i].state = 1}
Duplicated == \E i, j \in LiveSlots :
                 i # j /\ table.slots[i].key = table.slots[j].key

\* The type of the table; less than 70% of it is live.
TypeOK ==
    /\ kind \in {"map", "set"} /\ hash_fn \in Hashes
    /\ table.cap \in 0..MaxCap
    /\ table.slots \in [0..(table.cap - 1) ->
          [state : 0..2, key : Keys \cup {None}, value : Values \cup {None}]]
    /\ table.len \in 0..table.cap /\ table.tombstones \in 0..table.cap
    /\ table.cap > 0 => table.len * 10 < table.cap * 7
    /\ \A i \in LiveSlots : table.slots[i].key \in Keys

\* The counters tell how many slots are live and how many are tombstones: one
\* that is too low makes the table fill up, and tombstones is unsigned.
CountersRight ==
    /\ TypeOK
    /\ table.len = Cardinality(LiveSlots)
    /\ table.tombstones =
          Cardinality({i \in DOMAIN table.slots : table.slots[i].state = 2})

\* Whatever was inserted, removed and moved, no live key lies behind a slot at
\* which the search for it ends.
ProbeChains ==
    \A i \in LiveSlots : \A n \in 0..(table.cap - 1) :
        LET k == table.slots[i].key
        IN  (\A m \in 0..n : At(table, k, m) # i) => Slot(table, k, n).state # 0

\* A set never holds a key twice, so that remove and size are right.  A map does,
\* but only a put that takes a tombstone before it has found the key makes a
\* second entry.
DuplicatesNeedTombstones ==
    [][Duplicated' /\ ~Duplicated => kind = "map" /\ table.tombstones > 0]_vars

\* The table does what its caller expects of a set or a map, as long as no key
\* is in it twice.
M == INSTANCE Associative WITH contents <-
        [k \in {x \in Keys : Search(table, x) # None} |-> Lookup(table, k)]
ImplementsMap == M!Init /\ [][Duplicated \/ M!Next]_<<table, answer>>

\* hashmap.cmm:104, put_raw does "Insert/assign": a key that is there gets the
\* new value instead of a second entry.
OneEntryPerKey == ~Duplicated
===============================================================================
