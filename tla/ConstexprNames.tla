----------------------------- MODULE ConstexprNames -----------------------------
(***************************************************************************)
(* Variables while the compiler interprets constexpr functions             *)
(* (sema/SemanticAnalyzer.cpp: evaluateConstexpr, evalConstexprCall,       *)
(* evalConstexprStmt), next to what the compiled program would do.         *)
(*                                                                         *)
(* The evaluator keeps one environment, from names to values, per call.    *)
(* The callee's starts as a copy of the caller's, blocks have none of      *)
(* their own, and a pointer is the name of its variable: a variable the    *)
(* callee was given the address of is copied back when it returns.  The    *)
(* program has frames with scopes, and locations.                          *)
(*                                                                         *)
(* The statements an execution runs through are chosen one by one; control *)
(* flow is in ConstexprControl.  A name is always an integer or always a   *)
(* pointer to one.                                                         *)
(***************************************************************************)
EXTENDS Integers, FiniteSets, SequencesExt

CONSTANTS
    Ints, Pointers,     \* the names
    Constants,          \* module-level constexpr variables and their values
    Signatures,         \* the parameter lists of the functions
    MaxFrames,          \* bound: depth of calls
    MaxScopes,          \* bound: blocks open in one call
    MaxLocations        \* bound: variables of an execution

Values    == {0, 1}
Undefined == 2          \* what a location holds that was never written
Next1(v)  == 1 - v      \* ++

ASSUME NamesAssumption ==
    /\ Ints \cap Pointers = {} /\ DOMAIN Constants \subseteq Ints
    /\ \A n \in DOMAIN Constants : Constants[n] \in Values
    /\ Signatures \subseteq Seq(Ints \cup Pointers)
    /\ \A s \in Signatures : \A i, j \in DOMAIN s : s[i] = s[j] => i = j
    /\ MaxFrames \in Nat \ {0} /\ MaxLocations \in Nat

VARIABLES
    envs,       \* activeEnv and those saved below it: name -> value or name
    frames,     \* what the program has per call: scopes (name -> location), the
                \* size of the store before, and the names of the variables the
                \* caller passed the address of
    store,      \* location -> value or location
    clash       \* a name has stood for two variables: see Clashes below

namesVars == <<envs, frames, store, clash>>

Env    == Last(envs)
Scopes == Last(frames).scopes
Bound(f, n, x) == [m \in DOMAIN f \cup {n} |-> IF m = n THEN x ELSE f[m]]

\* The program: the innermost scope that has the name.
IsLocal(n) == \E i \in DOMAIN Scopes : n \in DOMAIN Scopes[i]
Location(n) ==
    LET i == CHOOSE k \in DOMAIN Scopes :
                 /\ n \in DOMAIN Scopes[k]
                 /\ \A j \in (k + 1)..Len(Scopes) : n \notin DOMAIN Scopes[j]
    IN  Scopes[i][n]
Alive == UNION {Range(s) : s \in UNION {Range(f.scopes) : f \in Range(frames)}}
RtRead(n) == IF IsLocal(n) THEN store[Location(n)] ELSE Constants[n]
Pointing(q) == IsLocal(q) /\ store[Location(q)] \in Alive

\* The evaluator: the environment, then constexprValues.
ConstantsFirst(n) == IF n \in DOMAIN Constants THEN Constants[n] ELSE Env[n]
CtRead(n) == IF n \in DOMAIN Env THEN Env[n] ELSE Constants[n]
CtLoad(q) == Env[Env[q]]

Readable(n) == IsLocal(n) \/ n \in DOMAIN Constants
Set(n, v)   == envs' = [envs EXCEPT ![Len(envs)] = Bound(@, n, v)]

\* Where the two may part, and nothing more is said of an execution: a block
\* declares a name of an enclosing block; a function declares a name its caller's
\* pointer refers to; an argument changes a variable another one points at; or a
\* constant is read in a call of, or after, a local of its name.
Captured(n) == ~IsLocal(n) /\ n \in DOMAIN Env
Pointees    == Last(frames).outs \cup
               {Env[q] : q \in {p \in Pointers : IsLocal(p)}}
Clashes(n)  == IsLocal(n) \/ n \in Pointees

-------------------------------------------------------------------------------
NamesInit ==
    /\ envs = << <<>> >> /\ store = <<>> /\ clash = FALSE
    /\ frames = << [scopes |-> << <<>> >>, base |-> 0, outs |-> {}] >>

NewVariable(n, x) ==
    /\ ~clash /\ Len(store) < MaxLocations /\ n \notin DOMAIN Last(Scopes)
    /\ store' = Append(store, x)
    /\ frames' = [frames EXCEPT ![Len(frames)].scopes[Len(Scopes)] =
                      Bound(@, n, Len(store) + 1)]
    /\ clash' = (clash \/ Clashes(n))

\* A declaration; without a value the evaluator takes 0.
Declare(n, v) == NewVariable(n, v) /\ Set(n, v)
DeclareBare(n) == NewVariable(n, Undefined) /\ Set(n, 0)
DeclarePointer(q, n) ==
    /\ IsLocal(n)
    /\ NewVariable(q, Location(n)) /\ Set(q, n)

\* Assignments to a variable, and through a pointer.
Assign(n, m) ==
    /\ ~clash /\ IsLocal(n) /\ Readable(m)
    /\ store' = [store EXCEPT ![Location(n)] = RtRead(m)]
    /\ Set(n, CtRead(m))
    /\ clash' = (clash \/ Captured(m))
    /\ UNCHANGED frames
PlusPlus(n) ==
    /\ ~clash /\ IsLocal(n) /\ store[Location(n)] # Undefined
    /\ store' = [store EXCEPT ![Location(n)] = Next1(@)]
    /\ Set(n, Next1(CtRead(n)))
    /\ UNCHANGED <<frames, clash>>
Write(q, v) ==
    /\ ~clash /\ Pointing(q)
    /\ store' = [store EXCEPT ![store[Location(q)]] = v]
    /\ Set(Env[q], v)
    /\ UNCHANGED <<frames, clash>>

\* A block; the evaluator does not notice.
Open ==
    /\ ~clash /\ Len(Scopes) < MaxScopes
    /\ frames' = [frames EXCEPT ![Len(frames)].scopes = Append(@, <<>>)]
    /\ UNCHANGED <<envs, store, clash>>
Close ==
    /\ ~clash /\ Len(Scopes) > 1
    /\ frames' = [frames EXCEPT ![Len(frames)].scopes = Front(@)]
    /\ UNCHANGED <<envs, store, clash>>

\* A call.  An argument is a variable, a variable that is incremented on the
\* way, or the address of one (for a parameter that is a pointer: a pointer or
\* an address).  The callee's environment is a copy of the caller's from before
\* the arguments are evaluated, with the parameters bound.
Arguments(param) ==
    IF param \in Pointers
    THEN {[how |-> "address", of |-> n] : n \in {m \in Ints : IsLocal(m)}} \cup
         {[how |-> "value", of |-> q] : q \in {p \in Pointers : Pointing(p)}}
    ELSE {[how |-> "value", of |-> n] : n \in {m \in Ints : Readable(m)}} \cup
         {[how |-> "increment", of |-> n] :
             n \in {m \in Ints : IsLocal(m) /\ store[Location(m)] # Undefined}}
Incremented(args) == {args[i].of : i \in {j \in DOMAIN args : args[j].how = "increment"}}
CtArgument(a) == IF a.how = "address" THEN a.of ELSE CtRead(a.of)
RtArgument(a) == IF a.how = "address" THEN Location(a.of) ELSE RtRead(a.of)

CalleeEnv(sig, args) ==
    [n \in DOMAIN Env \cup Range(sig) |->
        IF n \in Range(sig) THEN CtArgument(args[CHOOSE i \in DOMAIN sig : sig[i] = n])
        ELSE Env[n]]

Call(sig, args) ==
    LET passed == {CtArgument(args[i]) : i \in {j \in DOMAIN sig : sig[j] \in Pointers}}
        bumped == Incremented(args)
        after  == [l \in DOMAIN store |->
                      IF l \in {Location(n) : n \in bumped} THEN Next1(store[l])
                      ELSE store[l]]
    IN  /\ ~clash /\ Len(frames) < MaxFrames /\ Len(store) + Len(sig) <= MaxLocations
        /\ \A i, j \in DOMAIN args :
              i # j => args[i].how # "increment" \/ args[i].of # args[j].of
                       \/ args[j].how = "address"
        /\ envs' = Append([envs EXCEPT ![Len(envs)] =
                              [n \in DOMAIN @ |-> IF n \in bumped THEN Next1(@[n]) ELSE @[n]]],
                          CalleeEnv(sig, args))
        /\ store' = after \o [i \in DOMAIN sig |-> RtArgument(args[i])]
        /\ frames' = Append(frames,
              [scopes |-> << [n \in Range(sig) |->
                                 Len(store) + CHOOSE i \in DOMAIN sig : sig[i] = n] >>,
               base |-> Len(store), outs |-> passed])
        /\ clash' = \/ clash
                    \/ passed \cap (bumped \cup Range(sig)) # {}
                    \/ \E i \in DOMAIN args : args[i].how = "value" /\ Captured(args[i].of)

\* The callee returns: the variables it got the addresses of are copied back, by
\* their names.
CopiedOut(env) ==
    [n \in DOMAIN env |-> IF n \in Last(frames).outs THEN Env[n] ELSE env[n]]
Return ==
    /\ ~clash /\ Len(frames) > 1
    /\ frames' = Front(frames)
    /\ envs' = LET saved == Len(envs) - 1
               IN  [Front(envs) EXCEPT ![saved] = CopiedOut(@)]
    /\ store' = SubSeq(store, 1, Last(frames).base)
    /\ UNCHANGED clash

NamesNext ==
    \/ \E n \in Ints : DeclareBare(n) \/ \E v \in Values : Declare(n, v)
    \/ \E q \in Pointers, n \in Ints : DeclarePointer(q, n)
    \/ \E n, m \in Ints : Assign(n, m)
    \/ \E n \in Ints : PlusPlus(n)
    \/ \E q \in Pointers, v \in Values : Write(q, v)
    \/ Open \/ Close \/ Return
    \/ \E sig \in Signatures :
          \E args \in [DOMAIN sig -> UNION {Arguments(sig[i]) : i \in DOMAIN sig}] :
             /\ \A i \in DOMAIN sig : args[i] \in Arguments(sig[i])
             /\ Call(sig, args)

NamesSpec == NamesInit /\ [][NamesNext]_namesVars

-------------------------------------------------------------------------------
(* Properties.                                                              *)

\* The types; there are as many environments as frames, and a name that the
\* function being interpreted has declared is in its environment.
NamesTypeOK ==
    /\ Len(envs) = Len(frames) /\ Len(envs) \in 1..MaxFrames
    /\ Len(store) <= MaxLocations /\ clash \in BOOLEAN
    /\ \A i \in DOMAIN envs :
          /\ \A n \in DOMAIN envs[i] : n \in Ints => envs[i][n] \in Values
          /\ \A n \in DOMAIN envs[i] : n \in Pointers => envs[i][n] \in Ints
          /\ \A s \in Range(frames[i].scopes) : DOMAIN s \subseteq DOMAIN envs[i]

\* The evaluator reads what the program reads, from every variable, constant
\* and pointer it can name, as long as no name has stood for two variables.
Same(ct, rt) == rt = Undefined \/ ct = rt
NamesAgree ==
    /\ NamesTypeOK
    /\ ~clash =>
        /\ \A n \in Ints : Readable(n) /\ ~Captured(n) => Same(CtRead(n), RtRead(n))
        /\ \A q \in Pointers : Pointing(q) =>
              Env[q] \in DOMAIN Env /\ Same(CtLoad(q), store[store[Location(q)]])
===============================================================================
