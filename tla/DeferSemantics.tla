---------------------------- MODULE DeferSemantics ----------------------------
(***************************************************************************)
(* What docs/spec/semantics.md section 2 promises about `defer`, and the   *)
(* comment in VarDeclAST::codegen about local owning strings, of ONE call  *)
(* of a function:                                                          *)
(*                                                                         *)
(*   - an obligation (a deferred expression, or the release of a local     *)
(*     `string`) is registered in the scope that is innermost when control *)
(*     reaches the statement;                                              *)
(*   - leaving scopes, by falling off the end or by return, break or       *)
(*     continue, discharges exactly the obligations of the scopes left,    *)
(*     the innermost scope first; within a scope the deferred expressions  *)
(*     run last-in first-out, then the strings are released last-in        *)
(*     first-out (a deferred expression may still use them).               *)
(*                                                                         *)
(* The module knows nothing of the compiler: it is what ScopeCodegen, the  *)
(* code that emits the clean-up calls, has to implement.                   *)
(***************************************************************************)
EXTENDS Naturals, SequencesExt

CONSTANT Obligation        \* records with at least the fields kind and id

VARIABLES
    frames,                \* the open scopes, outermost first: what each owes
    ran                    \* the obligations discharged so far, in order

vars == <<frames, ran>>

\* What a scope owes of one kind, in the order it was registered.
OfKind(scope, kind) ==
    FlattenSeq([i \in DOMAIN scope |-> IF scope[i].kind = kind THEN <<scope[i]>>
                                                              ELSE <<>>])

\* The order in which the obligations of one scope are discharged.
Discharge(scope) ==
    Reverse(OfKind(scope, "defer")) \o Reverse(OfKind(scope, "string"))

\* The obligations of the n innermost scopes, in the order they are discharged.
Unwind(n) ==
    FlattenSeq([j \in 1..n |-> Discharge(frames[Len(frames) + 1 - j])])

Init == frames = <<>> /\ ran = <<>>

\* Control enters a block.
Enter == frames' = Append(frames, <<>>) /\ UNCHANGED ran

\* Control reaches a `defer` or the declaration of a local string.
Register(o) ==
    /\ frames # <<>>
    /\ frames' = [frames EXCEPT ![Len(frames)] = Append(@, o)]
    /\ UNCHANGED ran

\* Control leaves the n innermost scopes.
Leave(n) ==
    /\ n \in 1..Len(frames)
    /\ ran' = ran \o Unwind(n)
    /\ frames' = SubSeq(frames, 1, Len(frames) - n)

Next ==
    \/ Enter
    \/ \E o \in Obligation : Register(o)
    \/ \E n \in 1..Len(frames) : Leave(n)

Spec == Init /\ [][Next]_vars
===============================================================================
