------------------------------ MODULE Associative ------------------------------
(***************************************************************************)
(* What a container that maps keys to values promises its caller           *)
(* (docs/spec/stdlib.md, section 14), whatever its memory looks like.      *)
(* answer is what the last operation returned.                             *)
(***************************************************************************)
EXTENDS Naturals

CONSTANTS Keys, Values, None

VARIABLES contents, answer

Init == contents = [k \in {} |-> None] /\ answer = None

\* The key gets the value, and replaces the one it had; or memory is short,
\* the operation says so, and nothing has changed.
Put(k, v) ==
    \/ /\ contents' = [x \in DOMAIN contents \cup {k} |->
                          IF x = k THEN v ELSE contents[x]]
       /\ answer' = TRUE
    \/ contents' = contents /\ answer' = FALSE

Remove(k) ==
    /\ contents' = [x \in DOMAIN contents \ {k} |-> contents[x]]
    /\ answer' = (k \in DOMAIN contents)

Clear == contents' = [x \in {} |-> None] /\ answer' = None

Next ==
    \/ \E k \in Keys, v \in Values \cup {None} : Put(k, v)
    \/ \E k \in Keys : Remove(k)
    \/ Clear

Spec == Init /\ [][Next]_<<contents, answer>>
===============================================================================
