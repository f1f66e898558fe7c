------------------------------ MODULE MCHashTable ------------------------------
(* HashTable with three keys: hash functions that scatter them, that let    *)
(* two or all of them collide, and that start at the last slot.             *)
EXTENDS HashTable, TLC

CONSTANTS p, q, r, v, w

MCHashes == {(p :> 0) @@ (q :> 1) @@ (r :> 2),
             (p :> 0) @@ (q :> 0) @@ (r :> 1),
             (p :> 2) @@ (q :> 2) @@ (r :> 2),
             (p :> 7) @@ (q :> 3) @@ (r :> 0)}
===============================================================================
