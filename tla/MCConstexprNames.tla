---------------------------- MODULE MCConstexprNames ----------------------------
(* ConstexprNames with two integers, of which g is also a module-level    *)
(* constant, a pointer, and functions of one and two parameters.            *)
EXTENDS ConstexprNames, TLC

CONSTANTS x, g, p

MCConstants  == g :> 0
MCSignatures == {<<x>>, <<p>>, <<p, g>>, <<x, p>>}
===============================================================================
