--------------------------- MODULE MCConstexprControl ---------------------------
(* ConstexprControl as it is; the configurations give the limits.           *)
EXTENDS ConstexprControl
===============================================================================
