---------------------------- MODULE MCScopeCodegen ----------------------------
(* ScopeCodegen on all functions of a few statements over one variable name.*)
EXTENDS ScopeCodegen
===============================================================================
