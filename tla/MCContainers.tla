------------------------------ MODULE MCContainers ------------------------------
(* Containers with two values and buffers of two and four elements.         *)
EXTENDS Containers

CONSTANTS a, b, m1, m2
===============================================================================
