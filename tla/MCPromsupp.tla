------------------------------ MODULE MCPromsupp ------------------------------
(* Instances of Promsupp for TLC. *)
EXTENDS Promsupp

CONSTANTS s1, s2
=============================================================================
