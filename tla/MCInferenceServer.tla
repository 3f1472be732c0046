-------------------------- MODULE MCInferenceServer --------------------------
(* Instances of InferenceServer for TLC. *)
EXTENDS InferenceServer

CONSTANTS r1, r2, r3, r4
=============================================================================
