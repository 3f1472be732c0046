--------------------------- MODULE MCNodeReconfig ---------------------------
(* Instances of NodeReconfig for TLC. *)
EXTENDS NodeReconfig, TLC

CONSTANTS p1, p2, A, B

\* The profiles agree on GPU 0 and differ on GPU 1.
LayoutAB == (A :> [d \in GPUs |-> 0]) @@ (B :> [d \in GPUs |-> d])
\* Each profile serves one of the pods.
ServesEach == (A :> {p1}) @@ (B :> {p2})
=============================================================================
