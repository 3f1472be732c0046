--------------------------- MODULE MCPodPreprocess ---------------------------
(* Instances of PodPreprocess for TLC. *)
EXTENDS PodPreprocess, TLC

CONSTANTS p1, p2, p3, n1, n2, t1, t2

\* Two replicas of one template and a pod without a template.
HashPlain == (p1 :> t1) @@ (p2 :> t1) @@ (p3 :> NoHash)
\* Two templates, one of them with two replicas.
HashTwo == (p1 :> t1) @@ (p2 :> t2) @@ (p3 :> t1)

NoFaults == {}
AllFaults == {"get", "patch", "update", "list", "delete"}
=============================================================================
