---------------------------- MODULE MCAutoscaler ----------------------------
(* Instances of Autoscaler for TLC. *)
EXTENDS Autoscaler

CONSTANTS small, medium, large, n1

TierList == <<small, medium, large>>
OneNode == <<n1>>
\* A node divided into large slices, and one with slices of every kind.
TwoLayouts == {[t \in TierNames |-> IF t = large THEN 1 ELSE 0], [t \in TierNames |-> 1]}
=============================================================================
