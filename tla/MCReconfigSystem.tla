-------------------------- MODULE MCReconfigSystem --------------------------
(* Instances of ReconfigSystem for TLC. *)
EXTENDS ReconfigSystem, TLC

CONSTANTS p1, p2, p3, n1, n2, t1, small, large

HashOne == [p \in Pods |-> t1]

\* The pods that do not run yet are replicas of each other.
Replicas == Permutations({p2, p3})

CpuOf == (small :> 1) @@ (large :> 3) @@ (NoKind :> 0)
MemOf == (small :> 5) @@ (large :> 20) @@ (NoKind :> 0)

Slices(a) == [k \in Kinds |-> IF k = small THEN a ELSE 0]
RequestOne == [p \in Pods |-> Slices(1)]
NoCpu == [p \in Pods |-> 0]
Milli == [n \in Nodes |-> 0]
Room == [n \in Nodes |-> 2]
OnlyFirst == [p \in Pods |-> IF p = p1 THEN n1 ELSE NoNode]
NoShape == <<>>
OneGpu == [n \in Nodes |-> 1]

\* Nothing free, and a free small slice.
StatusTwo == {[max |-> large, free |-> Slices(0)], [max |-> large, free |-> Slices(1)]}
=============================================================================
