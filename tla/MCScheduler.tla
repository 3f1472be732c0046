----------------------------- MODULE MCScheduler -----------------------------
(* Instances of Scheduler for TLC. *)
EXTENDS Scheduler, TLC

CONSTANTS p1, p2, n1, n2, small, large

CpuOf == (small :> 1) @@ (large :> 3) @@ (NoKind :> 0)
MemOf == (small :> 5) @@ (large :> 20) @@ (NoKind :> 0)

Slices(a, b) == [k \in Kinds |-> IF k = small THEN a ELSE IF k = large THEN b ELSE 0]
\* A pod with a small slice, one without.
RequestOne == [p \in Pods |-> IF p = p1 THEN Slices(1, 0) ELSE Slices(0, 0)]
\* n1 is too small for both pods, n2 allows one pod only.
CpuRequests == [p \in Pods |-> IF p = p1 THEN 2 ELSE 1]
Milli == (n1 :> 2) @@ (n2 :> 3)
Room == (n1 :> 2) @@ (n2 :> 1)
TwoAndOne == (n1 :> 2) @@ (n2 :> 1)

\* Next to nothing up to two thirds, everything when full.
Steep == <<[utilization |-> 66, score |-> 0], [utilization |-> 100, score |-> 100]>>

\* The resource scores on small amounts: at most MaxNodeScore, and with MostAllocated the
\* fuller node is ahead, with LeastAllocated the emptier one, whatever the weights.
Amounts == 0..3
ASSUME ScoresInRange ==
    \A r1, r2, c1, c2 \in Amounts : \A w \in {<<1, 1>>, <<1, 3>>} :
        LET of(s) == NodeScore(s, <<r1, r2>>, <<c1, c2>>, w)
            more(s) == NodeScore(s, <<r1 + 1, r2>>, <<c1, c2>>, w)
        IN  /\ \A s \in Strategies : of(s) \in 0..MaxNodeScore
            /\ of("LeastAllocated") >= more("LeastAllocated")
            /\ of("MostAllocated") <= more("MostAllocated")

Status(max, a, b) == [max |-> max, free |-> Slices(a, b)]
\* No label, nothing free, and a free small slice.
StatusThree == {Status(NoKind, 0, 0), Status(large, 0, 0), Status(large, 1, 0)}
=============================================================================
