--------------------------- MODULE ResourceScorers ---------------------------
(***************************************************************************)
(* The score of a node for a pod: resource_allocation.go and the three     *)
(* strategies the plugin knows (least_allocated.go, most_allocated.go,     *)
(* requested_to_capacity_ratio.go).                                        *)
(*                                                                         *)
(* A resource is an index: requested[i] and allocable[i] are what is asked *)
(* of it on the node, the pod included, and what the node has of it,       *)
(* weight[i] is its weight in the configuration.  An allocable amount of   *)
(* zero leaves the resource out.                                           *)
(***************************************************************************)
EXTENDS Integers, FiniteSets, Functions

CONSTANTS
    MaxNodeScore,
    Shape    \* the points [utilization, score] of the ratio strategy, a sequence

ASSUME MaxScoreAssumption == MaxNodeScore \in Nat \ {0}

maxUtilization == 100

leastRequestedScore(requested, capacity) ==
    IF capacity = 0 \/ requested > capacity THEN 0
    ELSE ((capacity - requested) * MaxNodeScore) \div capacity

\* Pods without a request count with a default, so more may be requested than there is.
mostRequestedScore(requested, capacity) ==
    IF capacity = 0 THEN 0
    ELSE ((IF requested > capacity THEN capacity ELSE requested) * MaxNodeScore) \div capacity

\* What NewFit asks of the points: some, each further right than the one before it.
ValidShape ==
    LET n == Cardinality(DOMAIN Shape)
    IN  /\ n \in Nat \ {0}
        /\ Shape \in [1..n -> [utilization : 0..maxUtilization, score : 0..MaxNodeScore]]
        /\ \A i \in 2..n : Shape[i - 1].utilization < Shape[i].utilization

\* The division of Go, which cuts off towards zero.
Quotient(a, b) == IF a >= 0 THEN a \div b ELSE -((-a) \div b)

\* The function through the points, constant before the first and after the last one.
BrokenLinear(p) ==
    LET n == Cardinality(DOMAIN Shape)
        right == {i \in 1..n : p <= Shape[i].utilization}
    IN  IF right = {} THEN Shape[n].score
        ELSE LET i == CHOOSE i \in right : \A j \in right : i <= j
             IN  IF i = 1 THEN Shape[1].score
                 ELSE Shape[i - 1].score
                      + Quotient((Shape[i].score - Shape[i - 1].score) * (p - Shape[i - 1].utilization),
                                 Shape[i].utilization - Shape[i - 1].utilization)

ratioScore(requested, capacity) ==
    BrokenLinear(IF capacity = 0 \/ requested > capacity THEN maxUtilization
                 ELSE (requested * maxUtilization) \div capacity)

HasResource(allocable) == {i \in DOMAIN allocable : allocable[i] # 0}

WeightSum(weight, S) == SumFunctionOnSet(weight, S)

WeightedSum(score, weight, S) == SumFunctionOnSet([i \in S |-> score[i] * weight[i]], S)

\* The mean over the resources the node has, cut off.
CutMean(score, weight, S) ==
    IF WeightSum(weight, S) = 0 THEN 0 ELSE WeightedSum(score, weight, S) \div WeightSum(weight, S)

leastResourceScorer(requested, allocable, weight) ==
    CutMean([i \in DOMAIN allocable |-> leastRequestedScore(requested[i], allocable[i])],
            weight, HasResource(allocable))

mostResourceScorer(requested, allocable, weight) ==
    CutMean([i \in DOMAIN allocable |-> mostRequestedScore(requested[i], allocable[i])],
            weight, HasResource(allocable))

\* The ratio strategy leaves out scores of zero, and rounds.
requestedToCapacityRatioScorer(requested, allocable, weight) ==
    LET score == [i \in DOMAIN allocable |-> ratioScore(requested[i], allocable[i])]
        S == {i \in HasResource(allocable) : score[i] > 0}
    IN  IF WeightSum(weight, S) = 0 THEN 0
        ELSE (2 * WeightedSum(score, weight, S) + WeightSum(weight, S)) \div (2 * WeightSum(weight, S))

NodeScore(strategy, requested, allocable, weight) ==
    CASE strategy = "LeastAllocated" -> leastResourceScorer(requested, allocable, weight)
      [] strategy = "MostAllocated" -> mostResourceScorer(requested, allocable, weight)
      [] strategy = "RequestedToCapacityRatio" ->
            requestedToCapacityRatioScorer(requested, allocable, weight)
=============================================================================
