------------------------------ MODULE Scheduler ------------------------------
(***************************************************************************)
(* The scheduler plugin (noderesourcesfit/pkg/plugins/noderesources/fit.go) *)
(* inside kube-scheduler: one scheduling cycle at a time, on the copy of   *)
(* the pod the informer has, from PreFilter over Filter and Score to       *)
(* Permit, whose calls to the API server are steps of their own, and       *)
(* bindings that end while later cycles run.                               *)
(*                                                                         *)
(* The status labels of the GPUs are written by someone else at any time.  *)
(* Milli-CPU stands for every resource that is compared with what is       *)
(* allocatable; MIG slices are compared with the labels only.  The score   *)
(* plugins of kube-scheduler are added to this one, so any node that passes *)
(* the filters may be selected.                                            *)
(***************************************************************************)
EXTENDS Integers, FiniteSets, Functions, ResourceScorers

CONSTANTS
    Pods,
    Nodes,
    Kinds,         \* MIG slice kinds
    Cpu, Mem,      \* Cpu[k], Mem[k]: the two numbers in the name of kind k
    NoKind,        \* the status label of a GPU is absent or empty
    MigRequest,    \* MigRequest[p][k]: slices of kind k that p requests
    CpuRequest,    \* CpuRequest[p]: milli-CPU
    Allocatable,   \* Allocatable[n]: milli-CPU of node n
    AllowedPods,   \* AllowedPods[n]: allowedPodNumber
    GpuCount,      \* GpuCount[n]: the label gpu-count, 0 when it is missing
    Statuses,      \* the status labels a GPU may carry: [max, free]
    Strategies,    \* the scoring strategies a configuration may name
    DefaultMilliCPURequest,  \* what a pod without a request of CPU is scored with
    Faults,        \* API calls that may fail: "update", "patch", "bind"
    NoNode,
    NoPod

ASSUME NamesAssumption == NoNode \notin Nodes /\ NoPod \notin Pods /\ NoKind \notin Kinds
ASSUME NodesAssumption == IsFiniteSet(Nodes)
ASSUME PodsAssumption == IsFiniteSet(Pods)
ASSUME StrategiesAssumption ==
    Strategies \subseteq {"LeastAllocated", "MostAllocated", "RequestedToCapacityRatio"}
ASSUME ShapeAssumption == "RequestedToCapacityRatio" \in Strategies => ValidShape
ASSUME CapacityAssumption ==
    /\ CpuRequest \in [Pods -> Nat]
    /\ DefaultMilliCPURequest \in Nat
    /\ Allocatable \in [Nodes -> Nat]
    /\ AllowedPods \in [Nodes -> Nat]
    /\ GpuCount \in [Nodes -> Nat]

GpusOf(n) == 0..GpuCount[n] - 1

VARIABLES
    label,      \* label[p]: the labels preprocess and expectedNode of the pod
    seen,       \* seen[p]: the scheduler's copy of them
    status,     \* status[n][i]: the status labels of GPU i
    target,     \* target[n]: the label targetPod of the node
    place,      \* place[p]: the node p is assumed or bound on
    bound,      \* the pods whose binding is done
    cycle,      \* the scheduling cycle: where it is, its pod, node and verdicts
    \* History variable, read by properties only.
    asked       \* the pods Permit has asked a reconfiguration for

vars == <<label, seen, status, target, place, bound, cycle, asked>>

IdleCycle == [at |-> "idle", pod |-> NoPod, node |-> NoNode, reconfig |-> {}, direct |-> {},
              score |-> [n \in {} |-> 0]]

Init ==
    /\ label = [p \in Pods |-> [done |-> FALSE, expected |-> NoNode]]
    /\ seen = label
    /\ status \in {f \in [Nodes -> UNION {[GpusOf(n) -> Statuses] : n \in Nodes}] :
                      \A n \in Nodes : DOMAIN f[n] = GpusOf(n)}
    /\ target = [n \in Nodes |-> NoPod]
    /\ place = [p \in Pods |-> NoNode]
    /\ bound = {}
    /\ cycle = IdleCycle
    /\ asked = {}

-----------------------------------------------------------------------------
(* Filter: fitsRequest *)

UsesMig(p) == \E k \in Kinds : MigRequest[p][k] > 0

Requested(p) == {k \in Kinds : MigRequest[p][k] > 0}

On(n) == {p \in Pods : place[p] = n}

\* Faulty variant: what the assumed pods request is forgotten.
FitsNodeAlone(p, n) ==
    /\ Cardinality(On(n)) + 1 <= AllowedPods[n]
    /\ CpuRequest[p] > 0 => CpuRequest[p] <= Allocatable[n]

\* The pods assumed and bound on a node count, and what they request.
FitsNode(p, n) ==
    /\ Cardinality(On(n)) + 1 <= AllowedPods[n]
    /\ CpuRequest[p] > 0 =>
          CpuRequest[p] <= Allocatable[n] - SumFunctionOnSet(CpuRequest, On(n))

\* What remains of a GPU is at least what p requests of every kind together,
\* each kind counted once, whatever its quantity.
Sufficient(p, st) ==
    /\ st.max # NoKind
    /\ Cpu[st.max] >= SumFunctionOnSet(Cpu, Requested(p))
    /\ Mem[st.max] >= SumFunctionOnSet(Mem, Requested(p))

\* A requested kind has enough free slices: one of the kinds is enough.
Direct(p, st) == Sufficient(p, st) /\ \E k \in Requested(p) : st.free[k] >= MigRequest[p][k]

SufficientGPU(p, n) == \E i \in GpusOf(n) : Sufficient(p, status[n][i])

ToReconfig(p, n) == ~\E i \in GpusOf(n) : Direct(p, status[n][i])

\* The loop over the GPUs indexes the empty string when it meets a GPU without
\* its label before one the pod can run on.
Panics(p, n) ==
    /\ UsesMig(p)
    /\ \E i \in GpusOf(n) : /\ status[n][i].max = NoKind
                            /\ \A j \in GpusOf(n) : j < i => ~Direct(p, status[n][j])

Filter(p, n) == FitsNode(p, n) /\ (UsesMig(p) => SufficientGPU(p, n))

-----------------------------------------------------------------------------
(* Score and NormalizeScore *)

NonZeroRequest(p) == IF CpuRequest[p] = 0 THEN DefaultMilliCPURequest ELSE CpuRequest[p]

\* The resource score of a node, with CPU as its only resource, which is how the plugin
\* is deployed: the pods on the node and p, with their non-zero requests.
BaseScore(strategy, p, n) ==
    NodeScore(strategy,
              <<SumFunctionOnSet([q \in Pods |-> NonZeroRequest(q)], On(n) \cup {p})>>,
              <<Allocatable[n]>>, <<1>>)

\* Faulty variant: a node to be reconfigured gets the bonus.
ScoreInverted(base, reconfig) == IF reconfig THEN base + MaxNodeScore ELSE base

\* A node that runs the pod directly gets MaxNodeScore on top.
Score(base, reconfig) == IF reconfig THEN base ELSE base + MaxNodeScore

Lowest(scores) == CHOOSE x \in Range(scores) : \A y \in Range(scores) : x <= y
Highest(scores) == CHOOSE x \in Range(scores) : \A y \in Range(scores) : y <= x

NormalizeScore(scores) ==
    IF Lowest(scores) = 0 /\ Highest(scores) = 0 THEN scores
    ELSE [n \in DOMAIN scores |->
             IF Highest(scores) = Lowest(scores) THEN 0
             ELSE (MaxNodeScore * (scores[n] - Lowest(scores))) \div (Highest(scores) - Lowest(scores))]

\* The scores of the feasible nodes.  Filter leaves a verdict for a pod with MIG
\* slices only, and a single feasible node is not scored.
Scores(p, base, reconfig) ==
    IF Cardinality(DOMAIN base) = 1 THEN [n \in {} |-> 0]
    ELSE NormalizeScore([n \in DOMAIN base |->
             IF UsesMig(p) THEN Score(base[n], n \in reconfig) ELSE base[n]])

-----------------------------------------------------------------------------
(* A scheduling cycle *)

\* A cycle without the check of PreFilter.  It works on the snapshot: the nodes
\* that pass the other filter plugins and this one, their scores, the selection
\* of one of them and the assumption that the pod is there.
ScheduleUnchecked(p) ==
    /\ cycle.at = "idle"
    /\ place[p] = NoNode
    /\ \E passed \in SUBSET {n \in Nodes : ~Panics(p, n)} :
          LET feasible == {n \in passed : Filter(p, n)}
              reconfig == {n \in feasible : UsesMig(p) /\ ToReconfig(p, n)}
          IN  \E n \in feasible, strategy \in Strategies :
                /\ place' = [place EXCEPT ![p] = n]
                /\ cycle' = [at |-> "permit", pod |-> p, node |-> n, reconfig |-> reconfig,
                             direct |-> IF UsesMig(p) THEN feasible \ reconfig ELSE {},
                             score |-> Scores(p, [m \in feasible |-> BaseScore(strategy, p, m)], reconfig)]
    /\ UNCHANGED <<label, seen, status, target, bound, asked>>

\* PreFilter lets only preprocessed pods pass.
Schedule(p) == seen[p].done /\ ScheduleUnchecked(p)

\* The scheduler dies and starts again with an empty memory: what was assumed and
\* not bound is forgotten.
Restart ==
    /\ place' = [q \in Pods |-> IF q \in bound THEN place[q] ELSE NoNode]
    /\ cycle' = IdleCycle
    /\ seen' = label
    /\ UNCHANGED <<label, status, target, bound, asked>>

\* A panic in Filter ends the scheduler.
Panic(p) ==
    /\ cycle.at = "idle"
    /\ place[p] = NoNode
    /\ seen[p].done
    /\ \E n \in Nodes : Panics(p, n)
    /\ Restart

\* Any other death, in a cycle or between two.
Crash == Restart

\* Permit refuses: the pod is forgotten and queued again.
Refuse ==
    /\ place' = [place EXCEPT ![cycle.pod] = NoNode]
    /\ cycle' = IdleCycle

\* Permit without a reconfiguration: a pod with an expectedNode passes on that
\* node only.  The copy of the pod is the one the cycle began with.
PermitDirect ==
    /\ cycle.at = "permit"
    /\ cycle.node \notin cycle.reconfig
    /\ IF cycle.node \in cycle.direct /\ seen[cycle.pod].expected \notin {NoNode, cycle.node}
       THEN Refuse
       ELSE cycle' = IdleCycle /\ place' = place
    /\ UNCHANGED <<label, seen, status, target, bound, asked>>

\* Faulty variant: a failed Update is logged only.
PermitLabelNodeIgnoresError ==
    /\ cycle.at = "permit"
    /\ cycle.node \in cycle.reconfig
    /\ cycle' = [IdleCycle EXCEPT !.at = "patch", !.pod = cycle.pod, !.node = cycle.node]
    /\ asked' = asked \cup {cycle.pod}
    /\ \/ target' = [target EXCEPT ![cycle.node] = cycle.pod]
       \/ "update" \in Faults /\ target' = target
    /\ UNCHANGED <<label, seen, status, place, bound>>

\* Permit with a reconfiguration: the node is read and written ...
PermitLabelNode ==
    /\ cycle.at = "permit"
    /\ cycle.node \in cycle.reconfig
    /\ \/ /\ target' = [target EXCEPT ![cycle.node] = cycle.pod]
          /\ asked' = asked \cup {cycle.pod}
          /\ cycle' = [IdleCycle EXCEPT !.at = "patch", !.pod = cycle.pod, !.node = cycle.node]
          /\ place' = place
       \/ /\ "update" \in Faults
          /\ Refuse
          /\ UNCHANGED <<target, asked>>
    /\ UNCHANGED <<label, seen, status, bound>>

\* ... and then the label of the pod is replaced, which needs the label to be
\* there.  The pod is refused either way.
PermitPatchPod ==
    /\ cycle.at = "patch"
    /\ \/ /\ label[cycle.pod].expected # NoNode
          /\ label' = [label EXCEPT ![cycle.pod].expected = cycle.node]
       \/ /\ label[cycle.pod].expected = NoNode \/ "patch" \in Faults
          /\ label' = label
    /\ Refuse
    /\ UNCHANGED <<seen, status, target, bound, asked>>

\* Faulty variant: the binding does not wait for Permit.
BindEarly(p) ==
    /\ place[p] # NoNode
    /\ p \notin bound
    /\ \/ bound' = bound \cup {p} /\ place' = place
       \/ "bind" \in Faults /\ bound' = bound /\ place' = [place EXCEPT ![p] = NoNode]
    /\ UNCHANGED <<label, seen, status, target, cycle, asked>>

\* The binding goroutine binds an assumed pod, or fails and forgets it.
Bind(p) ==
    /\ place[p] # NoNode
    /\ p \notin bound
    /\ cycle.pod # p
    /\ \/ bound' = bound \cup {p} /\ place' = place
       \/ "bind" \in Faults /\ bound' = bound /\ place' = [place EXCEPT ![p] = NoNode]
    /\ UNCHANGED <<label, seen, status, target, cycle, asked>>

-----------------------------------------------------------------------------
(* The rest of the cluster *)

\* The pod controller releases a pod, with or without an expected node.
Preprocess(p) ==
    /\ ~label[p].done
    /\ \E n \in Nodes \cup {NoNode} : label' = [label EXCEPT ![p] = [done |-> TRUE, expected |-> n]]
    /\ UNCHANGED <<seen, status, target, place, bound, cycle, asked>>

\* The informer delivers the pod; a cycle under way keeps its copy.
Sync(p) ==
    /\ seen[p] # label[p]
    /\ cycle.pod # p
    /\ seen' = [seen EXCEPT ![p] = label[p]]
    /\ UNCHANGED <<label, status, target, place, bound, cycle, asked>>

\* Someone writes the status labels of a GPU.
ReportStatus(n, i, st) ==
    /\ status' = [status EXCEPT ![n][i] = st]
    /\ UNCHANGED <<label, seen, target, place, bound, cycle, asked>>

Permit == PermitDirect \/ PermitLabelNode \/ PermitPatchPod

Next ==
    \/ \E p \in Pods : Schedule(p) \/ Panic(p) \/ Bind(p) \/ Preprocess(p) \/ Sync(p)
    \/ Permit \/ Crash
    \/ \E n \in Nodes : \E i \in GpusOf(n), st \in Statuses : ReportStatus(n, i, st)

Spec == Init /\ [][Next]_vars

-----------------------------------------------------------------------------
(* Properties *)

TypeOK ==
    /\ label \in [Pods -> [done : BOOLEAN, expected : Nodes \cup {NoNode}]]
    /\ seen \in [Pods -> [done : BOOLEAN, expected : Nodes \cup {NoNode}]]
    /\ DOMAIN status = Nodes /\ (\A n \in Nodes : status[n] \in [GpusOf(n) -> Statuses])
    /\ target \in [Nodes -> Pods \cup {NoPod}]
    /\ place \in [Pods -> Nodes \cup {NoNode}]
    /\ bound \subseteq Pods /\ (\A p \in bound : place[p] # NoNode)
    /\ cycle.at \in {"idle", "permit", "patch"}
    /\ cycle.at # "idle" => place[cycle.pod] = cycle.node /\ cycle.pod \notin bound
    /\ asked \subseteq Pods

\* No node is given more pods than it allows or more of a resource than it has,
\* counting the pods that are assumed there while their bindings are under way.
NoOvercommit ==
    \A n \in Nodes : /\ Cardinality(On(n)) <= AllowedPods[n]
                     /\ SumFunctionOnSet(CpuRequest, On(n)) <= Allocatable[n]

\* A pod with MIG slices that no reconfiguration was asked for goes to the node
\* the pod controller sent it to, however stale the scheduler's copy is, and no
\* pod goes anywhere before it is preprocessed.
GoesWhereExpected ==
    \A p \in Pods : place[p] # NoNode /\ p # cycle.pod =>
        /\ label[p].done
        /\ UsesMig(p) /\ p \notin asked => label[p].expected \in {NoNode, place[p]}

\* What makes GoesWhereExpected inductive.  The scheduler's copy of a pod is ahead of
\* nothing, and behind only when Permit has written the label; the pod of a cycle is
\* assumed on its node, and its copy stays as it was; the node the label of a pod is
\* about to name names the pod.
CopiesSound ==
    \A p \in Pods : seen[p].done => label[p].done /\ (p \notin asked => label[p] = seen[p])

CycleSound ==
    /\ cycle.at = "idle" => cycle.pod = NoPod
    /\ cycle.at # "idle" => cycle.pod \in Pods /\ cycle.node \in Nodes /\ seen[cycle.pod].done
    /\ cycle.at = "permit" /\ UsesMig(cycle.pod) => cycle.node \in cycle.reconfig \cup cycle.direct
    /\ cycle.at = "patch" => cycle.pod \in asked /\ target[cycle.node] = cycle.pod

IInv == TypeOK /\ GoesWhereExpected /\ CopiesSound /\ CycleSound

\* "Only update pod's expectedNode label after node was successfully label to be
\* reconfigured": a pod is sent elsewhere only to a node that names it.
RedirectedToItsNode ==
    [][\A p \in Pods : label[p].done /\ label'[p] # label[p]
          => target'[label'[p].expected] = p]_vars

\* What kube-scheduler expects of a score plugin.
BaseInRange ==
    \A strategy \in Strategies, p \in Pods, n \in Nodes : BaseScore(strategy, p, n) \in 0..MaxNodeScore

\* The bonus of Score survives the normalisation: whatever the resource scores, a
\* node that must be reconfigured never outranks one that has a free slice.
FreeSliceOutranks ==
    \A m \in cycle.direct, n \in cycle.reconfig : cycle.score[m] >= cycle.score[n]
=============================================================================
