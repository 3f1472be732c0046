---------------------------- MODULE ReconfigPlan ----------------------------
(***************************************************************************)
(* The decision part of the node controller's Reconcile, as one step: from *)
(* the pods on a node to the new configuration, the pods to stop and the   *)
(* new label, with the GPU operator applying the label at once.  The       *)
(* module asks whether the decision is right; NodeReconfig takes the same  *)
(* handler apart and asks what happens between its steps.                  *)
(*                                                                         *)
(* A pod requests one or more slices of one kind; gpuIDs[p] is the label   *)
(* the reporter gives a running pod: one GPU per slice, in any order.  The *)
(* label stays on a pod that has finished, until the pod object goes.      *)
(***************************************************************************)
EXTENDS ConfigSelector

CONSTANTS
    Pods,
    Kind,         \* Kind[p]: the slice kind p requests
    Quantity,     \* Quantity[p]: how many
    MaxQuantity,  \* bound on Quantity
    MaxSlices,    \* slices one GPU can be divided into
    InitConfigs   \* the configurations a node may start with

ASSUME FileAssumption ==
    /\ NoLayoutContained
    /\ NoEmptyLayout
    /\ CountsAreNatural
    /\ KnownSlices
    /\ InitConfigs \subseteq ConfigNames
ASSUME PodsAssumption ==
    /\ IsFiniteSet(Pods)
    /\ MaxQuantity \in Nat
    /\ Kind \in [Pods -> Slices]
    /\ Quantity \in [Pods -> 1..MaxQuantity]
ASSUME RoomAssumption ==
    /\ IsFiniteSet(GPUs) /\ MaxSlices \in Nat
    /\ NamedOnce
    /\ \A c \in ConfigNames, s \in Slices : \A d \in DOMAIN Layouts[c] : Cnt(Layouts[c][d], s) <= MaxSlices

VARIABLES
    stage,     \* stage[p]: "pending", "running", "finished" or "gone"
    gpuIDs,    \* gpuIDs[p]: the GPUs of the slices of p
    config,    \* the label nvidia.com/mig.config
    layout,    \* layout[d][s]: the slices of kind s that exist on GPU d
    stopped    \* the running pods the last reconfiguration stopped

vars == <<stage, gpuIDs, config, layout, stopped>>

\* The slices of a kind that the pods of a set hold on a GPU, as <<pod, position>>.
Held(pods, ids, d, s) ==
    {e \in pods \X (1..MaxQuantity) :
        Kind[e[1]] = s /\ e[2] \in DOMAIN ids[e[1]] /\ ids[e[1]][e[2]] = d}

Running == {p \in Pods : stage[p] = "running"}

\* podLocation as built by GetPodLocation, which does not look at the phase.
podLocation ==
    {e \in Pods \X (1..MaxQuantity) \X GPUs :
        e[2] \in DOMAIN gpuIDs[e[1]] /\ gpuIDs[e[1]][e[2]] = e[3]}

\* The slices of a kind that a set of pods requests.
Wanted(pods, s) == {e \in pods \X (1..MaxQuantity) :
                       Kind[e[1]] = s /\ e[2] <= Quantity[e[1]]}

Init ==
    /\ stage = [p \in Pods |-> "pending"]
    /\ gpuIDs = [p \in Pods |-> <<>>]
    /\ config \in InitConfigs
    /\ layout = [d \in GPUs |-> [s \in Slices |-> SlicesOf(config, d, s)]]
    /\ stopped = {}

\* The kubelet hands a scheduled pod slices that exist and are free.
Run(p) ==
    /\ stage[p] = "pending"
    /\ stage' = [stage EXCEPT ![p] = "running"]
    /\ \E ids \in [1..Quantity[p] -> GPUs] :
          /\ gpuIDs' = [gpuIDs EXCEPT ![p] = ids]
          /\ \A d \in GPUs : Cardinality(Held(Running', gpuIDs', d, Kind[p])) <= layout[d][Kind[p]]
    /\ stopped' = stopped \ {p}
    /\ UNCHANGED <<config, layout>>

\* Faulty variant: the label goes when the pod finishes.
FinishUnlabelled(p) ==
    /\ stage[p] = "running"
    /\ stage' = [stage EXCEPT ![p] = "finished"]
    /\ gpuIDs' = [gpuIDs EXCEPT ![p] = <<>>]
    /\ UNCHANGED <<config, layout, stopped>>

\* A pod succeeds or fails: it frees its slices and keeps its label.
Finish(p) ==
    /\ stage[p] = "running"
    /\ stage' = [stage EXCEPT ![p] = "finished"]
    /\ UNCHANGED <<gpuIDs, config, layout, stopped>>

\* The object of a finished pod is collected.
Collect(p) ==
    /\ stage[p] = "finished"
    /\ stage' = [stage EXCEPT ![p] = "gone"]
    /\ gpuIDs' = [gpuIDs EXCEPT ![p] = <<>>]
    /\ UNCHANGED <<config, layout, stopped>>

\* Faulty variant: the request of the target pod is left out.
RequestWithoutTarget(target) ==
    [s \in {Kind[p] : p \in Running \cup {target}} |->
        Cardinality(Wanted(Running, s))]

\* usedSliceCnts: what the running pods and the target pod request together.
\* Only the requested kinds are keys.
Request(target) ==
    [s \in {Kind[p] : p \in Running \cup {target}} |->
        Cardinality(Wanted(Running, s)) + (IF Kind[target] = s THEN Quantity[target] ELSE 0)]

\* The pods listed on the GPUs to be reconfigured, finished ones among them.
StopPods(newConfig) ==
    {p \in Pods : \E i \in DOMAIN gpuIDs[p] : gpuIDs[p][i] \in getReconfigGPU(config, newConfig)}

\* mig-parted gives every GPU the configuration names its slices and leaves the
\* other GPUs alone.
Apply(newConfig) ==
    [d \in GPUs |-> IF d \in DOMAIN getConfig(newConfig)
                    THEN [s \in Slices |-> SlicesOf(newConfig, d, s)]
                    ELSE layout[d]]

\* Reconcile for a target pod that is not scheduled yet.  The pods to stop are
\* deleted; those that were running are created again by their ReplicaSets.
Reconcile(target) ==
    /\ stage[target] = "pending"
    /\ \E c \in getBestConfig(Request(target), podLocation, config) :
          /\ stopped' = StopPods(c) \cap Running
          /\ stage' = [p \in Pods |-> IF p \notin StopPods(c) THEN stage[p]
                                     ELSE IF p \in Running THEN "pending" ELSE "gone"]
          /\ gpuIDs' = [p \in Pods |-> IF p \in StopPods(c) THEN <<>> ELSE gpuIDs[p]]
          /\ config' = c
          /\ layout' = Apply(c)

Next == \E p \in Pods : Run(p) \/ Finish(p) \/ Collect(p) \/ Reconcile(p)

Spec == Init /\ [][Next]_vars

-----------------------------------------------------------------------------
(* Properties *)

TypeOK ==
    /\ stage \in [Pods -> {"pending", "running", "finished", "gone"}]
    /\ gpuIDs \in [Pods -> Seq(GPUs)]
    /\ \A p \in Pods : DOMAIN gpuIDs[p] = IF stage[p] \in {"running", "finished"} THEN 1..Quantity[p] ELSE {}
    /\ config \in ConfigNames
    /\ layout \in [GPUs -> [Slices -> Nat]]
    /\ stopped \subseteq Pods

\* Every running pod sits on slices that exist: a reconfiguration never takes
\* a slice from under a pod that was not stopped, although getReconfigGPU looks
\* at the keys of the new configuration only.
SlicesExist ==
    \A d \in GPUs, s \in Slices : Cardinality(Held(Running, gpuIDs, d, s)) <= layout[d][s]

\* The slices of a kind that exist.
Existing(s) == {e \in GPUs \X (1..MaxSlices) : e[2] <= layout[e[1]][s]}

\* After a reconfiguration for a target there is room for the target and for
\* every pod that was stopped, next to the pods that were left alone.
RoomForAll ==
    [][\A target \in Pods : Reconcile(target) =>
         \A s \in Slices :
            Cardinality(Wanted(stopped' \cup {target}, s)) + Cardinality(Wanted(Running', s))
                <= Cardinality(Existing(s)')]_vars

\* No pod is stopped while the configuration in force can hold all the pods.
NoNeedlessStop ==
    [][\A target \in Pods :
         Reconcile(target) /\ config \in getBestConfigFilter(Request(target))
             => stopped' = {}]_vars

\* The label describes the layout of every GPU its configuration names.
LabelTruthful ==
    \A d \in DOMAIN getConfig(config), s \in Slices : layout[d][s] = SlicesOf(config, d, s)

IInv == TypeOK /\ SlicesExist /\ LabelTruthful
=============================================================================
