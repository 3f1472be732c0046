---------------------------- MODULE NodeReconfig ----------------------------
(***************************************************************************)
(* The node controller's Reconcile (internal/controllers/node_controller.go) *)
(* step by step, on one node, against everything that runs at the same     *)
(* time: the API server with its optimistic concurrency, the controller's  *)
(* cache, the scheduler plugin that asks for reconfigurations and binds    *)
(* pods, the kubelet, the GPU reporter and NVIDIA's MIG manager.  One      *)
(* reconciliation runs at a time and its busy loops hold the only worker,  *)
(* so another node could only add delay.                                   *)
(*                                                                         *)
(* Which configuration getBestConfig picks is left open (any one that has  *)
(* a slice for the target); ReconfigPlan decides that part.  An object     *)
(* version is represented by a flag: a copy is fresh until the object is   *)
(* written by someone else, and an Update is accepted from a fresh copy    *)
(* only.                                                                   *)
(*                                                                         *)
(* The scheduler looks at a snapshot that lags behind the node.  What it   *)
(* may miss is the taint and what the node offers: it keeps sending pods   *)
(* to a tainted node until it notices, and for slices that are gone.       *)
(***************************************************************************)
EXTENDS Naturals, FiniteSets

CONSTANTS
    Pods,         \* pods that may be scheduled on the node (names are not reused)
    GPUs,
    Configs,      \* the profiles of the mig-parted file
    Layout,       \* Layout[c][d]: the layout profile c gives GPU d
    Serves,       \* Serves[c]: the pods whose slice kind exists under c
    Placements,   \* the sets of GPUs a pod may get slices of
    InitConfig,
    NoPod,
    NoConfig,
    GetErrors,    \* whether a live read may fail for another reason than absence
    DeleteErrors, \* whether the Delete of a pod that exists may fail
    Conflicts,    \* whether other writers touch the node object
    CanCrash      \* whether the process may die at any moment

ASSUME NamesAssumption ==
    /\ NoPod \notin Pods
    /\ NoConfig \notin Configs
    /\ InitConfig \in Configs
    /\ Placements \subseteq (SUBSET GPUs) \ {{}}
ASSUME FlagsAssumption ==
    /\ GetErrors \in BOOLEAN /\ DeleteErrors \in BOOLEAN
    /\ Conflicts \in BOOLEAN /\ CanCrash \in BOOLEAN

VARIABLES
    node,          \* the node object: labels targetPod and mig.config, our taint
    migState,      \* the label nvidia.com/mig.config.state
    noticed,       \* the scheduler's snapshot shows the taint the node has
    offered,       \* the configurations the GPUs have been in, and a snapshot may show
    opConfig,      \* the configuration the MIG manager noticed last
    applied,       \* the configuration the GPUs are in
    phase,         \* phase[p]: "pending", "binding", "running", "terminating", "gone"
    gpus,          \* gpus[p]: the GPUs p holds slices of
    labelled,      \* the pods with a gpuIDs label
    cache,         \* the labels of the node in the controller's cache
    cacheFresh,    \* the cached object is the current one
    queued,        \* the node is in the controller's work queue
    pc,            \* where Reconcile is
    copy,          \* the labels of the node object in Reconcile's hands
    copyFresh,     \* ... which is the current one, so that its Update is accepted
    newConfig,     \* updateConfig
    stopList,      \* stopPods
    toStop,        \* the part of stopList not deleted yet
    checked,       \* the part looked at in this pass of the wait loop
    confirmed,     \* ... and counted as deleted
    \* History variables, read by properties only.
    leaked,        \* the last Reconcile ended, or died, with the node tainted
    clean,         \* the plan was made under a taint the scheduler shows, every pod labelled
    refused        \* the pods of stopList whose Delete failed

clusterVars == <<migState, offered, opConfig, applied, phase, gpus, labelled>>
localVars == <<newConfig, stopList, toStop, checked, confirmed>>
histVars == <<leaked, clean, refused>>
ctlVars == <<pc, copy, copyFresh, localVars>>
vars == <<node, noticed, clusterVars, cache, cacheFresh, queued, ctlVars, histVars>>

LabelPair == [target : Pods \cup {NoPod}, config : Configs]
NodeObject == [target : Pods \cup {NoPod}, config : Configs, tainted : BOOLEAN]

FirstNode == [target |-> NoPod, config |-> InitConfig, tainted |-> FALSE]

Labels(obj) == [target |-> obj.target, config |-> obj.config]

\* The GPUs whose layout differs (getReconfigGPU; ReconfigPlan shows that the
\* comparison it makes is exact for the deployed file).
Reconf(old, new) == {d \in GPUs : Layout[old][d] # Layout[new][d]}

OnNode(p) == phase[p] \in {"running", "terminating"}

Init ==
    /\ node = FirstNode
    /\ migState = "success"
    /\ noticed = FALSE
    /\ offered = {InitConfig}
    /\ opConfig = InitConfig
    /\ applied = InitConfig
    /\ phase = [p \in Pods |-> "pending"]
    /\ gpus = [p \in Pods |-> {}]
    /\ labelled = {}
    /\ cache = Labels(node)
    /\ cacheFresh = TRUE
    /\ queued = FALSE
    /\ pc = "idle"
    /\ copy = Labels(FirstNode)
    /\ copyFresh = FALSE
    /\ newConfig = NoConfig
    /\ stopList = {}
    /\ toStop = {}
    /\ checked = {}
    /\ confirmed = {}
    /\ leaked = FALSE
    /\ clean = FALSE
    /\ refused = {}

-----------------------------------------------------------------------------
(* Writes of the node object. *)

\* Somebody else writes the node: no copy is fresh any more.
ForeignWrite == cacheFresh' = FALSE /\ copyFresh' = FALSE

\* Reconcile's Update of a fresh copy, the current object but for what it sets.
Write(obj) == node' = obj /\ cacheFresh' = FALSE

\* Reconcile reads the node through the cache.
ReadCache == copy' = cache /\ copyFresh' = cacheFresh

\* The same, when all that is done with the copy is to write it back.
ReadToWrite == copyFresh' = cacheFresh /\ UNCHANGED copy

\* Reconcile looks at its copy no more before it gets the node again (a value that
\* nothing reads would only multiply the states).
ForgetCopy == copy' = Labels(FirstNode) /\ copyFresh' = FALSE

-----------------------------------------------------------------------------
(* The scheduler plugin, the kubelet, the reporter, the MIG manager. *)

ControllerIdle == UNCHANGED <<queued, pc, copy, localVars>>

\* A scheduling cycle begins on a snapshot that has the taint.  The cycles are one
\* after the other, so that no later one is without it while it is there; that a
\* snapshot still shows a taint that is gone would only keep pods away longer.
SchedulerNotices ==
    /\ node.tainted /\ ~noticed
    /\ noticed' = TRUE
    /\ UNCHANGED <<node, clusterVars, cache, cacheFresh, copyFresh, histVars>>
    /\ ControllerIdle

\* Permit, when the snapshot has no free slice for the pod (how many are in use is
\* left open): label the node with it, read and written live.  The labels of a
\* repeated request are the labels the node has already, and a write that changes
\* nothing produces no event.
RequestReconfig(p) ==
    /\ phase[p] = "pending"
    /\ ~noticed
    /\ \E c \in offered : p \notin Serves[c]
    /\ IF node.target = p
       THEN UNCHANGED <<node, cacheFresh, copyFresh>>
       ELSE node' = [node EXCEPT !.target = p] /\ ForeignWrite
    /\ UNCHANGED <<noticed, clusterVars, cache, histVars>>
    /\ ControllerIdle

\* The scheduler finds the node untainted and with a slice for the pod, in a
\* snapshot that may be older than the taint and than the configuration ...
Assume(p) ==
    /\ phase[p] = "pending"
    /\ ~noticed
    /\ \E c \in offered : p \in Serves[c]
    /\ phase' = [phase EXCEPT ![p] = "binding"]
    /\ UNCHANGED <<node, noticed, migState, offered, opConfig, applied, gpus, labelled, cache, cacheFresh, copyFresh, histVars>>
    /\ ControllerIdle

\* ... and binds it later; the kubelet gives it slices, or rejects it when they
\* are gone.
Bind(p) ==
    /\ phase[p] = "binding"
    /\ \/ /\ p \in Serves[applied]
          /\ phase' = [phase EXCEPT ![p] = "running"]
          /\ \E held \in Placements : gpus' = [gpus EXCEPT ![p] = held]
       \/ /\ p \notin Serves[applied]
          /\ phase' = [phase EXCEPT ![p] = "gone"]
          /\ gpus' = gpus
    /\ UNCHANGED <<node, noticed, migState, offered, opConfig, applied, labelled,
                   cache, cacheFresh, copyFresh, histVars>>
    /\ ControllerIdle

\* The reporter labels a running pod with its GPUs, at some time: that Reconcile has
\* stopped it, and the DaemonSet has to bring it back, is a reason to be late.
Report(p) ==
    /\ phase[p] = "running"
    /\ p \notin labelled
    /\ labelled' = labelled \cup {p}
    /\ UNCHANGED <<node, noticed, migState, offered, opConfig, applied, phase, gpus,
                   cache, cacheFresh, copyFresh, histVars>>
    /\ ControllerIdle

\* The kubelet finishes a graceful deletion.
PodGone(p) ==
    /\ phase[p] = "terminating"
    /\ phase' = [phase EXCEPT ![p] = "gone"]
    /\ gpus' = [gpus EXCEPT ![p] = {}]
    /\ labelled' = labelled \ {p}
    /\ UNCHANGED <<node, noticed, migState, offered, opConfig, applied,
                   cache, cacheFresh, copyFresh, histVars>>
    /\ ControllerIdle

\* A user deletes a pod.
UserDelete(p) ==
    /\ phase[p] \in {"pending", "running"}
    /\ phase' = [phase EXCEPT ![p] = IF @ = "pending" THEN "gone" ELSE "terminating"]
    /\ UNCHANGED <<node, noticed, migState, offered, opConfig, applied, gpus, labelled,
                   cache, cacheFresh, copyFresh, histVars>>
    /\ ControllerIdle

\* The MIG manager notices a new mig.config label ...
OperatorStart ==
    /\ migState # "pending"
    /\ opConfig # node.config
    /\ opConfig' = node.config
    /\ migState' = "pending"
    /\ ForeignWrite
    /\ UNCHANGED <<node, noticed, offered, applied, phase, gpus, labelled, cache, histVars>>
    /\ ControllerIdle

\* ... and repartitions the GPUs, which fails on a GPU that is in use.
OperatorFinish ==
    /\ migState = "pending"
    /\ IF \E p \in Pods : OnNode(p) /\ gpus[p] \cap Reconf(applied, opConfig) # {}
       THEN migState' = "failed" /\ UNCHANGED <<applied, offered>>
       ELSE migState' = "success" /\ applied' = opConfig /\ offered' = offered \cup {opConfig}
    /\ ForeignWrite
    /\ UNCHANGED <<node, noticed, opConfig, phase, gpus, labelled, cache, histVars>>
    /\ ControllerIdle

\* The kubelet, or anyone else, writes something unrelated into the node.
Heartbeat ==
    /\ Conflicts
    /\ ForeignWrite
    /\ UNCHANGED <<node, noticed, clusterVars, cache, histVars>>
    /\ ControllerIdle

\* The controller's watch catches up; LabelsChangedPredicate lets the event
\* through when the target changed.
CacheSync ==
    /\ ~cacheFresh
    /\ cache' = Labels(node)
    /\ cacheFresh' = TRUE
    /\ queued' = (queued \/ cache.target # node.target)
    /\ UNCHANGED <<node, noticed, clusterVars, ctlVars, histVars>>

-----------------------------------------------------------------------------
(* Reconcile *)

\* The same for what the plan and the loops left behind.
ResetLocals ==
    /\ newConfig' = NoConfig
    /\ stopList' = {}
    /\ toStop' = {}
    /\ checked' = {}
    /\ confirmed' = {}
    /\ refused' = {}
    /\ clean' = FALSE

Start ==
    /\ pc = "idle"
    /\ queued
    /\ queued' = FALSE
    /\ ReadCache
    /\ pc' = "target"
    /\ UNCHANGED <<node, noticed, clusterVars, cache, cacheFresh, localVars, histVars>>

\* The target pod is read live; one that cannot be read, or is scheduled, ends
\* the reconciliation without an error.
CheckTarget ==
    /\ pc = "target"
    /\ \/ /\ copy.target # NoPod
          /\ phase[copy.target] \in {"pending", "binding"}
          /\ pc' = "taint"
          /\ UNCHANGED <<copy, copyFresh>>
       \/ /\ copy.target # NoPod =>
                phase[copy.target] \notin {"pending", "binding"} \/ GetErrors
          /\ pc' = "idle"
          /\ ForgetCopy
    /\ UNCHANGED <<node, noticed, clusterVars, cache, cacheFresh, queued, localVars, histVars>>

\* The taint is added.  The server refuses a stale copy, and a second taint with
\* the same key and effect; a refusal is logged and Reconcile goes on.
AddTaint ==
    /\ pc = "taint"
    /\ pc' = "plan"
    /\ IF copyFresh /\ ~node.tainted
       THEN Write([node EXCEPT !.tainted = TRUE])
       ELSE UNCHANGED <<node, cacheFresh>>
    /\ leaked' = FALSE
    /\ UNCHANGED <<noticed, clusterVars, cache, queued, copy, copyFresh, localVars, clean, refused>>

\* Faulty variant: only pods all of whose GPUs are affected.
LocatedEntirely(old, new) == {p \in labelled : OnNode(p) /\ gpus[p] \subseteq Reconf(old, new)}

\* Faulty variant: every pod of the node, whatever its GPUs.
LocatedAnywhere(old, new) == {p \in labelled : OnNode(p)}

\* The pods GetPodLocation finds on the GPUs to be reconfigured.
Located(old, new) == {p \in labelled : OnNode(p) /\ gpus[p] \cap Reconf(old, new) # {}}

\* Faulty variant: the removal of the taint is not deferred before the plan.
PlanWithoutDefer ==
    /\ pc = "plan"
    /\ \/ /\ newConfig' \in {c \in Configs : copy.target \in Serves[c]}
          /\ stopList' = Located(copy.config, newConfig')
          /\ toStop' = stopList'
          /\ pc' = "stop"
          /\ UNCHANGED <<queued, checked, confirmed>>
       \/ /\ pc' = "idle"
          /\ queued' = TRUE
          /\ UNCHANGED localVars
    /\ ForgetCopy
    /\ UNCHANGED <<node, noticed, clusterVars, cache, cacheFresh, histVars>>

\* GetPodLocation, extractUsedGPU, getBestConfig and getReconfigGPU, on the
\* configuration of the copy.  No fitting profile: the error requeues the node
\* and the deferred function runs; so it does without one when the pods cannot be
\* listed.
Plan ==
    /\ pc = "plan"
    /\ \/ /\ newConfig' \in {c \in Configs : copy.target \in Serves[c]}
          /\ stopList' = Located(copy.config, newConfig')
          /\ toStop' = stopList'
          /\ clean' = (/\ noticed /\ copy.config = node.config
                       /\ \A p \in Pods : /\ phase[p] # "binding"
                                          /\ OnNode(p) => p \in labelled)
          /\ pc' = "stop"
          /\ UNCHANGED <<queued, checked, confirmed>>
       \/ /\ pc' = "untaintGet"
          /\ queued' \in {TRUE} \cup (IF GetErrors THEN {queued} ELSE {})
          /\ UNCHANGED <<localVars, clean>>
    /\ ForgetCopy
    /\ UNCHANGED <<node, noticed, clusterVars, cache, cacheFresh, leaked, refused>>

\* Delete one pod of the list.  An error is logged and the loop goes on: that of a
\* pod that is gone, and that of a pod that stays and is not tried again.
StopPod(p) ==
    /\ pc = "stop"
    /\ p \in toStop
    /\ toStop' = toStop \ {p}
    /\ \/ /\ phase' = [phase EXCEPT ![p] = IF OnNode(p) THEN "terminating" ELSE @]
          /\ refused' = refused
       \/ /\ DeleteErrors
          /\ phase[p] = "running"
          /\ phase' = phase
          /\ refused' = refused \cup {p}
    /\ UNCHANGED <<node, noticed, migState, offered, opConfig, applied, gpus, labelled, cache,
                   cacheFresh, queued, pc, copy, copyFresh, newConfig, stopList, checked,
                   confirmed, leaked, clean>>

StopDone ==
    /\ pc = "stop"
    /\ toStop = {}
    /\ pc' = "wait"
    /\ UNCHANGED <<node, noticed, clusterVars, cache, cacheFresh, queued, copy, copyFresh, localVars, histVars>>

\* One pass over the list: every pod is read, and every error counts as deleted.
CheckDeleted(p) ==
    /\ pc = "wait"
    /\ p \in stopList \ checked
    /\ checked' = checked \cup {p}
    /\ \/ /\ OnNode(p)
          /\ confirmed' = confirmed
       \/ /\ ~OnNode(p) \/ GetErrors
          /\ confirmed' = confirmed \cup {p}
    /\ UNCHANGED <<node, noticed, clusterVars, cache, cacheFresh, queued, pc, copy, copyFresh,
                   newConfig, stopList, toStop, histVars>>

\* Faulty variant: one pass, whatever it finds.
EndPassOnce ==
    /\ pc = "wait"
    /\ checked = stopList
    /\ checked' = {}
    /\ confirmed' = {}
    /\ pc' = "reporter"
    /\ UNCHANGED <<node, noticed, clusterVars, cache, cacheFresh, queued, copy, copyFresh,
                   newConfig, stopList, toStop, histVars>>

\* The end of a pass: all deleted, or once more from the start.
EndPass ==
    /\ pc = "wait"
    /\ checked = stopList
    /\ checked' = {}
    /\ confirmed' = {}
    /\ pc' = IF confirmed = stopList THEN "reporter" ELSE "wait"
    /\ UNCHANGED <<node, noticed, clusterVars, cache, cacheFresh, queued, copy, copyFresh,
                   newConfig, stopList, toStop, histVars>>

\* stopGPUReporter, whose failures are logged; see Report.
StopReporter ==
    /\ pc = "reporter"
    /\ pc' = "getNode"
    /\ UNCHANGED <<node, noticed, clusterVars, cache, cacheFresh, queued, copy, copyFresh, localVars, histVars>>

GetNode ==
    /\ pc = "getNode"
    /\ pc' = "setLabel"
    /\ ReadToWrite
    /\ UNCHANGED <<node, noticed, clusterVars, cache, cacheFresh, queued, localVars, histVars>>

\* The label for the MIG manager.  A refused Update is fatal: the process exits
\* and no deferred function runs.
SetLabel ==
    /\ pc = "setLabel"
    /\ IF copyFresh
       THEN /\ Write([node EXCEPT !.config = newConfig])
            /\ pc' = "poll"
            /\ leaked' = leaked
       ELSE /\ pc' = "down"
            /\ leaked' = node.tainted
            /\ UNCHANGED <<node, cacheFresh>>
    /\ ForgetCopy
    /\ ResetLocals
    /\ UNCHANGED <<noticed, clusterVars, cache, queued>>

\* Faulty variant: only success ends the loop.
PollForSuccess ==
    /\ pc = "poll"
    /\ migState = "success"
    /\ pc' = "untaintGet"
    /\ UNCHANGED <<node, noticed, clusterVars, cache, cacheFresh, queued, copy, copyFresh, localVars, histVars>>

\* The loop ends at the first live read of the node whose state is not pending; a
\* read that fails yields an empty node, whose state is not pending either.
Poll ==
    /\ pc = "poll"
    /\ migState # "pending" \/ GetErrors
    /\ pc' = "untaintGet"
    /\ UNCHANGED <<node, noticed, clusterVars, cache, cacheFresh, queued, copy, copyFresh, localVars, histVars>>

\* The deferred function: the node is read through the cache ...
UntaintGet ==
    /\ pc = "untaintGet"
    /\ pc' = "untaint"
    /\ ReadToWrite
    /\ UNCHANGED <<node, noticed, clusterVars, cache, cacheFresh, queued, localVars, histVars>>

\* ... and written back without the taint; a refusal is logged.
Untaint ==
    /\ pc = "untaint"
    /\ pc' = "idle"
    /\ IF copyFresh
       THEN /\ Write([node EXCEPT !.tainted = FALSE])
            /\ noticed' = FALSE
            /\ leaked' = FALSE
       ELSE /\ leaked' = node.tainted
            /\ UNCHANGED <<node, noticed, cacheFresh>>
    /\ ForgetCopy
    /\ ResetLocals
    /\ UNCHANGED <<clusterVars, cache, queued>>

Reconcile ==
    \/ Start \/ CheckTarget \/ AddTaint \/ Plan
    \/ (\E p \in Pods : StopPod(p)) \/ StopDone
    \/ (\E p \in Pods : CheckDeleted(p)) \/ EndPass
    \/ StopReporter \/ GetNode \/ SetLabel \/ Poll \/ UntaintGet \/ Untaint

\* The process dies.
Crash ==
    /\ CanCrash
    /\ pc # "down"
    /\ pc' = "down"
    /\ leaked' = node.tainted
    /\ ForgetCopy
    /\ ResetLocals
    /\ UNCHANGED <<node, noticed, clusterVars, cache, cacheFresh, queued>>

\* It is started again: the cache is filled and a Create event queues the node.
Restart ==
    /\ pc = "down"
    /\ pc' = "idle"
    /\ cache' = Labels(node)
    /\ cacheFresh' = TRUE
    /\ queued' = TRUE
    /\ UNCHANGED <<node, noticed, clusterVars, copy, copyFresh, localVars, histVars>>

Next ==
    \/ \E p \in Pods : \/ RequestReconfig(p) \/ Assume(p) \/ Bind(p) \/ Report(p)
                      \/ PodGone(p) \/ UserDelete(p)
    \/ SchedulerNotices \/ OperatorStart \/ OperatorFinish \/ Heartbeat
    \/ CacheSync
    \/ Reconcile
    \/ Crash \/ Restart

Spec == Init /\ [][Next]_vars

\* The goroutine of Reconcile runs when it can, the kubelet finishes deletions, and the
\* MIG manager ends what it began.  Nothing else need happen: the cache may stay stale,
\* the scheduler need not notice a taint, and a Delete may always fail.
Fairness ==
    /\ WF_vars(Reconcile)
    /\ WF_vars(OperatorFinish)
    /\ WF_vars(\E p \in Pods : PodGone(p))

FairSpec == Spec /\ Fairness

-----------------------------------------------------------------------------
(* Properties *)

Busy == {"plan", "stop", "wait", "reporter", "getNode", "setLabel", "poll", "untaintGet", "untaint"}

\* The node object and its two copies.
ObjectsTyped ==
    /\ node \in NodeObject /\ noticed \in BOOLEAN
    /\ cache \in LabelPair /\ cacheFresh \in BOOLEAN
    /\ copy \in LabelPair /\ copyFresh \in BOOLEAN

\* The pods, the GPUs and the programs next to the controller; only a pod on the
\* node has a label.
ClusterTyped ==
    /\ migState \in {"success", "failed", "pending"}
    /\ opConfig \in Configs /\ applied \in Configs /\ offered \subseteq Configs
    /\ phase \in [Pods -> {"pending", "binding", "running", "terminating", "gone"}]
    /\ gpus \in [Pods -> SUBSET GPUs]
    /\ labelled \subseteq {p \in Pods : OnNode(p)}

\* Reconcile has a configuration by the time it stops pods for it, and goes
\* through its list in order.
LocalsTyped ==
    /\ queued \in BOOLEAN
    /\ pc \in {"idle", "target", "taint", "down"} \cup Busy
    /\ newConfig \in Configs \cup {NoConfig}
    /\ (pc \in {"stop", "wait", "reporter", "getNode", "setLabel"}) => newConfig \in Configs
    /\ stopList \subseteq Pods
    /\ toStop \subseteq stopList
    /\ checked \subseteq stopList /\ confirmed \subseteq checked
    /\ pc # "wait" => checked = {}

HistoryTyped ==
    /\ leaked \in BOOLEAN /\ clean \in BOOLEAN
    /\ refused \subseteq Pods

TypeOK == ObjectsTyped /\ ClusterTyped /\ LocalsTyped /\ HistoryTyped

\* The node carries the taint only while a reconciliation is under way, unless the last
\* one ended with the removal refused, or died: every other way out of Reconcile, a
\* profile that is not found among them, takes the taint away, that of an earlier
\* reconciliation included.
TaintOnlyWhileBusy == node.tainted => pc \in Busy \/ leaked

\* When the new label is written, no pod sits on a GPU that will be repartitioned,
\* if the plan was made under an accepted taint that the scheduler had noticed, with
\* no pod on its way to the node and with every pod of the node labelled by the
\* reporter.  Reconcile waits for none of the three.
CleanPlanFreesGPUs ==
    pc = "setLabel" /\ clean =>
        \A p \in Pods : OnNode(p) => gpus[p] \cap Reconf(node.config, newConfig) = {}

\* "make sure the pods are successfully deleted": past the wait loop no pod of
\* the list is left.
StopListGone ==
    pc \in {"reporter", "getNode", "setLabel"} => \A p \in stopList : ~OnNode(p)

\* What makes the safety properties inductive.  The scheduler notices a taint that is
\* there, and from a clean plan to the label it has noticed it.
BeforeLabel == {"stop", "wait", "reporter", "getNode", "setLabel"}
UnderTaint ==
    /\ noticed => node.tainted
    /\ pc \in BeforeLabel /\ clean => noticed

\* A clean plan has every pod on an affected GPU in its list, and no pod comes.
PlanComplete ==
    pc \in BeforeLabel /\ clean =>
        \A p \in Pods : /\ phase[p] # "binding"
                        /\ OnNode(p) /\ gpus[p] \cap Reconf(node.config, newConfig) # {}
                              => p \in stopList

\* The progress of stopPods through its list.
StopProgress ==
    /\ pc \in {"stop", "wait"} => \A p \in stopList : phase[p] \in {"running", "terminating", "gone"}
    /\ pc \in {"stop", "wait"} => \A p \in stopList \ toStop : phase[p] = "running" => p \in refused
    /\ pc = "wait" /\ ~GetErrors => \A p \in confirmed : phase[p] = "gone"
    /\ pc \in {"reporter", "getNode", "setLabel"} /\ ~GetErrors =>
          \A p \in stopList : phase[p] = "gone"

IInv ==
    /\ TypeOK
    /\ TaintOnlyWhileBusy
    /\ UnderTaint
    /\ PlanComplete
    /\ StopProgress

\* What a reconciliation promises to the pods of the node: see NodePromise.  The node
\* is closed when the scheduler has noticed the taint, not when it is written.  A plan
\* is under way from stopPods to the label, and counts when it was made on the closed
\* node with every pod of the node labelled.
UnderWay == clean /\ pc \in BeforeLabel
Promise == INSTANCE NodePromise WITH
    config <- node.config,
    closed <- noticed,
    coming <- {p \in Pods : phase[p] = "binding"},
    holds <- [p \in Pods |-> IF OnNode(p) THEN gpus[p] ELSE {}],
    plan <- IF UnderWay THEN newConfig ELSE NoConfig,
    doomed <- IF UnderWay THEN stopList ELSE {}

PromiseSpec == Promise!Spec

\* The pod the wait loop polls for, when its Delete was refused: nobody deletes it again.
HeldByRefusal == pc = "wait" /\ \E p \in refused : phase[p] = "running"

\* Reconcile returns: pods that terminate, a MIG manager that answers with success or
\* failure, conflicts and repeated requests never hold the only worker for ever.  Only
\* a pod whose Delete failed does, until it stops by other means.
ReconcileEnds == []<>(pc \in {"idle", "down"} \/ HeldByRefusal)
=============================================================================
