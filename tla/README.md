# Verification of KubeComp-MIG

TLA+ models of the programs of this repository that decide where GPU workloads
run, how GPUs are partitioned with MIG, and how inference services are created
and scaled. TLC checks small instances of every model; TLAPS proves, for
all instances, every safety property the runs check and all four refinements. The
models are read from the code under `src/`; paths below are relative to it.

## 1. The system

| Component | Source | State | Operations |
|---|---|---|---|
| Affinity map | `reconfig/kubecomp-mig/internal/controllers/util.go` | a Go map from pod-template hash to a queue of nodes, no lock | `Add`, `GetFirstVal`, `DeleteFirstVal`, `DeleteKey`, `GetAllKeys` |
| Pod controller | `.../controllers/pod_controller.go` | an unbuffered channel, one receiver goroutine | send a new pod, label it `expectedNode`/`preprocess=done`, sweep the map |
| Configuration choice | `.../controllers/config_selector.go` | none | filter and score the profiles of the mig-parted file |
| Node controller | `.../controllers/node_controller.go` | the node object (labels, taint), locals of one `Reconcile` | taint, plan, stop pods, wait, relabel, poll, untaint |
| GPU reporter | `.../reporter/gpu_reporter.go`, `pkg/gpu/client.go` | labels of pods and nodes | label a pod with its GPUs, a node with its free slices |
| Scheduler plugin | `noderesourcesfit/pkg/plugins/noderesources/fit.go` | `CycleState` of one scheduling cycle | `PreFilter`, `Filter`, `Score`, `NormalizeScore`, `Permit` |
| Resource scorers | the other files of that directory | none | score one node |
| Dispatcher | `Dispatcher/*.go` | two bounded channels, a map of forming groups, goroutines | parse, group, create or find a service, post |
| Autoscaler | `Autoscaler/*.go` | a loop, a registry of tiers, gauges | decide, new template, wait, traffic, delete |
| Promsupp | `Promsupp/main.go` | a Service per inference service | point Prometheus at the latest ready revision |
| Inference server | `Inference/server.py` | a queue, a map of answers, a batching thread | batch, answer, time out |
| The rest | `Send`, `Experiments`, `CCgrid_Experiments`, `CustomTGI`, `Prometheus` | - | load generators, data, manifests |

How they interact. Everything goes through the API server. `Permit` labels a
node with `targetPod` when no node has the slices of a pod; the node controller
sees the change, taints the node, chooses a profile, deletes the pods on the
GPUs the profile changes, adds (template, node) to the affinity map for each,
writes `nvidia.com/mig.config`, polls the MIG manager and removes the taint. The
replacements of the deleted pods are created by their ReplicaSets; the pod
controller gives each the node of a stop of its template, and only then does
`PreFilter` let the scheduler see it. The Dispatcher creates Knative services,
whose pods are such pods; the Autoscaler replaces revisions of them by ones on a
larger or smaller slice.

What is hard about it, with the lines, is the list `hazards` of `PROJECT.json`:
a map shared by two goroutines without a lock; a goroutine that sends on the
channel it alone receives from; reads from a cache that is older than the
process's own write; waiting for pods, for an operator, for a revision; state
read at the start of a pass and used at its end; calls of which one fails and
the next is made all the same; restarts that lose what was in memory.

What makes each component correct:

* affinity map and pod controller: an `expectedNode` comes from a stop of the
  same template, each stop is used once and in order, a released pod keeps its
  labels, every pod is released;
* configuration choice and plan: a running pod keeps its slices, the pods stopped
  and the target have room afterwards, nobody is stopped in vain;
* node controller: the taint is not left behind, the pods on a GPU are gone
  before it is repartitioned, a reconciliation returns (what of it holds, and when, is below);
* scheduler: capacity is kept, pods go where they were sent, the ranking respects
  free slices;
* Dispatcher: an accepted request is posted once, by the right service;
* Autoscaler: the traffic always has a revision to go to, a scaling leaves nothing
  behind, a pass ends;
* GPU reporter: a label names the GPUs the pod holds, the node label is the largest
  slice left, a bound pod is labelled;
* Promsupp: a service is scraped at its latest ready revision, and never goes back;
* inference server: a request gets its own answer, a waiting request is somewhere,
  it is answered;
* scheduler, pod controller and node controller together: a pod that replaces a
  stopped one gets back to the node of the stop, unless `Permit` names another.

## 2. Modules

| Module | Models | Used by |
|---|---|---|
| `AffinityLookup` | `KeyToQueue` as a value and its operations | `PodPreprocess` |
| `AffinityPromise` | abstract: which node a released pod is sent to | refined by `PodPreprocess`, part of `ReconfigSystem` |
| `PodPreprocess` | pod controller, `stopPods` as the other user of the map, the watch and the kubelet | `MCPodPreprocess`, `PodPreprocess_proof` |
| `ConfigSelector` | the mig-parted file, `getConfig`, `getReconfigGPU`, `getBestConfig` | `ReconfigPlan` |
| `ReconfigPlan` | what a reconfiguration does to GPUs and pods, as one step | `MCReconfigPlan`, `ReconfigPlan_proof` |
| `NodeReconfig` | `Reconcile` of the node controller, one step per API call | `MCNodeReconfig`, `NodeReconfig_proof` |
| `NodePromise` | abstract: which pods a reconfiguration stops, and under whom it switches the node | refined by `NodeReconfig` |
| `GpuReporter` | the reporter of one node, its informer, the kubelet | `MCGpuReporter`, `GpuReporter_proof` |
| `ResourceScorers` | the three scoring strategies, as operators | `Scheduler` |
| `Scheduler` | a scheduling cycle, `Permit` call by call, overlapping bindings | `MCScheduler`, extended by `ReconfigSystem`, `ReconfigSystem_proof` |
| `ReconfigSystem` | `Scheduler`, `AffinityPromise` and a node controller that stops pods, around the same pods | `MCReconfigSystem`, `ReconfigSystem_proof` |
| `RequestDelivery` | abstract: what the Dispatcher promises about a request | refined by `Dispatcher` |
| `Dispatcher` | handlers, worker, sequential processor, posting goroutines | `MCDispatcher`, `Dispatcher_proof` |
| `InferencePromise` | abstract: in which order and with what the server answers | refined by `InferenceServer` |
| `InferenceServer` | request handlers, batching thread, exceptions, exit | `MCInferenceServer`, `InferenceServer_proof` |
| `Autoscaler` | a pass over one service, Knative, Promsupp | `MCAutoscaler`, `Autoscaler_proof` |
| `Promsupp` | the loop of Promsupp, services that come and go | `MCPromsupp`, `Autoscaler_proof` |

The MC modules give constants their values; the cfg files name them. Definitions
called "Faulty variant" are not part of a model: each is the definition that
follows it with a plausible bug, and `mutants` of `PROJECT.json` says which
property notices it.

### PodPreprocess

`worker`, `prep` and `stopper` are the three goroutines, each with the program
counter and locals that matter. Every access to `lookup` is a step: `Add` is a
read (`AddRead`) and a write (`AddWrite`), `DeleteFirstVal` is `PopRead`,
`PopWrite`, `PopLen`, `PopDelete`, so the outcomes of the data race are the
interleavings. The Go runtime may also end the process on a concurrent map
access: that is `Crash`. The API calls of the handler (`GetPod`, `PatchLabel`,
`UpdateLabels`, the list of the sweep in `SweepKey`) fail when `Faults` allows it. History
variables: `stoppedOn`, `owed` and `raced` (two accesses to one key conflicted).

Worth knowing when reading it: `sweep` also removes an entry when its list call
fails (`pod_controller.go:37`, although line 30 says "remove non-exist
entries"), so an owed node is dropped there, as the code does. A pod without a
template hash that arrives while the map is not empty is put back into the
channel by its only receiver, which blocks for ever (`preprocess_put_back`). The
pods of the reporter's DaemonSet, which `stopGPUReporter` has recreated, are such pods.

`PromiseSpec` is `AffinityPromise!Spec` under the mapping at the end of the module:
the map becomes one queue of owed nodes per template, in which a stop counts from
the write of `Add` on and a node until its pod is labelled. The promise is void
after a collision of the two goroutines on a key (`collided`), except that a label
still names a node of a stop of the template.

### ConfigSelector and ReconfigPlan

`MigConfigs` is the mig-parted file as data: profile name to device
configs. `getBestConfig` returns the set of the profiles the Go loop may end with,
because it visits a map in any order. `ReconfigPlan.Reconcile` is the whole
reconciliation in one step: request, choice, pods to stop, new layout. Finished
pods keep their GPU label, so they are listed and deleted with the others
(`Finish`, `StopPods`). `getReconfigGPU` compares in one direction only: it
looks at the keys of the new layout. That is exact as long as no layout of a GPU
is contained in another one, the assumption of the theorem about `SlicesExist`; the one
about `RoomForAll` needs that a profile names each GPU once (`NamedOnce`), because capacity is
counted per device config. TLC evaluates the assumptions for the file of the run, which
contains the deployed one.

### NodeReconfig

`pc` runs through `Reconcile`; `node` is the object at the API server with its
version abstracted to freshness: `cache` is the informer's copy, `copy` the one
of `Reconcile`, and an Update of a copy that is not fresh is refused. That is
how the code loses the taint: `SetLabel` conflicts when the cached read is older
than the process's own write and ends the process (`log.Fatalf`, line 292); the
deferred removal conflicts right after the MIG manager's write. `leaked` records
that the last reconciliation ended in one of these ways; the property is that there is no other
way. Cache and copy hold the labels only: a fresh copy has the taint the object has.

The scheduler filters on a snapshot that may be older than the node, and no plugin
looks at the taint again. `noticed` says that the snapshot shows the taint, `offered` which
configurations it may show. Until `SchedulerNotices`, which nothing forces, a
pod may still be sent to the node (`Assume`), or ask for a reconfiguration, although
`AddTaint` and even `Plan` are done; it is bound when it likes, and the kubelet
rejects it when its slice is gone. `Reconcile` does not wait for the scheduler. So `clean`
says what a plan needs to be complete: that the scheduler had noticed the taint when
the plan was made, no binding was under way and every pod was labelled. The
code makes sure of none of the three, and of the plans that lack one the model
claims nothing; it has them, with their runs to the label and after.

A `Delete` that fails is logged and not repeated (`node_controller.go:119`), and the loop that
follows polls until the pod is gone (`:128`). `StopPod` has this branch
(`DeleteErrors`), and `refused` the pods it left. A running pod in `refused` may hold the only worker
for ever: `ReconcileEnds` says that this is the one way it happens (`HeldByRefusal`).

`GetErrors` says whether a live Get may fail for a reason other than
absence; the code takes that for a deletion (`node_controller.go:132`), so the
wait loop may then end with pods left, and the runs and the three theorems that
need it assume `~GetErrors`. A StatefulSet that creates a pod of the same name
makes the wait loop go on; names are not reused in the model.

`PromiseSpec` is `NodePromise!Spec` under the mapping at the end of the module. A plan is
under way from `Plan` to `SetLabel` when it is `clean` (`UnderWay`), the node is closed
from the moment the scheduler has noticed the taint, and a pod holds what it was given
until it is gone. The plan stops the pods on the GPUs that change and no other, nobody comes
to the node meanwhile, and the label is written when none of these GPUs is in use. Of a
plan that is not clean `NodePromise` says nothing but that the node may be switched
(`SwitchInTheDark`): a pod may come later, or be on GPUs nobody has labelled yet.

### Scheduler

`label` is the pod at the API server, `seen` the informer's copy, and a cycle
works on the copy it began with. `place` counts assumed and bound pods. The
other plugins of kube-scheduler stay enabled, so any node that passes may be
selected, whatever its score here; therefore `ScheduleUnchecked` picks any. The
score itself is computed as the code does, by `ResourceScorers` from the pods
assumed on the node, with CPU as the one resource; `MCScheduler` checks the
operators with two resources and weights (`ScoresInRange`). The deployed
reporter writes other label names than the ones `fit.go` reads, so the status
labels are written by the environment (`ReportStatus`). A GPU without the label
`max` panics the scheduler (`Panic`). The JSON patch of `PermitPatchPod` replaces the label
`expectedNode` and is refused when the pod has none. The vendored release
(v1.30) has queueing hints off, so those functions are not modelled.

### ResourceScorers

Amounts are integers and the two divisions are the ones of Go: the mean of least and
most allocated cuts off, the one of the ratio strategy rounds. `BrokenLinear` is the
helper of kube-scheduler. A pod without a request is scored with a default
(`NonZeroRequest`), which is why more may be requested than there is.
`BalancedAllocation` is in the same package and is not registered.

### GpuReporter

`worker` is `Reconcile` with its retries, `queue` the work queue behind the filter
of `SetupWithManager` (`Passes`). The informer and the kubelet are two sources that
do not wait for each other: `holds` is what the kubelet lists, with no devices at
first (`KubeletSees`), `cached` and `fresh` are the copy. That is how a label can
become the empty string, which no later event corrects, and why a label is compared
with `holds` only when it names GPUs. The label of a pod needs NVML to answer for every
device and is tried again when it does not (`DevicesFail`); for the label of the node
a device without an answer counts under the empty name, and after a List that failed
nothing counts as used (`RequestMig`). Such failures set `missed`. A label is a set of GPUs and a kind of
slice its first digit, because `isLarger` compares that. List, Get and Update of the node label are one step:
the reporter is its only writer of that label and an Update against the server's version is
refused or not. `WriteStatus` is another writer of the pod, while `Reconcile` is
about to write it, which is when it matters. `updateNodeResourceLabel` and `GetAllMigs` are not called.

### ReconfigSystem

It extends `Scheduler` and has `P == INSTANCE AffinityPromise`, the modules as they
are; each action of the system is one of theirs with what it means for the other:
`SendPodBack` writes the label the scheduler reads, `StopPod` takes a node that
`Permit` labelled and a pod that is bound there, a pod that is gone frees its place.
The actions of `Scheduler` that keep their meaning have names of their own here
(`PermitNothing`, `ReportGpu`).
Since `PodPreprocess` refines `AffinityPromise`, the pod controller is here without
its goroutines. `sentTo` and `named` are history: where a pod was sent to, and which
nodes were labelled with which pod.

### InferenceServer

`worker` is the thread of `process_queue` with its batch and index, `result` the
variable that survives a batch. An exception before the model has answered leaves
`result` of the batch before, whose length decides how many requests get the error
(`skipped` are the others), or unbound, which ends the thread (`ThreadDies`). A
handler may time out at any moment. `PromiseSpec` is `InferencePromise!Spec`, where what the
thread has left of its batch and the queue behind it are one line (`Line`): taking a batch
changes nothing, filing an answer serves the head of the line, and the end of a batch that
failed drops the requests for which the old `result` was too short. `GaugeReturnsToZero`
is about the metric `mean_time_per_token` of this server; the Autoscaler as deployed scales by a
metric of another server (`Autoscaler/configuration.yaml:126`). Two equal random ids are not modelled.

### Promsupp

`RunLoop` is `Run` call by call: list, then per service get, create or update, and the monitor.
A service may be deleted and created again meanwhile; what Promsupp made is
collected by its owner reference, so `prom` and `monitor` remember the UID.

### Dispatcher and RequestDelivery

One handler per request, one worker (`numWorkers = 1`), the sequential
processor, and `senders`, the goroutines that wait for a service and post. Every
`log.Fatalf` is `Die`, which loses all memory. `DeliverySpec` is
`RequestDelivery!Spec` under the refinement mapping in the module: the state of
a request is computed from `taken`, `posts`, `lost` and its handler. `Smallest`
is the estimate of `processor.go`: it uses the capacity of the nodes, not what
is free, and yields the empty name when there is no slice, which the API server
refuses. `Lose` is what every death of the process leaves behind.

A created service need not become ready: its slice is picked by capacity, so its pod may
stay pending, and the Autoscaler lets revisions stay unready too. The goroutine that waits for it has no
time limit (`assigner.go:224`). With groups of two a request may also wait
for a second one for ever. `AcceptedIsPosted` names both (`AwaitsService` for the first):
these are the only ways in which an accepted request stays where it is. A POST returns, with an answer or
without: the time limit of Knative sees to that, not the code.

### Autoscaler

`ProcessService` lists the pods once (sorted by name, and so by revision), then
`RegisterPod`, `FetchPodMetrics`, `DecideScale`, `UpdateTemplate`, `WaitService`,
`UpdateServiceTraffic`, `DeleteRevision` and `ReportScaling` follow the code. The
traffic block is built as the code builds it, entry by entry, including the
indices it runs past (`TrafficPanics`). Only the latest ready revision is
scraped (`Run`, Promsupp): without that `RoutesServe` would not hold.
Of the fetched metrics the model keeps whether some are below or above their bounds;
when they disagree the order of a Go map decides (`TiersDecided`). `DecideScale` of
the code returns up, down or nothing; out and in are dead branches. `clean` records that no call failed or timed out and no listed pod was
of a revision that is gone. The exporter's goroutine sets or deletes a gauge right after it has
received the event (`exporter.go:56`), one event after the other, while the pass goes on:
`gauge` is what it has been told, and a scrape may see it a moment later. A list of one
revision at the update of the traffic, where the code divides by zero (`scaler.go:276`), is
not reached: the update comes after the new revision is ready and before one is deleted, so
only somebody else who deletes revisions could lead there, and the model has nobody who does.

## 3. Runs

| Run | Bounds | Shows |
|---|---|---|
| `preprocess_safety` | 3 pods, 2 templates, 2 nodes, 2 stops, 1 crash, all faults | `LookupFaithful`, refinement of `AffinityPromise` |
| `preprocess_liveness` | 2 pods of a template, 1 without, 1 stop, 1 crash, no faults | `OnlySelfSendStarves` |
| `preprocess_put_back` | the same | violated: a pod put back is never handled |
| `plan` | 2 GPUs, 6 profiles, 4 pods of 3 kinds, one of which needs three slices | `SlicesExist`, `RoomForAll`, `NoNeedlessStop` |
| `node` | 2 pods on one or both of 2 GPUs, 2 profiles that differ on one, a scheduler that notices late or never, conflicts, failing deletions, crashes | refinement of `NodePromise`, `TaintOnlyWhileBusy`, `CleanPlanFreesGPUs`, `StopListGone`, `ReconcileEnds` |
| `reporter` | 2 pods, one there before, 2 GPUs, 3 profiles of 3 kinds, 1 retry, all faults, 1 restart | `LabelNamesGPUs`, `MaxLabelCurrent`, `BoundIsLabelled` |
| `scheduler` | 2 pods, 2 nodes with 2 and 1 GPUs, 3 status labels, 3 strategies, all faults | `NoOvercommit`, `GoesWhereExpected`, `FreeSliceOutranks`, `RedirectedToItsNode` |
| `system` | 1 running pod and 2 replicas to come, 2 nodes of 1 GPU, 1 stop, 1 loss of memory, failing patches | `BackWhereStopped`, `OnlyPermitRedirects` |
| `dispatcher` | 4 requests, 3 models with 2 names, groups of 2, channels of 1, services that need not become ready, all faults, 1 death | `HeldUntilPosted`, `ServedByNamesake`, refinement of `RequestDelivery`, `AcceptedIsPosted` |
| `inference` | 4 requests, one without inputs, batches of 2, both faults, 1 exit | refinement of `InferencePromise`, `OwnAnswer`, `OnePlace`, `PolledIsAnswered`, `GaugeReturnsToZero` |
| `autoscaler` | 2 pods a revision, 3 revisions, 2 layouts of one node, all faults | `RoutesServe`, `CleanPassSettles`, `PassEnds` |
| `promsupp` | 2 services, each created twice with 2 revisions, 1 failure | `SelectorFollows`, `ScrapedInTheEnd` |

The runs `plan`, `reporter`, `scheduler`, `dispatcher`, `autoscaler` and `promsupp` check
the type invariant of their module as well. Those of `PodPreprocess`, `NodeReconfig` and
`InferenceServer` are theorems, for all constants, and no run repeats them.

Why the bounds are enough to be interesting. Two replicas and one foreign pod
reach every collision on a key and every mix-up of templates; two stops make a
queue with an order. In `plan` the pods do not fit on any one profile together, so that
every profile is reached and left. In `node` the two profiles agree on one GPU, so that a pod
may stay, and each serves one pod, so that requests follow each other. In `reporter` one pod
has slices of both GPUs and the other shares one with it.
In `scheduler` the pods do not fit together on either node, for different reasons, and the ratio
strategy has a flat part, so that nodes tie. In `system` one stop has two claimants and
two nodes to go to. Channels of one
are full at once, and the last of four requests waits behind a full group and a half-full one.
Three requests with inputs make a full batch and a shorter one, in either order. Three revisions are two
scalings, the second of a traffic block the first one wrote. A service that is created twice
meets what its predecessor left.

`SYMMETRY` is used in `system` only, on the two replicas that do not run yet, which
nothing distinguishes; both properties of that run are safety properties.

Deadlock is not checked where the system may stop for good: `PodPreprocess` (all
pods released, or the blocked send), `ReconfigPlan` (all pods finished and gone),
`GpuReporter`, `InferenceServer` and `ReconfigSystem` (every pod or request dealt with),
and `Promsupp` (the loop runs on, but its bound of failures is a guard).

### Fairness

* `PodPreprocess`: weak fairness of the goroutines (a call of theirs returns), and
  strong fairness of `Reconcile` per pod, because the work queue hands out every
  pod in it, first come first served. `OnlySelfSendStarves` assumes in its
  statement that `prep` comes back to its receive, which `preprocess_put_back`
  shows may fail.
* `NodeReconfig`: weak fairness of `Reconcile`, of the end of what the MIG manager has
  begun, and of the kubelet's deletions. The watch, the scheduler, restarts and crashes are
  not fair, and requests and writes of others may repeat for ever.
* `Dispatcher`: weak fairness per goroutine; of the two ends of a wait for a service only the one that
  is sure counts, the failed read of a service that is gone. Knative need not make a
  service ready. No fairness of deaths.
* `GpuReporter`: weak fairness of the calls and of the informer, strong fairness of
  `Start` per pod (the work queue) and of `LabelPod`: a write that is tried again
  and again is accepted in the end. The kubelet and the other writers are not fair.
* `InferenceServer`: weak fairness of the thread and of each polling handler.
  Time-outs and exits are not fair.
* `Promsupp`: weak fairness of the loop and of the garbage collector per service.
* `Autoscaler`: weak fairness of the steps of the pass only, the timeout of the
  wait and the panic among them. Revisions need not become ready.

## 4. Proofs

TLAPS checks the theorems of the `_proof` modules, for every value of the
constants that satisfies the named assumptions of the module.

| Theorem | Says |
|---|---|
| `PodPreprocess_proof!TypeCorrect`, `AffinityIsSound`, `LabelsAreStable` | `[]TypeOK`, `[]AffinitySound`, the action property `LabelsStable` |
| `PodPreprocess_proof!LookupIsFaithful`, `KeepsPromise` | `[]LookupFaithful`, and that `PodPreprocess` implements `AffinityPromise` |
| `ReconfigPlan_proof!TypeCorrect`, `RunningPodsKeepTheirSlices` | `[]TypeOK`, `[]SlicesExist` |
| `ReconfigPlan_proof!ReconfigurationMakesRoom`, `StopsOnlyWhenNeeded` | the action properties `RoomForAll` and `NoNeedlessStop` |
| `NodeReconfig_proof!TypeCorrect`, `TaintIsAccountedFor` | `[]TypeOK`, `[]TaintOnlyWhileBusy` |
| `NodeReconfig_proof!WaitLoopWaits`, `CleanPlanWorks` | `[]StopListGone`; `[]CleanPlanFreesGPUs`, of the plans made after the scheduler noticed the taint; both assuming `~GetErrors` |
| `NodeReconfig_proof!PlansStayComplete`, `KeepsPromise` | `[]PlanComplete`; that `NodeReconfig` implements `NodePromise`, assuming `~GetErrors` |
| `GpuReporter_proof!TypeCorrect`, `LabelsNameGPUs` | `[]TypeOK`, `[]LabelNamesGPUs` |
| `GpuReporter_proof!BoundPodsAreNoticed`, `NodeLabelCurrent` | `[]Noticed`; `[]MaxLabelCurrent`, assuming `OneConfigEach` |
| `ReconfigSystem_proof!TypeCorrect`, `PodsGoWhereExpected`, `RedirectsAreNamed` | of `Scheduler`: `[]TypeOK`, `[]GoesWhereExpected`, the action property `RedirectedToItsNode` |
| `ReconfigSystem_proof!NeverOvercommits` | of `Scheduler`: `[]NoOvercommit` |
| `ReconfigSystem_proof!NodeScoreInRange`, `NormalizeKeepsOrder`, `FreeSlicesRankFirst` | the score of a node is between 0 and `MaxNodeScore`; `NormalizeScore` turns no two scores around; `[]FreeSliceOutranks` |
| `ReconfigSystem_proof!RunsWhereStopped`, `LabelsAreNotUndone` | of the composed system: `[]BackWhereStopped`, the action property `OnlyPermitRedirects` |
| `ReconfigSystem_proof!SystemNeverOvercommits`, `SystemGoesWhereExpected` | of the composed system: `[]NoOvercommit`, `[]GoesWhereExpected` |
| `Dispatcher_proof!TypeCorrect`, `HoldsUntilPosted`, `ServesNamesake` | `[]TypeOK`, `[]HeldUntilPosted`, `[]ServedByNamesake` |
| `Dispatcher_proof!HoldsOnce`, `ImplementsDelivery` | `[]HeldOnce`, and that `Dispatcher` implements `RequestDelivery` |
| `InferenceServer_proof!TypeCorrect`, `AnswersAreOwn`, `PollsOnePlace` | `[]TypeOK`, `[]OwnAnswer`, `[]OnePlace` |
| `InferenceServer_proof!KeepsPromise` | that `InferenceServer` implements `InferencePromise` |
| `Autoscaler_proof!TypeCorrect`, `QueriesAreServed`, `CleanPassesSettle` | `[]TypeOK`, `[]RoutesServe`, `[]CleanPassSettles` |
| `Autoscaler_proof!SuppTypeCorrect`, `SelectorsFollow` | of `Promsupp`: `[]SuppTypeOK`, the action property `SelectorFollows` |

Each proof is about one inductive invariant (`IInv`; `SysIInv` and `SuppIInv` of the
models that share a proof module with another one), defined next to the
properties of its model, with one step per action. TLC has checked each `IInv` as an
invariant on the instance of its run.

* `PodPreprocess`: `AffinitySound` alone is not inductive, since a value in the map or in a
  local of a goroutine becomes a label later. `QueuesSound` says that all of
  these come from stops of the same key. `OnePlace` says that a pod on its way
  is in the work queue, at the channel or in the handler, never in two of them,
  and has no label; `LabelsStable` follows. For the refinement, `FaithInv` is
  `LookupFaithful` with `ReadsFresh` (short of a collision, what a goroutine has read of a
  key is what the map still holds) and `LocalsSound` (a pod whose node is being popped
  carries that node, and what `stopPods` works on is a released pod). Under it every
  step is a step of `AffinityPromise` or changes none of the mapped variables.
* `ReconfigPlan`: `LabelTruthful` says that the label describes the layout of
  the GPUs it names, so that a GPU `getReconfigGPU` leaves out keeps its slices;
  the assumption that no layout contains another one turns the one-sided
  comparison into equality. `RoomForAll` counts: the request is what the target and the running
  pods want together, the chosen profile has the capacity, and the slices its device configs
  promise map one to one to slices that exist, because no GPU is named twice. `NoNeedlessStop`
  is that the score of the configuration in force is 0, and no score is smaller.
* `NodeReconfig`: `UnderTaint` (what the scheduler has noticed is there, and from a
  clean plan to its label it has noticed it), `PlanComplete` (a
  clean plan lists every pod on a changed GPU, and nobody comes: not because the taint is
  there, but because the scheduler has seen it) and
  `StopProgress` (a pod of the list that was deleted only moves from running to gone, and
  one that runs after its turn is in `refused`). For the refinement these
  say what the mapping needs: `PlanComplete` that the stop list is the pods `NodePromise` counts,
  and `StopProgress` that none of them is on the node when the label is written. A step of
  a reconciliation whose plan is not clean changes none of the mapped variables before that
  (`Unseen`), and a step of another program leaves plan and list alone (`Untouched`).
* `GpuReporter`: `HoldsSound` says that a pod which had its devices when they were read
  (`Settled`) has them, or is past being bound: the kubelet takes no devices away from a bound
  pod. What is read, written and found on the label is therefore nothing or the pod's GPUs. That
  the label of the node is a kind of the file is an induction over the device configs of a
  profile (`MaximaAreLabels`). `Noticed` says that a bound pod without a label has an event in
  the queue or to come (`News`), or `Reconcile` is at it. `BehindHasNews` rests on it: when the
  label of the node is behind at an idle reporter, there is an event to come that corrects it,
  because devices that came or went without one set `missed`. `UpdateIsRight` is the other half,
  that `getMaxMigRemain` computes `LargestLeft`; it assumes that a profile has at most one device
  config (`OneConfigEach`), as the file of the repository. With two, what the first leaves over
  is kept under the second, and the label may name a slice that no profile has left: TLC finds
  such a run for a profile of `3: 2` on two devices and then `2: 2` on two, beside one of `2: 2, 3: 1`.
* `Scheduler`: `CopiesSound` says that the scheduler's copy of a pod is behind only when
  `Permit` has written the label (a pod in `asked`), so that checking the copy is as good as
  checking the label for every other pod. `CycleSound` ties the cycle under way to its pod and
  node, and says that between the two calls of `Permit` the node names the pod.
  `NeverOvercommits` is about the sum over the pods of a node: it grows by the request of the
  pod that is assumed, which `Filter` has compared with what is left, and shrinks by that of
  the one that is forgotten. `FreeSlicesRankFirst` needs no invariant: the score of each strategy is
  in range, for the third one because its shape is valid (`ShapeAssumption`, what the
  validation of kube-scheduler accepts), so the bonus of `Score` is at least any difference of
  the base scores, and the integer division of `NormalizeScore` is monotone.
* `ReconfigSystem`: `SentSound` (a pod that was sent back has a label that names the node of
  its stop, or one `Permit` labelled with it), `SysCopiesSound` (so has the scheduler's copy), `OwedSound`
  (what is owed was a stop of that template) and `SysCycleSound`, as above. The two programs that
  write the label never undo each other's: the one writes a pod without a label, the other
  one that has it. What the scheduler keeps alone it keeps here: `NoOvercommit`, when
  the pods that run at the start fit (`RoomAssumption`), because nothing but a cycle brings a
  pod to a node, and `GoesWhereExpected` by `CopiesSound` of `Scheduler` and `PatchAsked` (the
  label that `Permit` is about to replace is that of a pod in `asked`). The run `system` does not
  repeat the two; TLC has checked them on its instance.
* `Dispatcher`: `HeldUntilPosted` needs `Lifecycle` (what the handler of a request says about
  it), `GroupsOfOneName` (a group, wherever it is, is of one service name) and `HeldOnce` (the
  channels, groups and goroutines share no request). With `HeldOnce` a post is the first of its
  request, which is what `RequestDelivery` asks of it.
* `InferenceServer`: `FiledRight` says that what is filed is right already, and that
  while answers are filed `result` is that of the batch at hand. `PlacedOnce` adds to `OnePlace`
  that neither the queue nor a batch has a request twice. For the refinement the lemmas say how
  `Line` moves: filing takes its head (`InFront`, `Left`), a new batch moves what is in the queue
  without changing it (`LineOfBatch`, `LineOfQueue`), and `FiledLine` and `LineIsLeft` what remains of
  it after an error that reached fewer requests than the batch has.
* `Autoscaler`: `TrafficSound` says that the block always has one entry, of all of the traffic:
  the other blocks `updateServiceTraffic` builds do not sum up to 100 and are refused, or are not
  built because an index is out of range. `ScaleSound` orders the revisions of a scaling in
  time, and `CleanSound` says what exists at each point of a pass without failures.
* `Promsupp`: `ListSound` says that what is left to do of a list is no newer than its service, no
  older than what earlier lists had written, and one thing per service, so that an Update that
  overwrites whatever is there still moves forward; `SelectorSound` that a selector is not ahead
  of the service that owns it.

The proofs about `Scheduler` are in the module about the system it is part of, which extends
it, and those about `Promsupp` in the one about `Autoscaler`, which takes the metrics from the
pods of the selector.

Induction over data is done by hand where a proof needs it: sums over pods and resources and
the loop over device configs are recursive functions, and what they compute follows from
`NatInSet`, induction with a set of numbers in the place of a predicate, and from lemmas
that such functions exist.

Only model-checked:

* liveness (`OnlySelfSendStarves`, `ReconcileEnds`, `BoundIsLabelled`, `AcceptedIsPosted`,
  `PolledIsAnswered`, `GaugeReturnsToZero`, `PassEnds`, `ScrapedInTheEnd`), which needs
  fairness and ENABLED and is out of the prover's reach.

## 5. Where code and words disagree

With a run: `preprocess_put_back` (`pod_controller.go:89`); see `findings`. Met while
modelling, and kept in the models as the code has it:

* the poll leaves as soon as the state is not pending, also when the MIG manager has
  not begun (`node_controller.go:299`), although it is there to wait for the
  operator (`:296`, `Poll` of `NodeReconfig`);
* the taint keeps pods away only when the scheduler's snapshot has it, for which nobody
  waits (`node_controller.go:217`): a pod that is sent to the node from an older snapshot
  comes after the plan, onto GPUs that are about to be switched (`Assume` of `NodeReconfig`);
* a pod whose `Delete` failed is polled for until it is gone by itself, with the only
  worker (`node_controller.go:120` and `:128`, `StopPod` of `NodeReconfig`);
* a full group waits without a time limit for a service that may never be ready
  (`assigner.go:224`, `AcceptedIsPosted` of `Dispatcher`);
* a node is reconciled when a label changes (`node_controller.go:30`), so a pod that
  asks for the same node again is told to wait and is not taken up (`fit.go:795`,
  `CacheSync` of `NodeReconfig`);
* one requested kind with enough free slices makes a node count as one that needs no
  reconfiguration, whatever else the pod requests (`fit.go:603`, `Direct` of `Scheduler`);
* the sweep drops entries when its list fails (`pod_controller.go:37`, comment :30);
* an error of Get counts as deletion (`node_controller.go:132`, comment :127);
* the score bonus goes to every node that needs no reconfiguration, not to "the
  node that was labeled" (`fit.go:695`, comment :138);
* a request is posted to a service that exists and is not ready
  (`assigner.go:54`, comment :60);
* two MODEL_IDs with one normalised name share a service (`request.go:55`,
  `Dispatcher/README.md:21`); `ServedByNamesake` is what holds;
* the error of `DeleteRevision` is dropped (`scaler.go:244`, `Autoscaler/README.md:81`);
* a stale pod of the list registers the gauge of a deleted revision
  (`autoscaler.go:142`, `Autoscaler/README.md:53`);
* the last node of the list decides which tiers are available
  (`gpuRegistry.go:35`, `Autoscaler/README.md:57`).

## 6. Not modelled

* `BalancedAllocation` and its tests: in the package and not registered, so it never runs.
* The queueing hints of the plugin (`isSchedulableAfterPodChange` and what it calls):
  off in the vendored release.
* `updateNodeResourceLabel` and `GetAllMigs` of the reporter: the call is commented out.
* Scaling out and in: never decided. Several services in the Autoscaler: they share the
  loop only. `labelScaling` is commented out.
* The entry programs (flags, clients, managers): wiring, except for what `Init` takes from them.
* Load generators (`Send`), `Inference/request.py`, the experiments, images, charts and
  manifests: not part of the running system.

## 7. Plan

Done: all modules of section 2, the proofs of section 4; every safety and action property a
run checks, and every refinement, is a theorem as well.

Not done: the composition of `NodePromise` with `ReconfigSystem`, whose node controller stops
any pods that are bound on a labelled node and does not say which.
