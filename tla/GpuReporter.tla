----------------------------- MODULE GpuReporter -----------------------------
(***************************************************************************)
(* The GPU reporter (internal/reporter/gpu_reporter.go), one per node: it  *)
(* labels a pod with the GPUs the kubelet gave it, which is how the node   *)
(* controller finds the pods it has to stop, and the node with the largest *)
(* slice that is left.                                                     *)
(*                                                                         *)
(* It learns of pods through an informer whose filter lets creations,      *)
(* deletions and a change of nodeName pass, and asks the kubelet for the   *)
(* devices.  Neither knows when the other one moves: a device is allocated *)
(* or released without an event.  An object version is a flag: the cached  *)
(* copy of a pod is fresh until the pod is written.                        *)
(*                                                                         *)
(* A kind of slice is the first digit of its name, the part isLarger       *)
(* reads; the names of a file have different first digits, which are also  *)
(* their lexical order.                                                    *)
(***************************************************************************)
EXTENDS Naturals, FiniteSets, FiniteSetsExt, Sequences

CONSTANTS
    Pods,         \* pods that request slices and come to this node
    Running,      \* pods that run before the reporter does
    GPUs,
    Kinds,        \* the kinds of slices of the file
    KindOf,       \* KindOf[p]: the kind of slice p requests
    GivenTo,      \* GivenTo[p]: the GPUs the kubelet gives p slices of
    MigConfigs,   \* profile -> its device configs with MIG enabled: devices (how many), mig
    NoLabel,
    NotListed,    \* the kubelet does not list the pod
    maxRetries,
    Faults,       \* what may fail: "kubelet" (List), "nvml", "update" (a write of pod or node)
    MaxRestarts   \* bound: stops of the reporter

None == 0   \* the name "", of a device that is no known MIG device as well

ASSUME KindsAssumption == Kinds \subseteq (0..9) \ {None}
ASSUME PodsAssumption == IsFiniteSet(Pods) /\ Running \subseteq Pods /\ KindOf \in [Pods -> Kinds]
ASSUME GivenAssumption ==
    /\ IsFiniteSet(GPUs) /\ GivenTo \in [Pods -> (SUBSET GPUs) \ {{}}]
    /\ \A p \in Pods : {NotListed, NoLabel} \cap {{}, GivenTo[p]} = {}
ASSUME FileAssumption ==
    \A c \in DOMAIN MigConfigs :
        /\ MigConfigs[c] \in Seq(Range(MigConfigs[c]))
        /\ \A dc \in Range(MigConfigs[c]) : dc.devices \in Nat /\ \A k \in DOMAIN dc.mig : dc.mig[k] \in Nat
ASSUME BoundsAssumption == maxRetries \in Nat /\ MaxRestarts \in Nat

VARIABLES
    api,       \* api[p]: "unbound", "bound", "finished", "deleting", "gone"
    label,     \* label[p]: the label gpuIDs, as a set; {} is the empty string
    maxLabel,  \* the label max-mig of the node
    holds,     \* holds[p]: the GPUs of the devices the kubelet lists for p
    cached,    \* cached[p]: what Reconcile reads of the copy: "unbound", "bound", "gone"
    fresh,     \* the pods whose copy is the present version
    queue,     \* the work queue
    worker,    \* Reconcile: where it is, its pod, the retries, the pod's GPUs
    restarts,
    \* History variables, read by properties only.
    gaveUp,    \* the pods whose last Reconcile ran out of retries
    missed     \* the last update of the node label failed, or devices have changed since
               \* its List with no event to come

cluster == <<api, label, maxLabel, holds>>
vars == <<cluster, cached, fresh, queue, worker, restarts, gaveUp, missed>>

\* Whether there is a pod, and its nodeName.
Seen(p) == IF api[p] \in {"finished", "deleting"} THEN "bound" ELSE api[p]

Idle == [at |-> "idle", pod |-> NoLabel, tries |-> 0, ids |-> {}]

Init ==
    /\ api = [p \in Pods |-> IF p \in Running THEN "bound" ELSE "unbound"]
    /\ label = [p \in Pods |-> NoLabel]
    /\ maxLabel = None
    /\ holds = [p \in Pods |-> IF p \in Running THEN GivenTo[p] ELSE NotListed]
    /\ cached = api
    /\ fresh = Pods
    /\ queue = Pods
    /\ worker = [Idle EXCEPT !.at = "node"]
    /\ restarts = 0
    /\ gaveUp = {}
    /\ missed = FALSE

-----------------------------------------------------------------------------
(* getMaxMigRemain and the loop over the profiles *)

Nothing == [k \in Kinds \cup {None} |-> 0]

\* A device config overwrites the counts of its kinds and keeps those of the others.
Overwrite(res, dc) == [k \in Kinds |-> IF k \in DOMAIN dc.mig THEN dc.mig[k] * dc.devices ELSE res[k]]

Fits(res, used) == used[None] = 0 /\ \A k \in Kinds : used[k] <= res[k]

Deduct(res, used, ks) == [k \in Kinds |-> IF k \in ks THEN res[k] - used[k] ELSE res[k]]

Largest(res) == Max({None} \cup {k \in Kinds : res[k] > 0})

\* Faulty variant: what is in use is not deducted.
RemainsGross(res, used) ==
    IF Fits(res, used)
    THEN {[max |-> Largest(res), res |-> res]}
    ELSE {[max |-> None, res |-> res]}

\* The outcomes of getMaxMigRemain: the answer and what is left in the map, which
\* the next device config of the profile starts from.  When a kind is short, the
\* kinds the loop met before, in any order, have been deducted all the same.
Remains(res, used) ==
    IF Fits(res, used)
    THEN LET left == Deduct(res, used, Kinds) IN {[max |-> Largest(left), res |-> left]}
    ELSE {[max |-> None, res |-> Deduct(res, used, ks)] : ks \in SUBSET {k \in Kinds : 0 < used[k] /\ used[k] <= res[k]}}

\* after[i]: the maxima a profile may have shown after i device configs.
ProfileMaxima(c, used) ==
    LET after[i \in 0..Len(MigConfigs[c])] ==
          IF i = 0 THEN {[max |-> None, res |-> Nothing]}
          ELSE UNION {{[max |-> Max({s.max, o.max}), res |-> o.res] :
                          o \in Remains(Overwrite(s.res, MigConfigs[c][i]), used)} : s \in after[i - 1]}
    IN {s.max : s \in after[Len(MigConfigs[c])]}

\* isLarger keeps the larger first digit of the profiles, whatever their order.
MaxMig ==
    [used \in [Kinds \cup {None} -> 0..Cardinality(Pods \X GPUs)] |->
        LET maxima == [c \in DOMAIN MigConfigs |-> ProfileMaxima(c, used)]
        IN {m \in UNION Range(maxima) : \A c \in DOMAIN MigConfigs : \E n \in maxima[c] : n <= m}]

-----------------------------------------------------------------------------
(* Pods, the scheduler, the kubelet *)

ReporterUnchanged == UNCHANGED <<cached, queue, worker, restarts, gaveUp>>

WritePod(p, s) == api' = [api EXCEPT ![p] = s] /\ fresh' = fresh \ {p}

\* The devices the kubelet lists: a pod and the GPU.
Given == UNION {{p} \X holds[p] : p \in {q \in Pods : holds[q] # NotListed}}

\* How many devices have which type.
Count(type) == [k \in Kinds \cup {None} |-> Cardinality({d \in DOMAIN type : type[d] = k})]

Used == Count([d \in Given |-> KindOf[d[1]]])

Bind(p) ==
    /\ api[p] = "unbound"
    /\ WritePod(p, "bound")
    /\ UNCHANGED <<label, maxLabel, holds, missed>>
    /\ ReporterUnchanged

\* The kubelet knows the pod and lists it without devices ...
KubeletSees(p) ==
    /\ api[p] = "bound"
    /\ holds[p] = NotListed
    /\ holds' = [holds EXCEPT ![p] = {}]
    /\ UNCHANGED <<api, label, maxLabel, fresh, missed>>
    /\ ReporterUnchanged

\* ... until it is admitted; some profile has room for all that is admitted.
Allocate(p) ==
    /\ api[p] = "bound"
    /\ holds[p] = {}
    /\ holds' = [holds EXCEPT ![p] = GivenTo[p]]
    /\ \E c \in DOMAIN MigConfigs : \E i \in DOMAIN MigConfigs[c] :
          Fits(Overwrite(Nothing, MigConfigs[c][i]), Used')
    /\ missed' = (missed \/ label[p] = {} \/ p \in gaveUp)
    /\ UNCHANGED <<api, label, maxLabel, fresh>>
    /\ ReporterUnchanged

\* The containers end, or somebody deletes the pod: neither is an event that passes.
Finish(p) ==
    /\ \/ api[p] = "bound" /\ holds[p] \notin {NotListed, {}} /\ WritePod(p, "finished")
       \/ api[p] \in {"bound", "finished"} /\ WritePod(p, "deleting")
    /\ UNCHANGED <<label, maxLabel, holds, missed>>
    /\ ReporterUnchanged

Release(p) ==
    /\ api[p] \in {"finished", "deleting", "gone"}
    /\ holds[p] # NotListed
    /\ holds' = [holds EXCEPT ![p] = NotListed]
    /\ missed' = (missed \/ api[p] # "deleting")
    /\ UNCHANGED <<api, label, maxLabel, fresh>>
    /\ ReporterUnchanged

PodGone(p) ==
    /\ api[p] = "deleting"
    /\ WritePod(p, "gone")
    /\ label' = [label EXCEPT ![p] = NoLabel]
    /\ UNCHANGED <<maxLabel, holds, missed>>
    /\ ReporterUnchanged

\* The kubelet writes the status of a pod, Preprocess a label.  That matters to the
\* reporter only when it makes stale the copy that is about to be written.
WriteStatus(p) ==
    /\ worker.at = "label" /\ worker.pod = p
    /\ p \in fresh
    /\ api[p] # "gone"
    /\ fresh' = fresh \ {p}
    /\ UNCHANGED <<cluster, missed>>
    /\ ReporterUnchanged

-----------------------------------------------------------------------------
(* The informer and its filter *)

\* A deletion, or an update that sets nodeName; what happened since the last copy is
\* taken together.  The creations are in the queue from the start.
Passes(p) == cached[p] # Seen(p)

Sync(p) ==
    /\ p \notin fresh
    /\ cached' = [cached EXCEPT ![p] = Seen(p)]
    /\ fresh' = fresh \cup {p}
    /\ queue' = IF Passes(p) THEN queue \cup {p} ELSE queue
    /\ UNCHANGED <<cluster, worker, restarts, gaveUp, missed>>

-----------------------------------------------------------------------------
(* Reconcile *)

\* An event of a pod that requests no slice or runs elsewhere: there are many of them.
StartOther ==
    /\ worker.at = "idle"
    /\ worker' = [Idle EXCEPT !.at = "node"]
    /\ UNCHANGED <<cluster, cached, fresh, queue, restarts, gaveUp, missed>>

\* The first Get; a pod that is not bound ends in the deferred function.
Start(p) ==
    /\ worker.at = "idle"
    /\ p \in queue
    /\ queue' = queue \ {p}
    /\ worker' = [Idle EXCEPT !.pod = p,
                     !.at = IF cached[p] # "bound" THEN "node" ELSE "devices"]
    /\ gaveUp' = gaveUp \ {p}
    /\ UNCHANGED <<cluster, cached, fresh, restarts, missed>>

\* Faulty variant: the devices of any listed pod are taken.
DevicesOfAny ==
    /\ worker.at = "devices"
    /\ \E q \in Pods : /\ holds[q] # NotListed
                          /\ worker' = [worker EXCEPT !.at = "label", !.ids = holds[q]]
    /\ UNCHANGED <<cluster, cached, fresh, queue, restarts, gaveUp, missed>>

\* getGPUIDsHelper: a pod that is listed without devices is no error.
Devices ==
    /\ worker.at = "devices"
    /\ holds[worker.pod] # NotListed
    /\ worker' = [worker EXCEPT !.at = "label", !.ids = holds[worker.pod]]
    /\ UNCHANGED <<cluster, cached, fresh, queue, restarts, gaveUp, missed>>

\* NVML has to be asked for every device, and may fail.
GetMigDeviceGpuIndexFails(p) == "nvml" \in Faults /\ holds[p] # {}

\* Faulty variant: one retry too many.
DevicesFailOnceMore ==
    /\ worker.at = "devices"
    /\ \/ holds[worker.pod] = NotListed
       \/ "kubelet" \in Faults
       \/ GetMigDeviceGpuIndexFails(worker.pod)
    /\ IF worker.tries <= maxRetries
       THEN /\ worker' = [worker EXCEPT !.tries = @ + 1]
            /\ gaveUp' = gaveUp
       ELSE /\ worker' = [worker EXCEPT !.at = "node"]
            /\ gaveUp' = gaveUp \cup {worker.pod}
    /\ UNCHANGED <<cluster, cached, fresh, queue, restarts, missed>>

\* An error is tried again a second later, and given up after maxRetries.
DevicesFail ==
    /\ worker.at = "devices"
    /\ \/ holds[worker.pod] = NotListed
       \/ "kubelet" \in Faults
       \/ GetMigDeviceGpuIndexFails(worker.pod)
    /\ IF worker.tries < maxRetries
       THEN /\ worker' = [worker EXCEPT !.tries = @ + 1]
            /\ gaveUp' = gaveUp
       ELSE /\ worker' = [worker EXCEPT !.at = "node"]
            /\ gaveUp' = gaveUp \cup {worker.pod}
    /\ UNCHANGED <<cluster, cached, fresh, queue, restarts, missed>>

\* The second Get and the Update.  A Get that fails leaves the object of the first
\* one, whose Update is refused like that of any stale copy.
LabelPod ==
    /\ worker.at = "label"
    /\ worker.pod \in fresh
    /\ api[worker.pod] # "gone"
    /\ label' = [label EXCEPT ![worker.pod] = worker.ids]
    /\ fresh' = fresh \ {worker.pod}
    /\ worker' = [worker EXCEPT !.at = "node"]
    /\ UNCHANGED <<api, maxLabel, holds, cached, queue, restarts, gaveUp, missed>>

\* Faulty variant: the error of the Update is logged and not returned.
LabelRefusedDropped ==
    /\ worker.at = "label"
    /\ worker.pod \notin fresh \/ api[worker.pod] = "gone" \/ "update" \in Faults
    /\ worker' = [worker EXCEPT !.at = "node"]
    /\ UNCHANGED <<cluster, cached, fresh, queue, restarts, gaveUp, missed>>

LabelRefused ==
    /\ worker.at = "label"
    /\ worker.pod \notin fresh \/ api[worker.pod] = "gone" \/ "update" \in Faults
    /\ worker' = [worker EXCEPT !.at = "node"]
    /\ queue' = queue \cup {worker.pod}
    /\ UNCHANGED <<cluster, cached, fresh, restarts, gaveUp, missed>>

\* What NVML may answer about a device.
GetMigDeviceType(d) == {KindOf[d[1]]} \cup (IF "nvml" \in Faults THEN {None} ELSE {})

\* getRequestMig: a failing List leaves the map empty, and a device that NVML
\* cannot name counts under the empty name.
RequestMig ==
    {Count(type) : type \in {t \in [Given -> Kinds \cup {None}] : \A d \in Given : t[d] \in GetMigDeviceType(d)}}
    \cup (IF "kubelet" \in Faults THEN {Nothing} ELSE {})

\* The deferred function, updateNodeMaxMigLabel.  The node is read live; a failure of
\* the Get or the Update is printed.  Nobody else writes the label, so a device that
\* moves between the List and the Update might as well move after it.
UpdateNode ==
    /\ worker.at = "node"
    /\ worker' = Idle
    /\ \/ \E used \in RequestMig : maxLabel' \in MaxMig[used] /\ missed' = (used # Used)
       \/ "update" \in Faults /\ maxLabel' = maxLabel /\ missed' = TRUE
    /\ UNCHANGED <<api, label, holds, cached, fresh, queue, restarts, gaveUp>>

Reconcile == Devices \/ DevicesFail \/ LabelPod \/ LabelRefused \/ UpdateNode

\* The node controller deletes the reporter's pod (stopGPUReporter); the DaemonSet
\* starts another one, whose informer lists every pod before the first Reconcile: that of
\* its own pod, which requests no slice.
Restart ==
    /\ restarts < MaxRestarts
    /\ restarts' = restarts + 1
    /\ cached' = [p \in Pods |-> Seen(p)]
    /\ fresh' = Pods
    /\ queue' = {p \in Pods : api[p] # "gone"}
    /\ worker' = [Idle EXCEPT !.at = "node"]
    /\ gaveUp' = {}
    /\ UNCHANGED <<cluster, missed>>

Next ==
    \/ \E p \in Pods :
          \/ Bind(p) \/ KubeletSees(p) \/ Allocate(p) \/ Finish(p)
          \/ Release(p) \/ PodGone(p) \/ WriteStatus(p) \/ Sync(p) \/ Start(p)
    \/ StartOther
    \/ Reconcile
    \/ Restart

Spec == Init /\ [][Next]_vars

\* The informer catches up, the queue hands out every pod, the calls return, and
\* an Update that is sent again and again is accepted in the end.
Fairness ==
    /\ WF_vars(Devices \/ DevicesFail \/ LabelPod \/ LabelRefused)
    /\ WF_worker(worker.at = "node" /\ worker' = Idle)
    /\ SF_vars(LabelPod)
    /\ WF_vars(\E p \in Pods : Sync(p))
    /\ \A p \in Pods : SF_vars(Start(p))

FairSpec == Spec /\ Fairness

-----------------------------------------------------------------------------
(* Properties *)

Workers == [at : {"idle", "devices", "label", "node"}, pod : Pods \cup {NoLabel},
            tries : 0..maxRetries, ids : SUBSET GPUs]

TypeOK ==
    /\ api \in [Pods -> {"unbound", "bound", "finished", "deleting", "gone"}]
    /\ label \in [Pods -> {NoLabel} \cup SUBSET GPUs]
    /\ maxLabel \in Kinds \cup {None}
    /\ holds \in [Pods -> {NotListed} \cup SUBSET GPUs]
    /\ cached \in [Pods -> {"unbound", "bound", "gone"}]
    /\ fresh \subseteq Pods
    /\ queue \subseteq Pods
    /\ worker \in Workers
    /\ restarts \in 0..MaxRestarts
    /\ gaveUp \subseteq Pods
    /\ missed \in BOOLEAN

AtRest == queue = {} /\ worker.at = "idle" /\ fresh = Pods

\* A label that names GPUs names those the pod holds, as long as it holds any:
\* the node controller stops the pods of a GPU by it.
LabelNamesGPUs ==
    \A p \in Pods : label[p] \notin {NoLabel, {}} /\ holds[p] # NotListed => holds[p] = label[p]

\* What makes it inductive: a pod that once had its devices has them until it is past
\* being bound, and never again none.
Settled(p) == holds[p] = GivenTo[p] \/ (holds[p] = NotListed /\ api[p] \notin {"unbound", "bound"})

HoldsSound ==
    /\ \A p \in Pods : holds[p] \in {NotListed, {}, GivenTo[p]}
    /\ \A p \in Pods : label[p] \notin {NoLabel, {}} => label[p] = GivenTo[p] /\ Settled(p)
    /\ worker.at \in {"devices", "label"} => worker.pod \in Pods
    /\ worker.at = "label" /\ worker.ids # {} => worker.ids = GivenTo[worker.pod] /\ Settled(worker.pod)

IInv == TypeOK /\ HoldsSound

\* The largest kind that fits next to what is in use, on some profile.
LargestLeft ==
    Max({None} \cup {k \in Kinds : \E c \in DOMAIN MigConfigs : \E i \in DOMAIN MigConfigs[c] :
            Fits(Overwrite(Nothing, MigConfigs[c][i]), [Used EXCEPT ![k] = @ + 1])})

\* At rest the label of the node is the largest slice left, unless a call of the last
\* update failed, a deletion is under way, or devices changed without an event: of a pod
\* that finished, was deleted before the kubelet let go, was given up, or labelled empty.
MaxLabelCurrent ==
    AtRest /\ ~missed /\ (\A p \in Pods : api[p] # "deleting") => maxLabel = LargestLeft

\* An event of the pod is in the queue, or the informer has not passed it on.
News(p) == p \in queue \/ (p \notin fresh /\ Passes(p))

\* What makes it inductive: a bound pod without a label is not forgotten ...
Noticed ==
    \A p \in Pods :
        /\ api[p] = "unbound" => cached[p] = "unbound"
        /\ cached[p] = "gone" => api[p] = "gone"
        /\ Passes(p) => p \notin fresh
        /\ api[p] = "bound" /\ label[p] = NoLabel /\ p \notin gaveUp
             => News(p) \/ (worker.pod = p /\ worker.at \in {"devices", "label"})

\* ... and a label of the node that is behind has an event to come that corrects it.
BehindHasNews ==
    ~missed /\ worker.at = "idle" /\ maxLabel # LargestLeft
        => \E p \in Pods : api[p] = "deleting" \/ News(p)

\* A pod that is bound gets its label, or is given up after its retries: no conflict,
\* no order of events and no restart of the reporter is another way to go without it.
BoundIsLabelled ==
    \A p \in Pods : (api[p] = "bound") ~> (api[p] # "bound" \/ label[p] # NoLabel \/ p \in gaveUp)
=============================================================================
