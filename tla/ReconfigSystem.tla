--------------------------- MODULE ReconfigSystem ---------------------------
(***************************************************************************)
(* The programs around the API server together: the scheduler plugin       *)
(* (Scheduler, as it is), the pod controller and the map it shares with    *)
(* stopPods (AffinityPromise, which PodPreprocess implements), and the     *)
(* node controller as far as the two see it: it serves the node that Permit *)
(* labels and deletes pods that are bound there.                           *)
(*                                                                         *)
(* They meet in the labels of a pod, which the pod controller writes once  *)
(* and Permit may replace, in the label targetPod of a node, and in the    *)
(* pods the one places and the other deletes.  The scheduler reads copies. *)
(***************************************************************************)
EXTENDS Sequences, Scheduler

CONSTANTS
    Templates,
    NoHash,       \* the label of the template is absent
    Hash,         \* Hash[p]: the template p is a replica of, or NoHash
    Home,         \* Home[p]: the node p runs on when the programs start, or NoNode
    MaxStops,     \* bound: pods the node controller stops
    MaxLosses     \* bound: restarts of the controller

ASSUME HashAssumption == Hash \in [Pods -> Templates \cup {NoHash}]
ASSUME HomeAssumption == Home \in [Pods -> Nodes \cup {NoNode}]
\* The kubelets took the pods that run.
ASSUME RoomAssumption ==
    \A n \in Nodes : LET there == {p \in Pods : Home[p] = n}
                     IN  /\ Cardinality(there) <= AllowedPods[n]
                         /\ SumFunctionOnSet(CpuRequest, there) <= Allocatable[n]

VARIABLES
    phase, owed, stopping, stoppedOn, collided,  \* the promise's
    stops, losses,
    \* History variables, read by properties only.
    sentTo,    \* sentTo[p]: the node the pod controller sent p to
    named      \* the pairs of a pod and a node that was labelled with it

promiseVars == <<phase, owed, stopping, stoppedOn, collided>>
schedVars == <<seen, status, target, place, bound, cycle, asked>>
histVars == <<sentTo, named>>
sysVars == <<stops, losses, histVars>>
systemVars == <<promiseVars, label, schedVars, sysVars>>

done == {p \in Pods : label[p].done}
expected == [p \in Pods |-> label[p].expected]

P == INSTANCE AffinityPromise

Running == {p \in Pods : Home[p] # NoNode}

\* The programs start in a cluster where some pods run.
SysInit ==
    /\ label = [p \in Pods |-> [done |-> p \in Running, expected |-> NoNode]]
    /\ seen = label
    /\ \E st \in Statuses : status = [n \in Nodes |-> [i \in GpusOf(n) |-> st]]
    /\ target = [n \in Nodes |-> NoPod]
    /\ place = Home
    /\ bound = Running
    /\ cycle = IdleCycle
    /\ asked = {}
    /\ phase = [p \in Pods |-> IF p \in Running THEN "live" ELSE "unborn"]
    /\ owed = [k \in P!Keys |-> <<>>]
    /\ stopping = {}
    /\ stoppedOn = [k \in P!Keys |-> {}]
    /\ collided = FALSE
    /\ stops = 0
    /\ losses = 0
    /\ sentTo = [p \in Pods |-> NoNode]
    /\ named = {}

-----------------------------------------------------------------------------
(* The scheduler *)

PromiseStays == UNCHANGED <<promiseVars, sysVars>>

\* Pods in the queue of the scheduler exist, and a deleted pod is bound already.
ScheduleOne(p) == phase[p] = "live" /\ PromiseStays /\ Schedule(p)
BindOne(p) == phase[p] = "live" /\ PromiseStays /\ Bind(p)
SyncOne(p) == PromiseStays /\ Sync(p)
PermitNothing == PromiseStays /\ PermitDirect
SchedulerCrash == PromiseStays /\ Crash
ReportGpu(n, i, st) == PromiseStays /\ ReportStatus(n, i, st)

PermitNode ==
    /\ PermitLabelNode
    /\ named' = named \cup {<<target'[n], n>> : n \in {m \in Nodes : target'[m] # NoPod}}
    /\ UNCHANGED <<promiseVars, stops, losses, sentTo>>

PermitPod == PromiseStays /\ PermitPatchPod

-----------------------------------------------------------------------------
(* The pod controller *)

CreatePod(p) == UNCHANGED <<label, schedVars, sysVars>> /\ P!Appear(p)

ReleasePod(p) ==
    /\ label' = [label EXCEPT ![p].done = TRUE]
    /\ P!Release(p)
    /\ UNCHANGED <<schedVars, sysVars>>

SendPodBack(p, n) ==
    /\ label' = [label EXCEPT ![p] = [done |-> TRUE, expected |-> n]]
    /\ P!SendBack(p, n)
    /\ sentTo' = [sentTo EXCEPT ![p] = n]
    /\ UNCHANGED <<schedVars, stops, losses, named>>

ForgetTemplate(k) ==
    /\ UNCHANGED <<label, schedVars, sysVars>>
    /\ P!Forget(k)

LoseMemory ==
    /\ losses < MaxLosses
    /\ losses' = losses + 1
    /\ UNCHANGED <<label, schedVars, stops, histVars>>
    /\ P!Lose

-----------------------------------------------------------------------------
(* The node controller *)

\* A node that is labelled with a target is reconfigured, and pods bound there deleted.  That
\* the target is not scheduled was checked before, and may have changed since.
StopPod(p, n) ==
    /\ stops < MaxStops
    /\ target[n] # NoPod
    /\ p \in bound /\ place[p] = n
    /\ UNCHANGED <<label, schedVars, losses, histVars>>
    /\ stops' = stops + 1
    /\ \E k \in P!Keys : P!Stop(p, n, k)

OweNode(k, n) ==
    /\ UNCHANGED <<label, schedVars, sysVars>>
    /\ P!Owe(k, n)

\* The kubelet lets the pod go, and with it its place.
PodGone(p) ==
    /\ UNCHANGED <<label, seen, status, target, cycle, asked, sysVars>>
    /\ P!Vanish(p)
    /\ place' = [place EXCEPT ![p] = NoNode]
    /\ bound' = bound \ {p}

SysNext ==
    \/ \E p \in Pods : ScheduleOne(p) \/ BindOne(p) \/ SyncOne(p) \/ CreatePod(p) \/ ReleasePod(p) \/ PodGone(p)
    \/ PermitNothing \/ PermitNode \/ PermitPod \/ SchedulerCrash
    \/ \E n \in Nodes : \E i \in GpusOf(n), st \in Statuses : ReportGpu(n, i, st)
    \/ \E p \in Pods, n \in Nodes : SendPodBack(p, n) \/ StopPod(p, n)
    \/ \E k \in P!Keys : ForgetTemplate(k) \/ \E n \in Nodes : OweNode(k, n)
    \/ LoseMemory

SysSpec == SysInit /\ [][SysNext]_systemVars

-----------------------------------------------------------------------------
(* Properties *)

\* A pod with MIG slices that replaces a stopped one runs where the pod controller
\* sent it, which is where a pod of its template was stopped, or on a node that was
\* labelled with it: neither stale copies in the scheduler nor a label that Permit
\* fails to replace, a restart of either program or a collision on the map take it
\* anywhere else.
BackWhereStopped ==
    \A p \in Pods : UsesMig(p) /\ place[p] # NoNode /\ p # cycle.pod /\ sentTo[p] # NoNode =>
        \/ place[p] = sentTo[p] /\ place[p] \in stoppedOn[Hash[p]]
        \/ <<p, place[p]>> \in named

\* A released pod is sent elsewhere by Permit only, to a node that names it: the
\* two programs that write the label do not overwrite each other.
OnlyPermitRedirects ==
    [][\A p \in done : /\ p \in done'
                       /\ expected'[p] # expected[p] =>
                             expected[p] # NoNode /\ target[expected'[p]] = p]_systemVars

\* What makes both inductive.  A pod that was sent back has been released, to a node where
\* a pod of its template was stopped, and its label still names that node or one that was
\* labelled with the pod; so does the scheduler's copy of it, once it is one of a
\* released pod.  What is owed, or about to be, are nodes where pods were stopped.
NamesItsNode(p, l) == l.expected = sentTo[p] \/ <<p, l.expected>> \in named

SentSound ==
    \A p \in Pods : sentTo[p] # NoNode =>
        /\ label[p].done /\ NamesItsNode(p, label[p])
        /\ sentTo[p] \in stoppedOn[Hash[p]]

OwedSound ==
    /\ DOMAIN owed = P!Keys
    /\ \A k \in P!Keys : owed[k] \in Seq(stoppedOn[k])
    /\ \A k \in P!Keys, n \in Nodes : <<k, n>> \in stopping => n \in stoppedOn[k]

SysCopiesSound ==
    \A p \in Pods : /\ seen[p].done => label[p].done
                    /\ seen[p].done /\ sentTo[p] # NoNode => NamesItsNode(p, seen[p])
                    /\ place[p] # NoNode => label[p].done

\* The pod of a cycle is not bound, is nowhere else and has its verdict; between the
\* calls of Permit the node names the pod.
SysCycleSound ==
    /\ cycle.at = "idle" => cycle.pod = NoPod
    /\ cycle.at # "idle" => /\ cycle.pod \in Pods \ bound /\ cycle.node \in Nodes
                            /\ seen[cycle.pod].done
                            /\ place[cycle.pod] \in {cycle.node, NoNode}
    /\ cycle.at = "permit" /\ UsesMig(cycle.pod) => cycle.node \in cycle.reconfig \cup cycle.direct
    /\ cycle.at = "patch" => target[cycle.node] = cycle.pod /\ <<cycle.pod, cycle.node>> \in named

SysTypeOK ==
    /\ label \in [Pods -> [done : BOOLEAN, expected : Nodes \cup {NoNode}]]
    /\ seen \in [Pods -> [done : BOOLEAN, expected : Nodes \cup {NoNode}]]
    /\ target \in [Nodes -> Pods \cup {NoPod}]
    /\ place \in [Pods -> Nodes \cup {NoNode}]
    /\ bound \subseteq Pods /\ (\A p \in bound : place[p] # NoNode)
    /\ cycle.at \in {"idle", "permit", "patch"}
    /\ stoppedOn \in [P!Keys -> SUBSET Nodes]
    /\ sentTo \in [Pods -> Nodes \cup {NoNode}]
    /\ named \subseteq Pods \X Nodes

SysIInv == SysTypeOK /\ BackWhereStopped /\ SentSound /\ OwedSound /\ SysCopiesSound /\ SysCycleSound
=============================================================================
