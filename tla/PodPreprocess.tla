---------------------------- MODULE PodPreprocess ----------------------------
(***************************************************************************)
(* The pod half of the reconfiguration controller                          *)
(* (internal/controllers/pod_controller.go), with the half of stopPods     *)
(* (node_controller.go) that feeds it.  Three goroutines of one process:   *)
(*                                                                         *)
(*   worker   the pod controller's Reconcile, which sends new pods to Ch;  *)
(*   prep     Preprocess, the only receiver of the unbuffered channel Ch;  *)
(*   stopper  stopPods, run by the node controller's Reconcile.            *)
(*                                                                         *)
(* prep and stopper share NodeAffinityLookup and no lock protects it, so   *)
(* every access to the map is a step of its own: the outcomes of the data  *)
(* race are the interleavings of those steps, and Crash, which is enabled  *)
(* everywhere, stands for the runtime stopping the process on a concurrent *)
(* map access as well as for any other death.                              *)
(***************************************************************************)
EXTENDS AffinityLookup, Integers, FiniteSets

CONSTANTS
    Pods,         \* pod objects that may come to exist (names are not reused)
    Nodes,
    Templates,    \* pod-template hashes
    NoHash,       \* the empty string: the key of pods that carry no hash
    NoNode,       \* no expectedNode label
    NoPod,
    Hash,         \* Hash[p]: the pod-template-hash label of p, or NoHash
    Faults,       \* the API calls that may fail: "get", "patch", "update", "list", "delete"
    MaxStops,     \* bound: pods stopPods turns to
    MaxRestarts   \* bound: crashes of the process

Keys == Templates \cup {NoHash}

ASSUME NamesAssumption == /\ NoHash \notin Templates
                          /\ NoNode \notin Nodes
                          /\ NoPod \notin Pods
ASSUME HashAssumption == Hash \in [Pods -> Keys]
ASSUME BoundsAssumption == MaxStops \in Nat /\ MaxRestarts \in Nat

VARIABLES
    phase,        \* phase[p]: "unborn", "live", "terminating" or "gone"
    done,         \* done[p]: p carries the label preprocess=done
    expected,     \* expected[p]: its expectedNode label
    replicaSets,  \* the templates some ReplicaSet still has
    queue,        \* the work queue of the pod controller
    worker,       \* the pod Reconcile blocks at Ch holding, or NoPod
    prep,         \* program counter and locals of Preprocess
    stopper,      \* program counter and locals of stopPods
    lookup,       \* NodeAffinityLookup
    stops,        \* number of pods stopPods has turned to
    restarts,
    \* History variables, read by properties only.
    stoppedOn,    \* stoppedOn[k]: the nodes a pod with key k was stopped on
    owed,         \* owed[k]: nodes of the stops no replacement was labelled for, oldest first
    raced         \* two accesses to one key of the map conflicted

apiVars == <<phase, done, expected, replicaSets>>
histVars == <<stoppedOn, owed, raced>>
vars == <<apiVars, queue, worker, prep, stopper, lookup, stops, restarts, histVars>>

PrepAt == {"recv", "get", "empty", "patch", "first", "update", "popRead",
           "popWrite", "popLen", "popDelete", "keys", "sweep", "resend"}
StopperAt == {"idle", "delete", "addRead", "addWrite"}

IdlePrep == [at |-> "recv", pod |-> NoPod, seen |-> <<>>, keys |-> {}]
IdleStopper == [at |-> "idle", pod |-> NoPod, key |-> NoHash, node |-> NoNode, seen |-> <<>>]

Init ==
    /\ phase = [p \in Pods |-> "unborn"]
    /\ done = [p \in Pods |-> FALSE]
    /\ expected = [p \in Pods |-> NoNode]
    /\ replicaSets = Templates
    /\ queue = {}
    /\ worker = NoPod
    /\ prep = IdlePrep
    /\ stopper = IdleStopper
    /\ lookup = EmptyLookup
    /\ stops = 0
    /\ restarts = 0
    /\ stoppedOn = [k \in Keys |-> {}]
    /\ owed = [k \in Keys |-> <<>>]
    /\ raced = FALSE

Exists(p) == phase[p] \in {"live", "terminating"}

-----------------------------------------------------------------------------
(* The cluster around the process. *)

\* A pod appears, and the watch delivers its Create event to the controller.
CreatePod(p) ==
    /\ phase[p] = "unborn"
    /\ Hash[p] \in replicaSets \cup {NoHash}
    /\ phase' = [phase EXCEPT ![p] = "live"]
    /\ queue' = queue \cup {p}
    /\ UNCHANGED <<done, expected, replicaSets, worker, prep, stopper, lookup,
                   stops, restarts, histVars>>

\* The kubelet finishes a graceful deletion.
PodGone(p) ==
    /\ phase[p] = "terminating"
    /\ phase' = [phase EXCEPT ![p] = "gone"]
    /\ UNCHANGED <<done, expected, replicaSets, queue, worker, prep, stopper,
                   lookup, stops, restarts, histVars>>

\* A Deployment is rolled over or removed, and its ReplicaSet is collected.
RemoveReplicaSet(t) ==
    /\ t \in replicaSets
    /\ replicaSets' = replicaSets \ {t}
    /\ UNCHANGED <<phase, done, expected, queue, worker, prep, stopper, lookup,
                   stops, restarts, histVars>>

-----------------------------------------------------------------------------
(* The pod controller.  Only Create events pass its predicates. *)

\* Reconcile: a pod that already carries the label is left alone; another one
\* is offered to Ch, where the worker blocks.  A pod that is gone is requeued
\* with an error for ever, which changes nothing.
Reconcile(p) ==
    /\ worker = NoPod
    /\ p \in queue
    /\ Exists(p)
    /\ queue' = queue \ {p}
    /\ worker' = IF done[p] THEN NoPod ELSE p
    /\ UNCHANGED <<apiVars, prep, stopper, lookup, stops, restarts, histVars>>

\* The rendezvous on Ch: it needs both parties, for Ch has no buffer.
Receive ==
    /\ worker # NoPod
    /\ prep.at = "recv"
    /\ prep' = [prep EXCEPT !.at = "get", !.pod = worker]
    /\ worker' = NoPod
    /\ UNCHANGED <<apiVars, queue, stopper, lookup, stops, restarts, histVars>>

-----------------------------------------------------------------------------
(* preprocessHandler *)

PrepLocal == UNCHANGED <<apiVars, queue, worker, stopper, lookup, stops, restarts, histVars>>

\* The live Get of the pod; any error abandons the pod.
GetPod ==
    /\ prep.at = "get"
    /\ \/ /\ Exists(prep.pod)
          /\ prep' = [prep EXCEPT !.at = "empty"]
       \/ /\ ~Exists(prep.pod) \/ "get" \in Faults
          /\ prep' = IdlePrep
    /\ PrepLocal

CheckEmpty ==
    /\ prep.at = "empty"
    /\ prep' = [prep EXCEPT !.at = IF IsEmpty(lookup) THEN "patch" ELSE "first"]
    /\ PrepLocal

\* With no affinity pending the pod is released by a patch; a patch that fails
\* is logged and the pod is forgotten.
PatchLabel ==
    /\ prep.at = "patch"
    /\ prep' = IdlePrep
    /\ \/ /\ Exists(prep.pod)
          /\ done' = [done EXCEPT ![prep.pod] = TRUE]
       \/ /\ ~Exists(prep.pod) \/ "patch" \in Faults
          /\ done' = done
    /\ UNCHANGED <<phase, expected, replicaSets, queue, worker, stopper, lookup,
                   stops, restarts, histVars>>

\* Faulty variant: an entry of whatever template comes first.
FirstValOfAnyKey ==
    /\ prep.at = "first"
    /\ prep' = IF Hash[prep.pod] # NoHash /\ ~IsEmpty(lookup)
               THEN [prep EXCEPT !.at = "update",
                                 !.seen = lookup[CHOOSE k \in DOMAIN lookup : TRUE]]
               ELSE [prep EXCEPT !.at = "keys"]
    /\ PrepLocal

\* Faulty variant: a pod without a template is dropped on the way to the sweep.
FirstValDropsPlainPod ==
    /\ prep.at = "first"
    /\ prep' = IF Hash[prep.pod] = NoHash THEN IdlePrep
               ELSE IF HasFirstVal(lookup, Hash[prep.pod])
               THEN [prep EXCEPT !.at = "update", !.seen = ValuesOf(lookup, Hash[prep.pod])]
               ELSE [prep EXCEPT !.at = "keys"]
    /\ PrepLocal

\* GetFirstVal for the pod's template; without a template or an entry, on to
\* the sweep.
FirstVal ==
    /\ prep.at = "first"
    /\ prep' = IF Hash[prep.pod] # NoHash /\ HasFirstVal(lookup, Hash[prep.pod])
               THEN [prep EXCEPT !.at = "update", !.seen = ValuesOf(lookup, Hash[prep.pod])]
               ELSE [prep EXCEPT !.at = "keys"]
    /\ PrepLocal

\* Faulty variant: the entry is popped also when the Update failed.
UpdateLabelsPopsAnyway ==
    /\ prep.at = "update"
    /\ prep' = [prep EXCEPT !.at = "popRead"]
    /\ \/ /\ Exists(prep.pod)
          /\ done' = [done EXCEPT ![prep.pod] = TRUE]
          /\ expected' = [expected EXCEPT ![prep.pod] = Head(prep.seen)]
          /\ owed' = [owed EXCEPT ![Hash[prep.pod]] = IF @ = <<>> THEN @ ELSE Tail(@)]
       \/ /\ ~Exists(prep.pod) \/ "update" \in Faults
          /\ UNCHANGED <<done, expected, owed>>
    /\ UNCHANGED <<phase, replicaSets, queue, worker, stopper, lookup, stops,
                   restarts, stoppedOn, raced>>

\* The Update that releases the pod with its expected node.
UpdateLabels ==
    /\ prep.at = "update"
    /\ \/ /\ Exists(prep.pod)
          /\ done' = [done EXCEPT ![prep.pod] = TRUE]
          /\ expected' = [expected EXCEPT ![prep.pod] = Head(prep.seen)]
          /\ owed' = [owed EXCEPT ![Hash[prep.pod]] = IF @ = <<>> THEN @ ELSE Tail(@)]
          /\ prep' = [prep EXCEPT !.at = "popRead"]
       \/ /\ ~Exists(prep.pod) \/ "update" \in Faults
          /\ prep' = [prep EXCEPT !.at = "keys", !.seen = <<>>]
          /\ UNCHANGED <<done, expected, owed>>
    /\ UNCHANGED <<phase, replicaSets, queue, worker, stopper, lookup, stops,
                   restarts, stoppedOn, raced>>

\* stopPods sits between its read and its write of this key.
StopperConflict(key) == stopper.at = "addWrite" /\ stopper.key = key

PopRead ==
    /\ prep.at = "popRead"
    /\ prep' = IF HasFirstVal(lookup, Hash[prep.pod])
               THEN [prep EXCEPT !.at = "popWrite", !.seen = ValuesOf(lookup, Hash[prep.pod])]
               ELSE IdlePrep
    /\ PrepLocal

PopWrite ==
    /\ prep.at = "popWrite"
    /\ lookup' = Put(lookup, Hash[prep.pod], Tail(prep.seen))
    /\ prep' = [prep EXCEPT !.at = "popLen"]
    /\ raced' = (raced \/ StopperConflict(Hash[prep.pod]))
    /\ UNCHANGED <<apiVars, queue, worker, stopper, stops, restarts, stoppedOn, owed>>

PopLen ==
    /\ prep.at = "popLen"
    /\ prep' = IF HasFirstVal(lookup, Hash[prep.pod])
               THEN IdlePrep
               ELSE [prep EXCEPT !.at = "popDelete"]
    /\ PrepLocal

PopDelete ==
    /\ prep.at = "popDelete"
    /\ lookup' = DeleteKey(lookup, Hash[prep.pod])
    /\ prep' = IdlePrep
    /\ raced' = (raced \/ StopperConflict(Hash[prep.pod]))
    /\ UNCHANGED <<apiVars, queue, worker, stopper, stops, restarts, stoppedOn, owed>>

\* updateNodeAffinityLookup takes the keys, then lists the ReplicaSets of each.
SweepKeys ==
    /\ prep.at = "keys"
    /\ prep' = [prep EXCEPT !.at = "sweep", !.keys = DOMAIN lookup, !.seen = <<>>]
    /\ PrepLocal

SweepKey(k) ==
    /\ prep.at = "sweep"
    /\ k \in prep.keys
    /\ prep' = [prep EXCEPT !.keys = @ \ {k}]
    /\ \/ /\ k \in replicaSets
          /\ UNCHANGED <<lookup, owed, raced>>
       \/ /\ k \notin replicaSets \/ "list" \in Faults
          /\ lookup' = DeleteKey(lookup, k)
          /\ owed' = [owed EXCEPT ![k] = <<>>]
          /\ raced' = (raced \/ StopperConflict(k))
    /\ UNCHANGED <<apiVars, queue, worker, stopper, stops, restarts, stoppedOn>>

\* The sweep is over and the handler sends the pod to Ch again.  Preprocess is
\* the only receiver of Ch and is the sender now: no step leaves "resend".
SweepEnd ==
    /\ prep.at = "sweep"
    /\ prep.keys = {}
    /\ prep' = [prep EXCEPT !.at = "resend"]
    /\ PrepLocal

Preprocess ==
    \/ GetPod \/ CheckEmpty \/ PatchLabel \/ FirstVal \/ UpdateLabels
    \/ PopRead \/ PopWrite \/ PopLen \/ PopDelete
    \/ SweepKeys \/ (\E k \in Keys : SweepKey(k)) \/ SweepEnd

-----------------------------------------------------------------------------
(* stopPods, for one pod of its list.  The pods it stops are scheduled, so   *)
(* they were preprocessed.  One that occupies two GPUs is in the list twice, *)
(* and is deleted again while it terminates.                                 *)

StopperLocal == UNCHANGED <<apiVars, queue, worker, prep, lookup, restarts>>

StopGet(p, n) ==
    /\ stopper.at = "idle"
    /\ stops < MaxStops
    /\ Exists(p)
    /\ done[p]
    /\ \E k \in {Hash[p]} \cup (IF "get" \in Faults THEN {NoHash} ELSE {}) :
          stopper' = [at |-> "delete", pod |-> p, key |-> k, node |-> n, seen |-> <<>>]
    /\ stops' = stops + 1
    /\ UNCHANGED histVars
    /\ StopperLocal

StopDelete ==
    /\ stopper.at = "delete"
    /\ \/ /\ Exists(stopper.pod)
          /\ phase' = [phase EXCEPT ![stopper.pod] = "terminating"]
          /\ stopper' = [stopper EXCEPT !.at = "addRead"]
          /\ stoppedOn' = [stoppedOn EXCEPT ![stopper.key] = @ \cup {stopper.node}]
       \/ /\ ~Exists(stopper.pod) \/ "delete" \in Faults
          /\ stopper' = IdleStopper
          /\ UNCHANGED <<phase, stoppedOn>>
    /\ UNCHANGED <<done, expected, replicaSets, queue, worker, prep, lookup,
                   stops, restarts, owed, raced>>

AddRead ==
    /\ stopper.at = "addRead"
    /\ stopper' = [stopper EXCEPT !.at = "addWrite", !.seen = ValuesOf(lookup, stopper.key)]
    /\ UNCHANGED <<stops, histVars>>
    /\ StopperLocal

\* prep sits between an access to this key and the write that depends on it.
PrepConflict(key) ==
    /\ prep.at \in {"popWrite", "popLen", "popDelete"}
    /\ Hash[prep.pod] = key

AddWrite ==
    /\ stopper.at = "addWrite"
    /\ lookup' = Put(lookup, stopper.key, Append(stopper.seen, stopper.node))
    /\ owed' = [owed EXCEPT ![stopper.key] = Append(@, stopper.node)]
    /\ raced' = (raced \/ PrepConflict(stopper.key))
    /\ stopper' = IdleStopper
    /\ UNCHANGED <<apiVars, queue, worker, prep, stops, restarts, stoppedOn>>

StopPods == StopDelete \/ AddRead \/ AddWrite

-----------------------------------------------------------------------------
\* The process dies and is started again: its memory is lost, and the watch
\* delivers a Create event for every pod that exists.
Crash ==
    /\ restarts < MaxRestarts
    /\ restarts' = restarts + 1
    /\ queue' = {p \in Pods : Exists(p)}
    /\ worker' = NoPod
    /\ prep' = IdlePrep
    /\ stopper' = IdleStopper
    /\ lookup' = EmptyLookup
    /\ owed' = [k \in Keys |-> <<>>]
    /\ raced' = FALSE
    /\ UNCHANGED <<apiVars, stops, stoppedOn>>

Next ==
    \/ \E p \in Pods : CreatePod(p) \/ PodGone(p) \/ Reconcile(p)
    \/ \E t \in Templates : RemoveReplicaSet(t)
    \/ Receive
    \/ Preprocess
    \/ \E p \in Pods, n \in Nodes : StopGet(p, n)
    \/ StopPods
    \/ Crash

Spec == Init /\ [][Next]_vars

\* The Go scheduler runs every goroutine that can run, and the controller's
\* queue hands out every pod in it.
Fairness ==
    /\ WF_vars(Preprocess)
    /\ WF_vars(StopPods)
    /\ WF_vars(Receive)
    /\ \A p \in Pods : SF_vars(Reconcile(p))

FairSpec == Spec /\ Fairness

-----------------------------------------------------------------------------
(* Properties *)

TypeOK ==
    /\ phase \in [Pods -> {"unborn", "live", "terminating", "gone"}]
    /\ done \in [Pods -> BOOLEAN]
    /\ expected \in [Pods -> Nodes \cup {NoNode}]
    /\ replicaSets \subseteq Templates
    /\ queue \subseteq Pods
    /\ worker \in Pods \cup {NoPod}
    /\ prep \in [at : PrepAt, pod : Pods \cup {NoPod}, seen : Seq(Nodes), keys : SUBSET Keys]
    /\ prep.at # "recv" => prep.pod \in Pods
    /\ stopper \in [at : StopperAt, pod : Pods \cup {NoPod}, key : Keys,
                     node : Nodes \cup {NoNode}, seen : Seq(Nodes)]
    /\ stopper.at # "idle" => stopper.pod \in Pods /\ stopper.node \in Nodes
    /\ DOMAIN lookup \subseteq Keys
    /\ \A k \in DOMAIN lookup : lookup[k] \in Seq(Nodes)
    /\ stops \in 0..MaxStops
    /\ restarts \in 0..MaxRestarts
    /\ stoppedOn \in [Keys -> SUBSET Nodes]
    /\ owed \in [Keys -> Seq(Nodes)]
    /\ raced \in BOOLEAN

\* A pod is sent to a node only if a pod of the same template was stopped on
\* that node: no race, failed call or restart makes preprocessHandler invent
\* an expectedNode or take one from another template.
AffinitySound ==
    \A p \in Pods : expected[p] # NoNode => expected[p] \in stoppedOn[Hash[p]]

\* The entry whose pod is labelled and that DeleteFirstVal has yet to remove.
Unpopped(k) ==
    IF prep.at \in {"popRead", "popWrite"} /\ Hash[prep.pod] = k
    THEN <<expected[prep.pod]>>
    ELSE <<>>

\* As long as stopPods and Preprocess do not collide on a key, the map holds
\* exactly the stops no replacement was labelled for, in the order of the
\* stops: no entry is lost, given out twice, or overtaken.
LookupFaithful ==
    ~raced => \A k \in Keys : ValuesOf(lookup, k) = Unpopped(k) \o owed[k]

\* Once released a pod keeps its labels: it is never preprocessed again, also
\* not by a restarted controller that finds it in its first listing, so no
\* second entry is used up for it and its expectedNode never moves.
LabelsStable ==
    [][\A p \in Pods : done[p] => done'[p] /\ expected'[p] = expected[p]]_vars

\* The only thing besides failing API calls that keeps a pod from being
\* released is the handler's send to its own channel: if Preprocess comes back
\* to its receive again and again, every live pod is labelled or deleted.
OnlySelfSendStarves ==
    []<>(prep.at = "recv") =>
        \A p \in Pods : (phase[p] = "live") ~> (done[p] \/ phase[p] # "live")

\* What stopPods and Preprocess promise together, whatever their interleaving, failing
\* calls and restarts do: see AffinityPromise.  A stop is under way from the deletion of
\* the pod to the assignment to the map.
Promise == INSTANCE AffinityPromise WITH
    done <- {p \in Pods : done[p]},
    stopping <- IF stopper.at \in {"addRead", "addWrite"} THEN {<<stopper.key, stopper.node>>} ELSE {},
    collided <- raced

PromiseSpec == Promise!Spec

\* What makes the two safety properties inductive.  Every queue of nodes, in
\* the map or read from it, holds only nodes where its template was stopped.
QueuesSound ==
    /\ \A k \in DOMAIN lookup : lookup[k] \in Seq(stoppedOn[k])
    /\ prep.at \in {"update", "popWrite"} =>
          prep.seen \in Seq(stoppedOn[Hash[prep.pod]]) /\ prep.seen # <<>>
    /\ stopper.at \in {"addRead", "addWrite"} => stopper.node \in stoppedOn[stopper.key]
    /\ stopper.at = "addWrite" => stopper.seen \in Seq(stoppedOn[stopper.key])

\* A pod on its way to the label is at one place only, and has no label yet.
OnePlace ==
    /\ \A p \in Pods : phase[p] = "unborn" => p \notin queue /\ p # worker /\ p # prep.pod
    /\ worker # NoPod => worker \notin queue /\ worker # prep.pod /\ ~done[worker]
    /\ prep.at # "recv" => prep.pod \notin queue
    /\ prep.at = "recv" => prep.pod = NoPod
    /\ prep.at \in {"get", "empty", "patch", "first", "update"} => ~done[prep.pod]

IInv == TypeOK /\ AffinitySound /\ QueuesSound /\ OnePlace

\* What makes LookupFaithful inductive: what prep and stopper have read and will write
\* back is still there, or they have collided.
ReadsFresh ==
    ~raced =>
        /\ prep.at = "update" =>
              /\ HasFirstVal(lookup, Hash[prep.pod])
              /\ Head(prep.seen) = Head(ValuesOf(lookup, Hash[prep.pod]))
        /\ prep.at = "popWrite" => prep.seen = ValuesOf(lookup, Hash[prep.pod])
        /\ prep.at = "popDelete" => ~HasFirstVal(lookup, Hash[prep.pod])
        /\ stopper.at = "addWrite" => stopper.seen = ValuesOf(lookup, stopper.key)

\* Between the Update and the pop the pod carries the node it was given, and what
\* stopPods works on is a released pod.
LocalsSound ==
    /\ prep.at \in {"popRead", "popWrite"} => expected[prep.pod] \in Nodes
    /\ stopper.at # "idle" => done[stopper.pod] /\ stopper.key \in {Hash[stopper.pod], NoHash}

FaithInv == LookupFaithful /\ ReadsFresh /\ LocalsSound

\* "Put pod %s back to ch again.": a pod put back is handled again.
PutBackIsHandled ==
    \A p \in Pods : (prep.at = "resend" /\ prep.pod = p) ~> (prep.at = "get" /\ prep.pod = p)
=============================================================================
