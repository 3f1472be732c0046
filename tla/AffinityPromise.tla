--------------------------- MODULE AffinityPromise ---------------------------
(***************************************************************************)
(* What the pod controller and stopPods promise about pods, without the    *)
(* map, the channel and the goroutines: the node of a stop is owed to a    *)
(* pod of the same template, the nodes of a template are given out in the  *)
(* order of the stops, each once, and a released pod keeps its label.      *)
(* PodPreprocess implements it; ReconfigSystem puts it next to the         *)
(* scheduler.                                                              *)
(*                                                                         *)
(* The promise is conditional: once two goroutines have collided on a key  *)
(* of the unlocked map, all that is left of it is the template.            *)
(***************************************************************************)
EXTENDS Naturals, Sequences

CONSTANTS Pods, Nodes, Templates, NoHash, NoNode, Hash

Keys == Templates \cup {NoHash}

VARIABLES
    phase,      \* phase[p]: "unborn", "live", "terminating" or "gone"
    done,       \* the pods that are released
    expected,   \* expected[p]: the node p is sent to, or NoNode
    owed,       \* owed[k]: the nodes owed to pods of key k, oldest first
    stopping,   \* the stop under way, whose node is not owed yet: {} or {<<key, node>>}
    stoppedOn,  \* stoppedOn[k]: the nodes a pod with key k was stopped on
    collided    \* two goroutines collided on a key

promise == <<phase, done, expected, owed, stopping, stoppedOn, collided>>

Init ==
    /\ phase = [p \in Pods |-> "unborn"]
    /\ done = {}
    /\ expected = [p \in Pods |-> NoNode]
    /\ owed = [k \in Keys |-> <<>>]
    /\ stopping = {}
    /\ stoppedOn = [k \in Keys |-> {}]
    /\ collided = FALSE

Exists(p) == phase[p] \in {"live", "terminating"}

Appear(p) ==
    /\ phase[p] = "unborn"
    /\ phase' = [phase EXCEPT ![p] = "live"]
    /\ UNCHANGED <<done, expected, owed, stopping, stoppedOn, collided>>

Vanish(p) ==
    /\ phase[p] = "terminating"
    /\ phase' = [phase EXCEPT ![p] = "gone"]
    /\ UNCHANGED <<done, expected, owed, stopping, stoppedOn, collided>>

\* A pod that is released is deleted on node n.  Its key was read before, and is
\* NoHash when that failed.
Stop(p, n, k) ==
    /\ Exists(p) /\ p \in done
    /\ k \in {Hash[p], NoHash}
    /\ stopping = {}
    /\ stopping' = {<<k, n>>}
    /\ stoppedOn' = [stoppedOn EXCEPT ![k] = @ \cup {n}]
    /\ phase' = [phase EXCEPT ![p] = "terminating"]
    /\ UNCHANGED <<done, expected, owed, collided>>

Owe(k, n) ==
    /\ stopping = {<<k, n>>}
    /\ stopping' = {}
    /\ owed' = [owed EXCEPT ![k] = Append(@, n)]
    /\ collided' \in {collided, TRUE}
    /\ UNCHANGED <<phase, done, expected, stoppedOn>>

Release(p) ==
    /\ Exists(p) /\ p \notin done
    /\ done' = done \cup {p}
    /\ UNCHANGED <<phase, expected, owed, stopping, stoppedOn, collided>>

\* Faulty variant: a pod that is released is treated like a new one.
SendBackUnchecked(p, n) ==
    /\ Exists(p)
    /\ IF collided THEN n \in stoppedOn[Hash[p]]
                   ELSE owed[Hash[p]] # <<>> /\ n = Head(owed[Hash[p]])
    /\ done' = done \cup {p}
    /\ expected' = [expected EXCEPT ![p] = n]
    /\ owed' = [owed EXCEPT ![Hash[p]] = IF @ = <<>> THEN @ ELSE Tail(@)]
    /\ UNCHANGED <<phase, stopping, stoppedOn, collided>>

SendBack(p, n) ==
    /\ Exists(p) /\ p \notin done
    /\ IF collided THEN n \in stoppedOn[Hash[p]]
                   ELSE owed[Hash[p]] # <<>> /\ n = Head(owed[Hash[p]])
    /\ done' = done \cup {p}
    /\ expected' = [expected EXCEPT ![p] = n]
    /\ owed' = [owed EXCEPT ![Hash[p]] = IF @ = <<>> THEN @ ELSE Tail(@)]
    /\ UNCHANGED <<phase, stopping, stoppedOn, collided>>

\* The ReplicaSet of a template is gone, or looks so.
Forget(k) ==
    /\ owed' = [owed EXCEPT ![k] = <<>>]
    /\ collided' \in {collided, TRUE}
    /\ UNCHANGED <<phase, done, expected, stopping, stoppedOn>>

Collide ==
    /\ collided' = TRUE
    /\ UNCHANGED <<phase, done, expected, owed, stopping, stoppedOn>>

\* What is owed is in memory only.
Lose ==
    /\ owed' = [k \in Keys |-> <<>>]
    /\ stopping' = {}
    /\ collided' = FALSE
    /\ UNCHANGED <<phase, done, expected, stoppedOn>>

Next ==
    \/ \E p \in Pods : Appear(p) \/ Vanish(p) \/ Release(p)
    \/ \E p \in Pods, n \in Nodes : SendBack(p, n) \/ \E k \in Keys : Stop(p, n, k)
    \/ \E k \in Keys : Forget(k) \/ \E n \in Nodes : Owe(k, n)
    \/ Collide
    \/ Lose

Spec == Init /\ [][Next]_promise
=============================================================================
