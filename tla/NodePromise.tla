----------------------------- MODULE NodePromise -----------------------------
(***************************************************************************)
(* What a reconciliation of a node promises to the pods of the node,       *)
(* without the cache, the stale copies, the loops and the programs around  *)
(* it: a plan that is made on a closed node with no pod on its way stops   *)
(* the pods on the GPUs it changes and no other, and the configuration     *)
(* changes only when none of these GPUs is in use any more.                *)
(*                                                                         *)
(* The promise is conditional: of a plan that is made in the dark, on a    *)
(* node that is open or whose pods the reporter has not labelled yet, all  *)
(* that is left is that the node may be switched under its pods.  A node   *)
(* is closed for the scheduler, which learns of a taint later than it is   *)
(* set; and the reconciliation does not wait for that.                     *)
(***************************************************************************)
CONSTANTS Pods, GPUs, Configs, Layout, InitConfig, NoConfig

VARIABLES
    config,   \* the configuration the node is labelled with
    closed,   \* no pod is sent to the node
    coming,   \* the pods that were sent to the node and have not arrived
    holds,    \* holds[p]: the GPUs p has slices of
    plan,     \* the configuration the node is prepared for, or NoConfig
    doomed    \* the pods the plan stops

promise == <<config, closed, coming, holds, plan, doomed>>

\* The GPUs that differ between two configurations.
Changed(old, new) == {d \in GPUs : Layout[old][d] # Layout[new][d]}

InUse(p, old, new) == holds[p] \cap Changed(old, new) # {}

Init ==
    /\ config = InitConfig
    /\ closed = FALSE
    /\ coming = {}
    /\ holds = [p \in Pods |-> {}]
    /\ plan = NoConfig
    /\ doomed = {}

\* The scheduler picks the node for a pod ...
Send(p) ==
    /\ ~closed
    /\ coming' = coming \cup {p}
    /\ UNCHANGED <<config, closed, holds, plan, doomed>>

\* ... which gets its slices there later, or is rejected.
Arrive(p) ==
    /\ p \in coming
    /\ coming' = coming \ {p}
    /\ \/ \E held \in (SUBSET GPUs) \ {{}} : holds' = [holds EXCEPT ![p] = held]
       \/ holds' = holds
    /\ UNCHANGED <<config, closed, plan, doomed>>

Leave(p) ==
    /\ holds' = [holds EXCEPT ![p] = {}]
    /\ UNCHANGED <<config, closed, coming, plan, doomed>>

Close ==
    /\ closed' = TRUE
    /\ UNCHANGED <<config, coming, holds, plan, doomed>>

\* The node is not opened while it is prepared.
Open ==
    /\ plan = NoConfig
    /\ closed' = FALSE
    /\ UNCHANGED <<config, coming, holds, plan, doomed>>

\* A plan in the light.
Begin(new) ==
    /\ closed /\ coming = {}
    /\ plan = NoConfig
    /\ plan' = new
    /\ doomed' = {p \in Pods : InUse(p, config, new)}
    /\ UNCHANGED <<config, closed, coming, holds>>

\* The configuration changes under no pod.
Switch ==
    /\ plan # NoConfig
    /\ \A p \in Pods : ~InUse(p, config, plan)
    /\ config' = plan
    /\ plan' = NoConfig
    /\ doomed' = {}
    /\ UNCHANGED <<closed, coming, holds>>

\* The reconciliation is broken off: the label is refused, or the process dies.
Abandon ==
    /\ plan' = NoConfig
    /\ doomed' = {}
    /\ UNCHANGED <<config, closed, coming, holds>>

\* The end of a plan in the dark.
SwitchInTheDark(new) ==
    /\ plan = NoConfig
    /\ config' = new
    /\ UNCHANGED <<closed, coming, holds, plan, doomed>>

Next ==
    \/ \E p \in Pods : Send(p) \/ Arrive(p) \/ Leave(p)
    \/ Close \/ Open
    \/ \E new \in Configs : Begin(new) \/ SwitchInTheDark(new)
    \/ Switch \/ Abandon

Spec == Init /\ [][Next]_promise
=============================================================================
