--------------------------- MODULE RequestDelivery ---------------------------
(***************************************************************************)
(* What the Dispatcher promises about a request, without its channels,     *)
(* groups and goroutines: a valid request is taken, acknowledged, and      *)
(* posted to a service once; a request that was taken and not posted is    *)
(* lost only when the process dies, and a request that is not taken is     *)
(* never posted.                                                           *)
(***************************************************************************)
CONSTANTS Requests

VARIABLES
    state,   \* state[r]: "new", "taken", "posted", "refused" or "lost"
    acked    \* the requests answered with 202

vars == <<state, acked>>

Init == state = [r \in Requests |-> "new"] /\ acked = {}

Take(r) == state[r] = "new" /\ state' = [state EXCEPT ![r] = "taken"] /\ UNCHANGED acked

Refuse(r) == state[r] = "new" /\ state' = [state EXCEPT ![r] = "refused"] /\ UNCHANGED acked

\* Posting does not wait for the acknowledgement.
Post(r) == state[r] = "taken" /\ state' = [state EXCEPT ![r] = "posted"] /\ UNCHANGED acked

Acknowledge(r) ==
    /\ state[r] \in {"taken", "posted"}
    /\ acked' = acked \cup {r}
    /\ UNCHANGED state

\* The process dies with all it has taken, and with the connections it was
\* reading from.
Die ==
    /\ \E broken \in SUBSET {r \in Requests : state[r] = "new"} :
          state' = [r \in Requests |-> IF state[r] = "taken" THEN "lost"
                                      ELSE IF r \in broken THEN "refused"
                                      ELSE state[r]]
    /\ UNCHANGED acked

Next == (\E r \in Requests : Take(r) \/ Refuse(r) \/ Post(r) \/ Acknowledge(r)) \/ Die

Spec == Init /\ [][Next]_vars
=============================================================================
