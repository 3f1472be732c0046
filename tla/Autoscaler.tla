----------------------------- MODULE Autoscaler -----------------------------
(***************************************************************************)
(* The Autoscaler (Autoscaler/*.go) on one Knative service: a loop over a  *)
(* list of the pods of the service, read once per pass, that decides from  *)
(* the metrics of each pod whether its revision moves to a smaller or a    *)
(* larger GPU tier, and then creates a revision, waits for a ready one,    *)
(* moves the traffic and deletes the old revision.  Every call to the API  *)
(* server is a step of its own.                                            *)
(*                                                                         *)
(* Revisions are numbered in the order of their creation, which is the     *)
(* order they are listed in.  A read and an Update of the service are one  *)
(* step, because the server refuses an Update of a version that is not the *)
(* current one.  Of the metrics of a pod it matters which are out of the   *)
(* bounds of the config map, above or below (not a number counts as below). *)
(* DecideScale scales up or down only; the branches for out and in are     *)
(* never taken.                                                            *)
(***************************************************************************)
EXTENDS Integers, FiniteSets, SequencesExt

CONSTANTS
    Tiers,          \* the tiers of the GPU type, smallest first
    Nodes,          \* the nodes in the order they are listed in
    Allocations,    \* what a node may have allocatable: tier -> quantity
    InitTier,
    NoTier,
    MaxPods,        \* pods a revision may have
    Faults,         \* "metrics", "update", "delete", "timeout", "crash"
    MaxRevisions    \* bound: revisions of the service

TierNames == ToSet(Tiers)

ASSUME TiersAssumption ==
    /\ Tiers \in Seq(TierNames)
    /\ InitTier \in TierNames
    /\ NoTier \notin TierNames
    /\ \A a \in Allocations : DOMAIN a \subseteq TierNames
ASSUME BoundsAssumption == MaxPods \in Nat /\ MaxRevisions \in Nat \ {0}

VARIABLES
    alloc,        \* alloc[i]: status.allocatable of the i-th node
    tier,         \* tier[r]: the GPU tier of revision r, created ones only
    existing,     \* the revisions that exist
    latestReady,  \* LatestReadyRevisionName, 0 when there is none
    traffic,      \* spec.traffic: [rev, percent], rev 0 stands for the latest ready one
    scraped,      \* the revisions Prometheus has metrics of
    gauge,        \* the revisions the exporter was told to have a gauge of
    pc,           \* where the pass is
    todo,         \* todo[r]: the listed pods of r not processed yet, running ones and others
    cur,          \* the revision of the pod being processed, 0 when there is none
    metrics,      \* the metrics fetched for it that are out of bounds: "low", "high"
    want,         \* the tier decided for it
    waitFrom,     \* LatestReadyRevisionName before the update
    \* History variable, read by properties only.
    clean         \* no call failed or timed out, and no listed pod was of a revision that is gone

cluster == <<alloc, tier, existing, latestReady, traffic, scraped>>
vars == <<cluster, gauge, pc, todo, cur, metrics, want, waitFrom, clean>>

Created == DOMAIN tier

NoPods == [r \in 1..MaxRevisions |-> [running |-> 0, other |-> 0]]

Target(r, percent) == [rev |-> r, percent |-> percent]

Init ==
    /\ alloc \in [DOMAIN Nodes -> Allocations]
    /\ tier = <<InitTier>>
    /\ existing = {1}
    /\ latestReady = 0
    /\ traffic = <<Target(0, 100)>>
    /\ scraped = {}
    /\ gauge = {}
    /\ pc = "idle"
    /\ todo = NoPods
    /\ cur = 0
    /\ metrics = {}
    /\ want = NoTier
    /\ waitFrom = 0
    /\ clean = TRUE

-----------------------------------------------------------------------------
(* The tier registry *)

\* UpdateAvailTiers: the quantity of the last node that has the resource, be it
\* zero.
Available(t) ==
    LET having == {i \in DOMAIN Nodes : t \in DOMAIN alloc[i]}
    IN  having # {} /\ alloc[Max(having)][t] > 0

TierIndex(t) == CHOOSE i \in DOMAIN Tiers : Tiers[i] = t

\* The nearest available tier below or above, NoTier when there is none.
GetPrevAvailTier(t) ==
    LET smaller == {i \in DOMAIN Tiers : i < TierIndex(t) /\ Available(Tiers[i])}
    IN  IF smaller = {} THEN NoTier ELSE Tiers[Max(smaller)]

GetNextAvailTier(t) ==
    LET larger == {i \in DOMAIN Tiers : i > TierIndex(t) /\ Available(Tiers[i])}
    IN  IF larger = {} THEN NoTier ELSE Tiers[Min(larger)]

-----------------------------------------------------------------------------
(* updateServiceTraffic, for scaling up and down *)

\* The list of the revisions, oldest first.
Revisions == CHOOSE list \in [1..Cardinality(existing) -> existing] :
                \A i, j \in DOMAIN list : i < j => list[i] < list[j]

Percent(i, n) == 100 \div (n - 1) + (IF i <= 100 % (n - 1) THEN 1 ELSE 0)

\* The position of the scaled revision in the list of revisions, the first one
\* when it is not in the list.
RevisionIdx(list, r) == IF r \in ToSet(list) THEN CHOOSE i \in DOMAIN list : list[i] = r ELSE 1

\* Entry by entry the traffic gets the other revisions, the last of the list is
\* appended as the latest ready one ...
Filled(list, r) ==
    LET n == Len(list)
        written == [i \in DOMAIN traffic |->
                      IF i < n /\ list[i] # r THEN Target(list[i], Percent(i, n)) ELSE traffic[i]]
    IN  IF list[n] = r THEN written ELSE Append(written, Target(latestReady, Percent(n, n)))

\* ... and the entry at the position of the scaled revision is removed.
NewTraffic(list, r) == RemoveAt(Filled(list, r), RevisionIdx(list, r))

\* The division by zero and the indices out of range that the code runs into
\* when the traffic has fewer entries than there are revisions.
TrafficPanics(list, r) ==
    \/ Len(list) = 1
    \/ \E i \in 1..Len(list) - 1 : list[i] # r /\ i > Len(traffic)
    \/ RevisionIdx(list, r) > Len(Filled(list, r))

\* Knative's webhook accepts a traffic block of one hundred percent only.
Admitted(block) == FoldSeq(LAMBDA t, sum : t.percent + sum, 0, block) = 100

-----------------------------------------------------------------------------
(* A pass *)

EndPod ==
    /\ pc' = "pods"
    /\ cur' = 0
    /\ metrics' = {}
    /\ want' = NoTier
    /\ waitFrom' = 0

\* ProcessService: the pods of the service, listed once.  Pods of a revision that
\* is gone may still be terminating.
ProcessService ==
    /\ pc = "idle"
    /\ pc' = "pods"
    /\ todo' \in {f \in [1..MaxRevisions -> [running : 0..MaxPods, other : 0..MaxPods]] :
                     \A r \in 1..MaxRevisions :
                        /\ f[r].running + f[r].other <= MaxPods
                        /\ r \notin existing => f[r].running = 0
                        /\ r \notin Created => f[r].other = 0}
    /\ UNCHANGED <<cluster, gauge, cur, metrics, want, waitFrom, clean>>

EndPass ==
    /\ pc = "pods"
    /\ todo = NoPods
    /\ pc' = "idle"
    /\ UNCHANGED <<cluster, gauge, todo, cur, metrics, want, waitFrom, clean>>

\* processPod: the list is sorted by name, and so by revision.  The exporter takes
\* the event, and its goroutine sets the gauge right after that, in the order of the
\* events; a pod that was not running when it was listed goes no further.
RegisterPod(status) ==
    /\ pc = "pods"
    /\ todo # NoPods
    /\ LET rev == Min({r \in DOMAIN todo : todo[r] # NoPods[r]})
       IN  /\ todo[rev][status] > 0
           /\ todo' = [todo EXCEPT ![rev][status] = @ - 1]
           /\ gauge' = gauge \cup {rev}
           /\ clean' = (clean /\ rev \in existing)
           /\ IF status = "running"
              THEN pc' = "fetch" /\ cur' = rev
              ELSE pc' = "pods" /\ cur' = cur
    /\ UNCHANGED <<cluster, metrics, want, waitFrom>>

\* FetchPodMetrics: the queries of the config map, which names the pod.  A revision
\* that is not scraped has no metrics, one that is may have them or not; an error ends
\* the turn of the pod.
FetchPodMetrics ==
    /\ pc = "fetch"
    /\ \/ /\ metrics' \in SUBSET (IF cur \in scraped THEN {"low", "high"} ELSE {})
          /\ pc' = "decide"
          /\ UNCHANGED <<cur, want, waitFrom>>
       \/ "metrics" \in Faults /\ EndPod
    /\ UNCHANGED <<cluster, gauge, todo, clean>>

\* The metric that is visited last in a map, which has no order, decides.
TiersDecided == {IF m = "low" THEN GetPrevAvailTier(tier[cur]) ELSE GetNextAvailTier(tier[cur]) : m \in metrics}

\* Faulty variant: a missing tier is logged only.
DecideScaleAnyTier ==
    /\ pc = "decide"
    /\ \/ /\ want' \in TiersDecided
          /\ pc' = "update"
          /\ metrics' = {}
          /\ UNCHANGED <<gauge, cur, waitFrom>>
       \/ /\ metrics = {}
          /\ gauge' = gauge \cup {cur}
          /\ EndPod
    /\ UNCHANGED <<cluster, todo, clean>>

\* DecideScale: the next tier below or above that is available.  Without one, and
\* without a metric out of bounds, the exporter is told once more.
DecideScale ==
    /\ pc = "decide"
    /\ \/ /\ want' \in TiersDecided \ {NoTier}
          /\ pc' = "update"
          /\ metrics' = {}
          /\ UNCHANGED <<gauge, cur, waitFrom>>
       \/ /\ metrics = {} \/ NoTier \in TiersDecided
          /\ gauge' = gauge \cup {cur}
          /\ EndPod
    /\ UNCHANGED <<cluster, todo, clean>>

\* ApplyScale, step 1: the service gets a new template, for which Knative creates
\* a revision.
UpdateTemplate ==
    /\ pc = "update"
    /\ \/ /\ Len(tier) < MaxRevisions
          /\ tier' = Append(tier, want)
          /\ existing' = existing \cup {Len(tier) + 1}
          /\ waitFrom' = latestReady
          /\ pc' = "wait"
          /\ UNCHANGED <<cur, metrics, want, clean>>
       \/ /\ \/ Len(tier) = MaxRevisions /\ clean' = clean
             \/ "update" \in Faults /\ clean' = FALSE
          /\ EndPod
          /\ UNCHANGED <<tier, existing>>
    /\ UNCHANGED <<alloc, latestReady, traffic, scraped, gauge, todo>>

\* Faulty variant: no look at the latest ready revision.
WaitServiceOnce ==
    /\ pc = "wait"
    /\ pc' = "traffic"
    /\ UNCHANGED <<cluster, gauge, todo, cur, metrics, want, waitFrom, clean>>

\* Faulty variant: no timeout.
WaitServiceForever ==
    /\ pc = "wait"
    /\ latestReady # waitFrom
    /\ pc' = "traffic"
    /\ UNCHANGED <<cluster, gauge, todo, cur, metrics, want, waitFrom, clean>>

\* WaitService: until the latest ready revision is another one, or for ten
\* minutes.  A timeout leaves the new revision behind.
WaitService ==
    /\ pc = "wait"
    /\ \/ /\ latestReady # waitFrom
          /\ pc' = "traffic"
          /\ UNCHANGED <<cur, metrics, want, waitFrom, clean>>
       \/ "timeout" \in Faults /\ EndPod /\ clean' = FALSE
    /\ UNCHANGED <<cluster, gauge, todo>>

\* Step 2.  A block the webhook refuses is an error like any other.
UpdateServiceTraffic ==
    /\ pc = "traffic"
    /\ ~TrafficPanics(Revisions, cur)
    /\ LET block == NewTraffic(Revisions, cur)
       IN  \/ /\ Admitted(block)
              /\ traffic' = block
              /\ pc' = "delete"
              /\ UNCHANGED <<cur, metrics, want, waitFrom, clean>>
           \/ /\ \/ ~Admitted(block) /\ clean' = clean
                 \/ "update" \in Faults /\ clean' = FALSE
              /\ traffic' = traffic
              /\ EndPod
    /\ UNCHANGED <<alloc, tier, existing, latestReady, scraped, gauge, todo>>

\* Faulty variant: the new revision is deleted instead of the old one.
DeleteRevisionNewest ==
    /\ pc = "delete"
    /\ pc' = "report"
    /\ existing' = existing \ {Max(existing)}
    /\ UNCHANGED <<alloc, tier, latestReady, traffic, scraped, gauge, todo, cur, metrics, want, waitFrom, clean>>

\* Step 3.  The error is ignored.
DeleteRevision ==
    /\ pc = "delete"
    /\ pc' = "report"
    /\ \/ existing' = existing \ {cur} /\ clean' = clean
       \/ "delete" \in Faults /\ existing' = existing /\ clean' = FALSE
    /\ UNCHANGED <<alloc, tier, latestReady, traffic, scraped, gauge, todo, cur, metrics, want, waitFrom>>

\* The exporter drops the gauge of the revision that was scaled.
ReportScaling ==
    /\ pc = "report"
    /\ gauge' = gauge \ {cur}
    /\ EndPod
    /\ UNCHANGED <<cluster, todo, clean>>

\* The process ends and starts again with an empty exporter.
Restart ==
    /\ pc' = "idle"
    /\ gauge' = {}
    /\ todo' = NoPods
    /\ cur' = 0
    /\ metrics' = {}
    /\ want' = NoTier
    /\ waitFrom' = 0
    /\ UNCHANGED cluster

\* updateServiceTraffic panics.
Panic == pc = "traffic" /\ TrafficPanics(Revisions, cur) /\ Restart /\ clean' = clean

\* Any other death.
Crash == pc # "idle" /\ "crash" \in Faults /\ Restart /\ clean' = FALSE

-----------------------------------------------------------------------------
(* Knative, Promsupp and the nodes *)

\* Knative's latest ready revision only moves forward.
BecomesReady(r) ==
    /\ r \in existing
    /\ r > latestReady
    /\ latestReady' = r
    /\ UNCHANGED <<alloc, tier, existing, traffic, scraped, gauge, pc, todo, cur, metrics, want, waitFrom, clean>>

\* Promsupp points Prometheus at the latest ready revision.
Run ==
    /\ latestReady \notin scraped \cup {0}
    /\ scraped' = scraped \cup {latestReady}
    /\ UNCHANGED <<alloc, tier, existing, latestReady, traffic, gauge, pc, todo, cur, metrics, want, waitFrom, clean>>

\* A reconfiguration changes what a node has.
Repartition(i, a) ==
    /\ alloc' = [alloc EXCEPT ![i] = a]
    /\ UNCHANGED <<tier, existing, latestReady, traffic, scraped, gauge, pc, todo, cur, metrics, want, waitFrom, clean>>

Autoscale ==
    \/ EndPass \/ (\E status \in {"running", "other"} : RegisterPod(status))
    \/ FetchPodMetrics \/ DecideScale
    \/ UpdateTemplate \/ WaitService \/ UpdateServiceTraffic \/ DeleteRevision \/ ReportScaling
    \/ Panic

Next ==
    \/ ProcessService \/ Autoscale \/ Crash
    \/ \E r \in Created : BecomesReady(r)
    \/ Run
    \/ \E i \in DOMAIN Nodes, a \in Allocations : Repartition(i, a)

Spec == Init /\ [][Next]_vars

\* The loop runs on; the wait ends at its timeout at the latest.
Fairness == WF_vars(Autoscale)

FairSpec == Spec /\ Fairness

-----------------------------------------------------------------------------
(* Properties *)

TypeOK ==
    /\ alloc \in [DOMAIN Nodes -> Allocations]
    /\ tier \in Seq(TierNames) /\ Len(tier) \in 1..MaxRevisions
    /\ existing \subseteq Created
    /\ latestReady \in Created \cup {0}
    /\ traffic \in Seq([rev : Created \cup {0}, percent : 0..100])
    /\ scraped \subseteq Created
    /\ gauge \subseteq Created
    /\ pc \in {"idle", "pods", "fetch", "decide", "update", "wait", "traffic", "delete", "report"}
    /\ todo \in [1..MaxRevisions -> [running : 0..MaxPods, other : 0..MaxPods]]
    /\ pc = "idle" => todo = NoPods
    /\ cur \in Created \cup {0}
    /\ cur = 0 <=> pc \in {"idle", "pods"}
    /\ metrics \subseteq {"low", "high"} /\ (metrics # {} => pc = "decide")
    /\ want \in TierNames \cup {NoTier}
    /\ waitFrom \in Created \cup {0}
    /\ clean \in BOOLEAN

\* Every query of the service has a revision to go to: whatever stale pods,
\* timeouts, refused blocks and panics do, all of the traffic goes to revisions
\* that exist and have been ready.
RoutesServe ==
    \A i \in DOMAIN traffic :
        LET r == IF traffic[i].rev = 0 THEN latestReady ELSE traffic[i].rev
        IN  traffic[i].percent > 0 /\ latestReady # 0 => r \in existing /\ r <= latestReady

\* As long as nothing goes wrong, a pass, whatever it scales and however often,
\* leaves one revision, sends the traffic to it, and leaves no gauge of another
\* one.  No block it builds is refused and no index it computes is out of range.
CleanPassSettles ==
    pc = "idle" /\ clean =>
        /\ Cardinality(existing) = 1
        /\ \A i \in DOMAIN traffic : traffic[i].rev \in existing \cup {0}
        /\ gauge \subseteq existing

\* What makes them inductive.  The traffic block always has one entry with all of the
\* traffic, for a revision that exists and has been ready or for the latest ready one,
\* which is never deleted: any other block is refused, or not even built.
TrafficSound ==
    /\ Len(traffic) = 1 /\ traffic[1].percent = 100
    /\ traffic[1].rev # 0 => traffic[1].rev \in existing /\ traffic[1].rev <= latestReady
    /\ latestReady # 0 => latestReady \in existing

\* A revision is scaled only after it has been the latest ready one, and replaced only
\* after a later one has become ready.
ScaleSound ==
    /\ \A r \in scraped : r <= latestReady
    /\ metrics # {} => cur \in scraped
    /\ pc = "update" => want # NoTier /\ cur \in scraped
    /\ pc = "wait" => cur <= waitFrom /\ waitFrom <= latestReady
    /\ pc \in {"traffic", "delete"} => cur < latestReady
    /\ pc = "delete" => cur < traffic[1].rev

TodoSound == \A r \in 1..MaxRevisions : todo[r] # NoPods[r] => r \in Created

\* As long as nothing goes wrong there is one revision, and its successor while it is
\* being replaced.
CleanSound ==
    clean =>
        /\ pc # "report" => gauge \subseteq existing
        /\ pc = "report" => gauge \subseteq existing \cup {cur}
        /\ pc \notin {"idle", "pods", "report"} => cur \in existing
        /\ pc \notin {"wait", "traffic", "delete"} => \E r \in Created : existing = {r}
        /\ pc \in {"wait", "traffic", "delete"} => \E r \in Created : existing = {cur, r} /\ cur < r

IInv == TypeOK /\ TrafficSound /\ ScaleSound /\ TodoSound /\ CleanSound

\* A pass ends, although it waits for revisions that may never become ready: the
\* other services get their turn.
PassEnds == (pc # "idle") ~> (pc = "idle")
=============================================================================
