------------------------------- MODULE Promsupp -------------------------------
(***************************************************************************)
(* Promsupp (Promsupp/main.go): one loop that lists the Knative services   *)
(* and gives each of them a plain Service whose selector names the latest  *)
(* ready revision, and a ServiceMonitor, so that Prometheus scrapes the    *)
(* pods of that revision.  What it writes is owned by the Knative service  *)
(* and is garbage-collected after it; a service may be deleted and created *)
(* again under its name at any point of a pass.  Every call to the API     *)
(* server is a step of its own.                                            *)
(***************************************************************************)
EXTENDS Naturals

CONSTANTS
    Services,
    Ignored,        \* those whose name contains an item of ignoreList
    MaxReady,   \* bound: revisions of one service
    MaxCreations,   \* bound: how often one service is created
    MaxFailures     \* bound: calls that fail and deaths of the process

ASSUME IgnoredAssumption == Ignored \subseteq Services
ASSUME SuppBounds == {MaxReady, MaxCreations, MaxFailures} \subseteq Nat

VARIABLES
    ksvc,       \* ksvc[s]: [uid, latest], uid 0 when it does not exist, latest 0 when none is ready
    created,    \* created[s]: how often s was created, which makes the UIDs
    prom,       \* prom[s]: s-promservice, [owner, app], owner 0 when it does not exist
    monitor,    \* monitor[s]: the owner of s-servicemonitor, 0 when it does not exist
    loop,       \* what the loop does next
    items,      \* the listed services that are not processed yet
    svc,        \* the listed service being processed
    failures

objects == <<ksvc, created, prom, monitor>>
suppVars == <<objects, loop, items, svc, failures>>

Item(s) == [name |-> s, uid |-> ksvc[s].uid, latest |-> ksvc[s].latest]
NoItem == [name |-> "", uid |-> 0, latest |-> 0]
None == [owner |-> 0, app |-> 0]

SuppInit ==
    /\ ksvc = [s \in Services |-> [uid |-> 0, latest |-> 0]]
    /\ created = [s \in Services |-> 0]
    /\ prom = [s \in Services |-> None]
    /\ monitor = [s \in Services |-> 0]
    /\ loop = "list"
    /\ items = {}
    /\ svc = NoItem
    /\ failures = 0

-----------------------------------------------------------------------------
(* Run *)

Fail == failures < MaxFailures /\ failures' = failures + 1
NoFailure == failures' = failures

\* Faulty variant: the list shows services that are gone.
ListedCached == {Item(s) : s \in Services \ Ignored}

Listed == {Item(s) : s \in {s \in Services \ Ignored : ksvc[s].uid > 0}}

\* Faulty variant: the next list does not wait for the items of the last one.
ListServicesEarly ==
    /\ loop \in {"list", "next"}
    /\ items' = items \cup Listed
    /\ loop' = "next"
    /\ NoFailure
    /\ UNCHANGED <<objects, svc>>

\* A list that fails is fatal.
ListServices ==
    /\ loop = "list"
    /\ items' = Listed
    /\ loop' = "next"
    /\ NoFailure
    /\ UNCHANGED <<objects, svc>>

NextService ==
    /\ loop = "next"
    /\ \/ \E i \in items : svc' = i /\ items' = items \ {i} /\ loop' = "get"
       \/ items = {} /\ svc' = NoItem /\ items' = items /\ loop' = "list"
    /\ NoFailure
    /\ UNCHANGED objects

\* Faulty variant: a service that is there is left alone.
GetServiceOnce ==
    /\ loop = "get"
    /\ loop' = IF prom[svc.name] = None THEN "create" ELSE "getMonitor"
    /\ NoFailure
    /\ UNCHANGED <<objects, items, svc>>

\* The Get of the promservice decides between Create, Update and nothing; an error
\* is logged.
GetService ==
    /\ loop = "get"
    /\ \/ /\ loop' = IF prom[svc.name] = None THEN "create"
                   ELSE IF prom[svc.name].app # svc.latest THEN "update" ELSE "getMonitor"
          /\ NoFailure
       \/ Fail /\ loop' = "getMonitor"
    /\ UNCHANGED <<objects, items, svc>>

\* operateService.  The object written carries no resource version, so that the
\* Update overwrites whatever is there; one that is gone is not created.
OperateService ==
    /\ loop \in {"create", "update"}
    /\ \/ /\ prom' = IF loop = "create" \/ prom[svc.name] # None
                     THEN [prom EXCEPT ![svc.name] = [owner |-> svc.uid, app |-> svc.latest]]
                     ELSE prom
          /\ NoFailure
       \/ Fail /\ prom' = prom
    /\ loop' = "getMonitor"
    /\ UNCHANGED <<ksvc, created, monitor, items, svc>>

GetMonitor ==
    /\ loop = "getMonitor"
    /\ \/ loop' = (IF monitor[svc.name] = 0 THEN "createMonitor" ELSE "next") /\ NoFailure
       \/ loop' = "next" /\ Fail
    /\ UNCHANGED <<objects, items, svc>>

CreateServiceMonitor ==
    /\ loop = "createMonitor"
    /\ \/ monitor' = [monitor EXCEPT ![svc.name] = svc.uid] /\ NoFailure
       \/ monitor' = monitor /\ Fail
    /\ loop' = "next"
    /\ UNCHANGED <<ksvc, created, prom, items, svc>>

\* The process dies, of a failed list or otherwise, and is started again.
Die ==
    /\ Fail
    /\ loop' = "list"
    /\ items' = {}
    /\ svc' = NoItem
    /\ UNCHANGED objects

RunLoop == ListServices \/ NextService \/ GetService \/ OperateService \/ GetMonitor \/ CreateServiceMonitor

-----------------------------------------------------------------------------
(* The rest of the cluster *)

LoopStays == UNCHANGED <<loop, items, svc, failures>>

CreateKsvc(s) ==
    /\ ksvc[s].uid = 0
    /\ created[s] < MaxCreations
    /\ created' = [created EXCEPT ![s] = @ + 1]
    /\ ksvc' = [ksvc EXCEPT ![s] = [uid |-> created[s] + 1, latest |-> 0]]
    /\ UNCHANGED <<prom, monitor>>
    /\ LoopStays

DeleteKsvc(s) ==
    /\ ksvc[s].uid > 0
    /\ ksvc' = [ksvc EXCEPT ![s] = [uid |-> 0, latest |-> 0]]
    /\ UNCHANGED <<created, prom, monitor>>
    /\ LoopStays

\* Revisions are named by their number, which starts again with the service.
RevisionReady(s) ==
    /\ ksvc[s].uid > 0
    /\ ksvc[s].latest < MaxReady
    /\ ksvc' = [ksvc EXCEPT ![s].latest = @ + 1]
    /\ UNCHANGED <<created, prom, monitor>>
    /\ LoopStays

\* The garbage collector deletes what a deleted service owned.
Collect(s) ==
    /\ \/ /\ prom[s].owner \notin {0, ksvc[s].uid}
          /\ prom' = [prom EXCEPT ![s] = None]
          /\ monitor' = monitor
       \/ /\ monitor[s] \notin {0, ksvc[s].uid}
          /\ monitor' = [monitor EXCEPT ![s] = 0]
          /\ prom' = prom
    /\ UNCHANGED <<ksvc, created>>
    /\ LoopStays

SuppNext ==
    \/ RunLoop
    \/ Die
    \/ \E s \in Services : CreateKsvc(s) \/ DeleteKsvc(s) \/ RevisionReady(s) \/ Collect(s)

\* The loop never stops, and neither does the garbage collector.
SuppFairness == WF_suppVars(RunLoop) /\ \A s \in Services : WF_suppVars(Collect(s))

SuppSpec == SuppInit /\ [][SuppNext]_suppVars /\ SuppFairness

-----------------------------------------------------------------------------
(* Properties *)

SuppTypeOK ==
    /\ ksvc \in [Services -> [uid : 0..MaxCreations, latest : 0..MaxReady]]
    /\ created \in [Services -> 0..MaxCreations]
    /\ prom \in [Services -> [owner : 0..MaxCreations, app : 0..MaxReady]]
    /\ monitor \in [Services -> 0..MaxCreations]
    /\ loop \in {"list", "next", "get", "create", "update", "getMonitor", "createMonitor"}
    /\ \A i \in items : i.name \in Services \ Ignored /\ i.uid > 0
    /\ loop \notin {"list", "next"} => svc.name \in Services \ Ignored
    /\ failures \in 0..MaxFailures

\* The list is older than the selector it corrects, and the Update is unconditional:
\* still the selector of a service never goes back to an older revision, and never
\* ahead of the ready ones, also when the service is deleted and created again.
SelectorFollows ==
    [][\A s \in Services :
          /\ prom'[s].owner \in {0, prom[s].owner} /\ prom'[s] # None => prom'[s].app >= prom[s].app
          /\ prom'[s].owner = ksvc'[s].uid => prom'[s].app <= ksvc'[s].latest]_suppVars

\* What makes SelectorFollows hold: what is left to do of a list is no older than what
\* earlier lists had written, is no newer than the service, and is one thing per service.
Listing == [name : Services \ Ignored, uid : 1..MaxCreations, latest : 0..MaxReady]

Busy == loop \notin {"list", "next"}

NoOlder(i) ==
    /\ i.uid <= created[i.name]
    /\ i.uid = ksvc[i.name].uid => i.latest <= ksvc[i.name].latest
    /\ i.uid = prom[i.name].owner => prom[i.name].app <= i.latest

ListSound ==
    /\ items \subseteq Listing
    /\ \A i \in items : NoOlder(i) /\ \A j \in items : i.name = j.name => i = j
    /\ Busy => svc \in Listing /\ NoOlder(svc) /\ \A i \in items : i.name # svc.name
    /\ loop = "create" => prom[svc.name] = None

\* A service carries the newest of its UIDs, and a selector is behind its service.
SelectorSound ==
    \A s \in Services :
        /\ ksvc[s].uid \in {0, created[s]}
        /\ ksvc[s].uid = 0 => ksvc[s].latest = 0
        /\ prom[s].owner <= created[s]
        /\ prom[s].owner = 0 => prom[s] = None
        /\ prom[s].owner = ksvc[s].uid => prom[s].app <= ksvc[s].latest

SuppIInv == SuppTypeOK /\ ListSound /\ SelectorSound

\* A service that stays is scraped at its latest ready revision in the end, whatever
\* an earlier service of the name left behind and a stale pass wrote.
ScrapedInTheEnd ==
    \A s \in Services \ Ignored :
        <>[](ksvc[s].uid > 0) =>
            <>[](/\ prom[s] = [owner |-> ksvc[s].uid, app |-> ksvc[s].latest]
                 /\ monitor[s] = ksvc[s].uid)
=============================================================================
