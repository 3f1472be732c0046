----------------------------- MODULE Dispatcher -----------------------------
(***************************************************************************)
(* The Dispatcher: HTTP handlers put requests into a bounded channel, one  *)
(* worker groups them by model and puts full groups into a second bounded  *)
(* channel, one sequential processor decides on a service for each group   *)
(* and creates it or finds it, and goroutines of their own post the        *)
(* requests to the service (main.go, request.go, processor.go,             *)
(* assigner.go).  A log.Fatalf anywhere ends the process, and with it all  *)
(* it holds.                                                               *)
(*                                                                         *)
(* A request is known by its MODEL_ID; the name of the service is what     *)
(* parseRequest makes of it, which is not one to one.                      *)
(***************************************************************************)
EXTENDS Sequences, Naturals, FiniteSets, Functions

CONSTANTS
    Requests,
    Ids,            \* MODEL_IDs
    Id,             \* Id[r]: the MODEL_ID of r, or NoId
    NoId,           \* the request has no body, no JSON or no usable MODEL_ID
    Names,          \* service names
    Name,           \* Name[i]: the name parseRequest derives from MODEL_ID i
    Slices,         \* MIG slice kinds, smallest first
    NoSlice,
    maxRequestsPerGroup,
    ChannelSize,    \* capacity of requestChannel and of processChannel
    Faults,         \* what may go wrong: "list", "create", "get", "post", "delete", "repartition"
    MaxRestarts     \* bound: deaths of the process that it does not bring about itself

ASSUME NamesAssumption ==
    /\ NoId \notin Ids
    /\ Id \in [Requests -> Ids \cup {NoId}]
    /\ Name \in [Ids -> Names]
ASSUME SlicesAssumption == Slices \in Seq(Range(Slices))
ASSUME SizesAssumption ==
    /\ maxRequestsPerGroup \in Nat \ {0}
    /\ ChannelSize \in Nat \ {0}
    /\ MaxRestarts \in Nat

VARIABLES
    http,            \* http[r]: how far the handler of r is
    requestChannel,
    modelGroups,     \* modelGroups[m]: the forming group, <<>> when there is none
    worker,          \* the full group the worker holds, or <<>>
    processChannel,
    processor,       \* the sequential processor: where it is, its group and slice
    senders,         \* the goroutines posting: what they wait for and have to post
    service,         \* service[m]: state, and the MODEL_ID it was created with
    slices,          \* the slice kinds some node has capacity for
    posts,           \* posts[r]: how often r was posted
    reached,         \* reached[r]: the MODEL_ID of the service that got it, or NoId
    restarts,
    \* History variables, read by properties only.
    taken,           \* the requests put into requestChannel
    lost             \* the requests the process held when it died

memory == <<requestChannel, modelGroups, worker, processChannel, processor, senders>>
cluster == <<service, slices, posts, reached>>
vars == <<http, memory, cluster, restarts, taken, lost>>

IdleProcessor == [at |-> "idle", group |-> <<>>, slice |-> NoSlice]

ServiceName(group) == Name[Id[group[1]]]

Init ==
    /\ http = [r \in Requests |-> "new"]
    /\ requestChannel = <<>>
    /\ modelGroups = [m \in Names |-> <<>>]
    /\ worker = <<>>
    /\ processChannel = <<>>
    /\ processor = IdleProcessor
    /\ senders = {}
    /\ service = [m \in Names |-> [state |-> "absent", id |-> NoId]]
    /\ slices = Range(Slices)
    /\ posts = [r \in Requests |-> 0]
    /\ reached = [r \in Requests |-> NoId]
    /\ restarts = 0
    /\ taken = {}
    /\ lost = {}

\* The requests the process holds.
Holding ==
    Range(requestChannel) \cup (UNION {Range(modelGroups[m]) : m \in Names}) \cup Range(worker)
    \cup (UNION {Range(g) : g \in Range(processChannel)}) \cup Range(processor.group)
    \cup (UNION {Range(s.todo) : s \in senders})

-----------------------------------------------------------------------------
(* handleRequest, one goroutine per request *)

\* parseRequest; a request without a usable model is answered with 400.
ParseRequest(r) ==
    /\ http[r] = "new"
    /\ http' = [http EXCEPT ![r] = IF Id[r] = NoId THEN "rejected" ELSE "sending"]
    /\ UNCHANGED <<memory, cluster, restarts, taken, lost>>

\* Faulty variant: the send does not wait for room.
EnqueueUnbounded(r) ==
    /\ http[r] = "sending"
    /\ requestChannel' = Append(requestChannel, r)
    /\ http' = [http EXCEPT ![r] = "acking"]
    /\ taken' = taken \cup {r}
    /\ UNCHANGED <<modelGroups, worker, processChannel, processor, senders, cluster, restarts, lost>>

\* The send blocks while the channel is full.
Enqueue(r) ==
    /\ http[r] = "sending"
    /\ Len(requestChannel) < ChannelSize
    /\ requestChannel' = Append(requestChannel, r)
    /\ http' = [http EXCEPT ![r] = "acking"]
    /\ taken' = taken \cup {r}
    /\ UNCHANGED <<modelGroups, worker, processChannel, processor, senders, cluster, restarts, lost>>

\* Faulty variant: 202 is written when the request is parsed.
AcknowledgeEarly(r) ==
    /\ http[r] \in {"sending", "acking"}
    /\ http' = [http EXCEPT ![r] = "accepted"]
    /\ UNCHANGED <<memory, cluster, restarts, taken, lost>>

\* 202, written only after the send.
Acknowledge(r) ==
    /\ http[r] = "acking"
    /\ http' = [http EXCEPT ![r] = "accepted"]
    /\ UNCHANGED <<memory, cluster, restarts, taken, lost>>

-----------------------------------------------------------------------------
(* worker *)

\* Faulty variant: a request joins any forming group.
GroupRequestAnyGroup ==
    /\ worker = <<>>
    /\ requestChannel # <<>>
    /\ \E m \in Names :
          LET group == Append(modelGroups[m], Head(requestChannel))
              full == Len(group) >= maxRequestsPerGroup
          IN  /\ requestChannel' = Tail(requestChannel)
              /\ worker' = IF full THEN group ELSE <<>>
              /\ modelGroups' = [modelGroups EXCEPT ![m] = IF full THEN <<>> ELSE group]
    /\ UNCHANGED <<http, processChannel, processor, senders, cluster, restarts, taken, lost>>

\* Under mu a request joins the group of its model, and a full group is popped.
GroupRequest ==
    /\ worker = <<>>
    /\ requestChannel # <<>>
    /\ LET r == Head(requestChannel)
           group == Append(modelGroups[Name[Id[r]]], r)
           full == Len(group) >= maxRequestsPerGroup
       IN  /\ requestChannel' = Tail(requestChannel)
           /\ worker' = IF full THEN group ELSE <<>>
           /\ modelGroups' = [modelGroups EXCEPT ![Name[Id[r]]] = IF full THEN <<>> ELSE group]
    /\ UNCHANGED <<http, processChannel, processor, senders, cluster, restarts, taken, lost>>

\* Faulty variant: a group that finds the channel full is dropped.
SendGroupDropping ==
    /\ worker # <<>>
    /\ worker' = <<>>
    /\ processChannel' = IF Len(processChannel) < ChannelSize
                         THEN Append(processChannel, worker) ELSE processChannel
    /\ UNCHANGED <<http, requestChannel, modelGroups, processor, senders, cluster, restarts, taken, lost>>

\* The send to the processor blocks while its channel is full.
SendGroup ==
    /\ worker # <<>>
    /\ Len(processChannel) < ChannelSize
    /\ worker' = <<>>
    /\ processChannel' = Append(processChannel, worker)
    /\ UNCHANGED <<http, requestChannel, modelGroups, processor, senders, cluster, restarts, taken, lost>>

-----------------------------------------------------------------------------
(* The death of the process: connections break, and what it held is lost. *)

\* What a death of the process leaves behind.
Lose ==
    /\ lost' = lost \cup Holding
    /\ http' = [r \in Requests |-> IF http[r] \in {"sending", "acking"} THEN "broken" ELSE http[r]]
    /\ requestChannel' = <<>>
    /\ modelGroups' = [m \in Names |-> <<>>]
    /\ worker' = <<>>
    /\ processChannel' = <<>>
    /\ processor' = IdleProcessor
    /\ senders' = {}
    /\ UNCHANGED <<cluster, taken>>

\* Any death that the program does not bring about itself.
Die == restarts < MaxRestarts /\ restarts' = restarts + 1 /\ Lose

-----------------------------------------------------------------------------
(* sequentialProcessor *)

ProcessorOnly ==
    UNCHANGED <<http, requestChannel, modelGroups, worker, cluster, restarts, taken, lost>>

TakeGroup ==
    /\ processor.at = "idle"
    /\ processChannel # <<>>
    /\ processor' = [IdleProcessor EXCEPT !.at = "decide", !.group = Head(processChannel)]
    /\ processChannel' = Tail(processChannel)
    /\ senders' = senders
    /\ ProcessorOnly

\* The first kind of the list that some node has, whether or not it is in use.
Smallest ==
    LET present == {i \in DOMAIN Slices : Slices[i] \in slices}
    IN  IF present = {} THEN NoSlice ELSE Slices[CHOOSE i \in present : \A j \in present : i <= j]

\* DecideService, with the live list of the nodes in ResourceEstimate.
DecideService ==
    /\ processor.at = "decide"
    /\ processor' = [processor EXCEPT !.at = "assign", !.slice = Smallest]
    /\ UNCHANGED <<processChannel, senders>>
    /\ ProcessorOnly

Sender(name, todo, waits) == [name |-> name, todo |-> todo, waits |-> waits]

\* AssignService: for a service in the list a goroutine per request (CurrentService).
AssignService ==
    /\ processor.at = "assign"
    /\ LET name == ServiceName(processor.group)
       IN  IF service[name].state # "absent"
           THEN /\ senders' = senders \cup {Sender(name, <<r>>, FALSE) : r \in Range(processor.group)}
                /\ processor' = IdleProcessor
           ELSE /\ senders' = senders
                /\ processor' = [processor EXCEPT !.at = "create"]
    /\ UNCHANGED processChannel
    /\ ProcessorOnly

\* CreateNewService, with the environment of the first request of the group; one
\* goroutine then waits for the service.
CreateNewService ==
    /\ processor.at = "create"
    /\ processor.slice # NoSlice
    /\ LET name == ServiceName(processor.group)
       IN  /\ service[name].state = "absent"
           /\ service' = [service EXCEPT ![name] = [state |-> "starting", id |-> Id[processor.group[1]]]]
           /\ senders' = senders \cup {Sender(name, processor.group, TRUE)}
    /\ processor' = IdleProcessor
    /\ UNCHANGED <<http, requestChannel, modelGroups, worker, processChannel, slices, posts,
                   reached, restarts, taken, lost>>

\* Every error of the processor is fatal: a List or a Create that fails, a name
\* that was taken in the meantime, the empty slice name the API server rejects.
ProcessorDies ==
    /\ \/ processor.at \in {"decide", "assign"} /\ "list" \in Faults
       \/ processor.at = "create" /\ \/ "create" \in Faults
                                     \/ processor.slice = NoSlice
                                     \/ service[ServiceName(processor.group)].state # "absent"
    /\ restarts' = restarts
    /\ Lose

-----------------------------------------------------------------------------
(* waitForServiceReadyAndForward and forwardRequest *)

\* A waiting goroutine polls the service until it is ready.
SeesReady(s) ==
    /\ s.waits
    /\ service[s.name].state = "ready"
    /\ senders' = (senders \ {s}) \cup {[s EXCEPT !.waits = FALSE]}
    /\ UNCHANGED <<http, requestChannel, modelGroups, worker, processChannel, processor,
                   cluster, restarts, taken, lost>>

\* A poll that fails is fatal, also when the service was deleted.
PollDies(s) ==
    /\ s.waits
    /\ service[s.name].state = "absent" \/ "get" \in Faults
    /\ restarts' = restarts
    /\ Lose

\* Faulty variant: only the first request of a group is posted.
ForwardRequestFirst(s) ==
    /\ ~s.waits
    /\ posts' = [posts EXCEPT ![Head(s.todo)] = @ + 1]
    /\ reached' = [reached EXCEPT ![Head(s.todo)] = service[s.name].id]
    /\ senders' = senders \ {s}
    /\ UNCHANGED <<http, requestChannel, modelGroups, worker, processChannel, processor,
                   service, slices, restarts, taken, lost>>

\* One POST.  Its failure is logged; the answer of the ingress is taken for the
\* answer of the service, so that a service without a route loses the request.
ForwardRequest(s) ==
    /\ ~s.waits
    /\ LET r == Head(s.todo)
           rest == Tail(s.todo)
       IN  /\ posts' = [posts EXCEPT ![r] = @ + 1]
           /\ \/ /\ service[s.name].state = "ready"
                 /\ reached' = [reached EXCEPT ![r] = service[s.name].id]
              \/ /\ service[s.name].state # "ready" \/ "post" \in Faults
                 /\ reached' = reached
           /\ senders' = (senders \ {s}) \cup
                         (IF rest = <<>> THEN {} ELSE {[s EXCEPT !.todo = rest]})
    /\ UNCHANGED <<http, requestChannel, modelGroups, worker, processChannel, processor,
                   service, slices, restarts, taken, lost>>

-----------------------------------------------------------------------------
(* Knative and the nodes *)

\* A created service may get ready, or wait for ever for a slice that is in use.
ServiceReady(m) ==
    /\ service[m].state = "starting"
    /\ service' = [service EXCEPT ![m].state = "ready"]
    /\ UNCHANGED <<http, memory, slices, posts, reached, restarts, taken, lost>>

\* Someone deletes a service.
ServiceDeleted(m) ==
    /\ "delete" \in Faults
    /\ service[m].state # "absent"
    /\ service' = [service EXCEPT ![m] = [state |-> "absent", id |-> NoId]]
    /\ UNCHANGED <<http, memory, slices, posts, reached, restarts, taken, lost>>

\* The reconfiguration controller changes which slices there are.
Repartition ==
    /\ "repartition" \in Faults
    /\ slices' \in (SUBSET Range(Slices)) \ {slices}
    /\ UNCHANGED <<http, memory, service, posts, reached, restarts, taken, lost>>

Handler(r) == ParseRequest(r) \/ Enqueue(r) \/ Acknowledge(r)
Worker == GroupRequest \/ SendGroup
Processor == TakeGroup \/ DecideService \/ AssignService \/ CreateNewService
Posting(s) == SeesReady(s) \/ ForwardRequest(s)

Next ==
    \/ \E r \in Requests : Handler(r)
    \/ Worker
    \/ Processor \/ ProcessorDies
    \/ \E s \in senders : Posting(s) \/ PollDies(s)
    \/ \E m \in Names : ServiceReady(m) \/ ServiceDeleted(m)
    \/ Repartition
    \/ Die

Spec == Init /\ [][Next]_vars

\* The Go scheduler runs every goroutine that can run, and a POST returns: its client has
\* no timeout, but Knative has one for every request.  Nothing makes Knative get a
\* service ready, and no poll has to fail but that of a service that was deleted.
Fairness ==
    /\ \A r \in Requests : WF_vars(Handler(r))
    /\ WF_vars(Worker)
    /\ WF_vars(Processor \/ ProcessorDies)
    /\ WF_vars(\E s \in senders : \/ Posting(s)
                                  \/ service[s.name].state = "absent" /\ PollDies(s))

FairSpec == Spec /\ Fairness

-----------------------------------------------------------------------------
(* Properties *)

TypeOK ==
    /\ http \in [Requests -> {"new", "sending", "acking", "accepted", "rejected", "broken"}]
    /\ requestChannel \in Seq(Requests) /\ Len(requestChannel) <= ChannelSize
    /\ modelGroups \in [Names -> Seq(Requests)]
    /\ worker \in Seq(Requests)
    /\ processChannel \in Seq(Seq(Requests) \ {<<>>}) /\ Len(processChannel) <= ChannelSize
    /\ processor \in [at : {"idle", "decide", "assign", "create"}, group : Seq(Requests),
                       slice : Range(Slices) \cup {NoSlice}]
    /\ processor.at = "idle" <=> processor.group = <<>>
    /\ \A s \in senders : s \in [name : Names, todo : Seq(Requests) \ {<<>>}, waits : BOOLEAN]
    /\ service \in [Names -> [state : {"absent", "starting", "ready"}, id : Ids \cup {NoId}]]
    /\ slices \subseteq Range(Slices)
    /\ posts \in [Requests -> Nat]
    /\ reached \in [Requests -> Ids \cup {NoId}]
    /\ restarts \in 0..MaxRestarts
    /\ taken \subseteq Requests /\ lost \subseteq Requests

\* The promise of RequestDelivery: what the clients and the services can see of
\* the Dispatcher is that every request taken is posted once, or lost with the
\* process, and no other request is posted.
delivery == INSTANCE RequestDelivery WITH
    state <- [r \in Requests |-> IF r \notin taken
                                 THEN IF http[r] \in {"rejected", "broken"} THEN "refused" ELSE "new"
                                 ELSE IF posts[r] > 1 THEN "reposted"
                                 ELSE IF posts[r] = 1 THEN "posted"
                                 ELSE IF r \in lost THEN "lost" ELSE "taken"],
    acked <- {r \in Requests : http[r] = "accepted"}

DeliverySpec == delivery!Spec

\* A request the process has taken is in its memory until it is posted: no
\* channel, group or goroutine drops it or holds it twice.
HeldUntilPosted ==
    \A r \in Requests :
        r \in taken /\ posts[r] = 0 /\ r \notin lost <=> r \in Holding

\* The goroutine that has to post r polls a service that is not ready.  It does so
\* without a timeout.
AwaitsService(r) ==
    \E s \in senders : s.waits /\ r \in Range(s.todo) /\ service[s.name].state = "starting"

\* An acknowledged request whose group fills up is posted, or lost with the process,
\* unless the service created for its own group never gets ready: no full channel, no
\* other group whose service never does and no service that is deleted keeps it in the
\* memory of the process for good.
AcceptedIsPosted ==
    \A r \in Requests :
        []<>(r \notin UNION {Range(modelGroups[m]) : m \in Names}) =>
            []<>(http[r] = "accepted" => posts[r] > 0 \/ r \in lost \/ AwaitsService(r))

\* However requests are grouped, and whoever deletes and creates services in
\* between, a request is answered by a service created for a MODEL_ID of its own
\* service name.
ServedByNamesake == \A r \in Requests : reached[r] # NoId => Name[reached[r]] = Name[Id[r]]
\* What makes these three inductive.  A request is taken once, by a handler that is
\* still there to acknowledge it, and it is valid; what is posted or lost was taken.
Lifecycle ==
    \A r \in Requests :
        /\ http[r] = "sending" \/ r \in taken => Id[r] # NoId
        /\ r \in taken => http[r] \in {"acking", "accepted", "broken"}
        /\ http[r] \in {"acking", "accepted"} => r \in taken
        /\ http[r] = "acking" => r \notin lost
        /\ posts[r] = 1 \/ (posts[r] = 0 /\ reached[r] = NoId)
        /\ posts[r] = 1 \/ r \in lost => r \in taken

OfModel(m, group) == \A r \in Range(group) : Name[Id[r]] = m

\* Every group is of one service name: the one it forms under, that of its first
\* request, that of the service its sender posts to.
GroupsOfOneName ==
    /\ \A m \in Names : OfModel(m, modelGroups[m])
    /\ OfModel(ServiceName(worker), worker)
    /\ \A i \in DOMAIN processChannel : OfModel(ServiceName(processChannel[i]), processChannel[i])
    /\ OfModel(ServiceName(processor.group), processor.group)
    /\ \A s \in senders : OfModel(s.name, s.todo)
    /\ \A m \in Names : service[m].state # "absent" => service[m].id \in Ids /\ Name[service[m].id] = m

HeldBy ==
    <<Range(requestChannel), UNION {Range(modelGroups[m]) : m \in Names}, Range(worker),
      UNION {Range(g) : g \in Range(processChannel)}, Range(processor.group),
      UNION {Range(s.todo) : s \in senders}>>

\* No request is held in two places, or twice in one.
HeldOnce ==
    /\ \A i, j \in DOMAIN HeldBy : i # j => HeldBy[i] \cap HeldBy[j] = {}
    /\ IsInjective(requestChannel) /\ IsInjective(worker) /\ IsInjective(processor.group)
    /\ \A m \in Names : IsInjective(modelGroups[m])
    /\ \A i \in DOMAIN processChannel :
          /\ IsInjective(processChannel[i])
          /\ \A j \in DOMAIN processChannel \ {i} : Range(processChannel[i]) \cap Range(processChannel[j]) = {}
    /\ \A s \in senders :
          /\ IsInjective(s.todo)
          /\ \A t \in senders \ {s} : Range(s.todo) \cap Range(t.todo) = {}

IInv == TypeOK /\ HeldUntilPosted /\ ServedByNamesake /\ Lifecycle /\ GroupsOfOneName /\ HeldOnce
=============================================================================
