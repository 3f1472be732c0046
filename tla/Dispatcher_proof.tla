-------------------------- MODULE Dispatcher_proof --------------------------
(***************************************************************************)
(* Proofs about Dispatcher: type correctness, HeldUntilPosted and          *)
(* ServedByNamesake, from the inductive invariant IInv, and that the       *)
(* Dispatcher implements RequestDelivery.                                  *)
(***************************************************************************)
EXTENDS Dispatcher, SequenceTheorems, WellFoundedInduction, TLAPS

-----------------------------------------------------------------------------
(* Channels and groups as sets of what they hold *)

\* A send adds one element to what a channel holds.
LEMMA RangeAppend ==
  ASSUME NEW S, NEW seq \in Seq(S), NEW e \in S
  PROVE  /\ Append(seq, e) \in Seq(S) /\ Len(Append(seq, e)) = Len(seq) + 1
         /\ Append(seq, e) # <<>>
         /\ Range(Append(seq, e)) = Range(seq) \cup {e}
<1>1. /\ Append(seq, e) \in Seq(S) /\ Len(Append(seq, e)) = Len(seq) + 1
      /\ \A i \in 1..Len(seq) : Append(seq, e)[i] = seq[i]
      /\ Append(seq, e)[Len(seq) + 1] = e /\ Append(seq, e) # <<>>
  BY AppendProperties
<1> DEFINE a == Append(seq, e)
<1>2. Range(a) = {a[i] : i \in 1..Len(a)} /\ Range(seq) = {seq[i] : i \in 1..Len(seq)}
  BY <1>1, RangeEquality
<1>3. Len(seq) \in Nat
  OBVIOUS
<1> HIDE DEF a
<1>4. {a[i] : i \in 1..Len(seq) + 1} = {seq[i] : i \in 1..Len(seq)} \cup {e}
  BY <1>1, <1>3 DEF a
<1> QED  BY <1>1, <1>2, <1>4 DEF a

\* A sequence stays without repetitions when it is sent something new.
LEMMA InjectiveAppend ==
  ASSUME NEW S, NEW seq \in Seq(S), NEW e \in S, IsInjective(seq), e \notin Range(seq)
  PROVE  IsInjective(Append(seq, e))
<1> DEFINE a == Append(seq, e)
<1>1. /\ a \in Seq(S) /\ Len(a) = Len(seq) + 1
      /\ \A i \in 1..Len(seq) : a[i] = seq[i]
      /\ a[Len(seq) + 1] = e
  BY AppendProperties
<1>2. Len(seq) \in Nat /\ DOMAIN a = 1..Len(a) /\ DOMAIN seq = 1..Len(seq)
  BY <1>1
<1>3. \A i \in 1..Len(seq) : seq[i] # e
  BY <1>2 DEF Range
<1> HIDE DEF a
<1>4. ASSUME NEW i \in DOMAIN a, NEW j \in DOMAIN a, a[i] = a[j]
      PROVE  i = j
  <2>1. i \in 1..Len(seq) \/ i = Len(seq) + 1
    BY <1>1, <1>2
  <2>2. j \in 1..Len(seq) \/ j = Len(seq) + 1
    BY <1>1, <1>2
  <2> QED  BY <1>1, <1>2, <1>3, <1>4, <2>1, <2>2 DEF IsInjective
<1> QED  BY <1>4 DEF IsInjective, a

\* A receive takes the head out of what a channel holds.
LEMMA RangeHeadTail ==
  ASSUME NEW S, NEW seq \in Seq(S), seq # <<>>
  PROVE  /\ Head(seq) \in S /\ Tail(seq) \in Seq(S) /\ Len(Tail(seq)) = Len(seq) - 1
         /\ Head(seq) = seq[1] /\ 1 \in DOMAIN seq
         /\ \A i \in DOMAIN Tail(seq) : i + 1 \in DOMAIN seq /\ Tail(seq)[i] = seq[i + 1] /\ i # 0
         /\ Range(seq) = {Head(seq)} \cup Range(Tail(seq))
<1>1. /\ Head(seq) \in S /\ Tail(seq) \in Seq(S) /\ Len(Tail(seq)) = Len(seq) - 1
      /\ \A i \in 1..Len(Tail(seq)) : Tail(seq)[i] = seq[i + 1]
  BY HeadTailProperties
<1>2. Len(seq) \in Nat \ {0} /\ Head(seq) = seq[1]
  BY EmptySeq
<1> DEFINE t == Tail(seq)
<1>3. DOMAIN seq = 1..Len(seq) /\ DOMAIN t = 1..Len(t)
  BY <1>1
<1> HIDE DEF t
<1>4. \A i \in DOMAIN t : i + 1 \in DOMAIN seq /\ t[i] = seq[i + 1] /\ i # 0
  BY <1>1, <1>2, <1>3 DEF t
<1>5. Range(seq) \subseteq {Head(seq)} \cup Range(t)
  <2> SUFFICES ASSUME NEW i \in DOMAIN seq
               PROVE  seq[i] = seq[1] \/ \E j \in DOMAIN t : t[j] = seq[i]
    BY <1>2 DEF Range
  <2>1. CASE i = 1
    BY <2>1
  <2>2. CASE i # 1
    <3>1. i - 1 \in DOMAIN t /\ t[i - 1] = seq[i]
      BY <1>1, <1>2, <1>3, <2>2 DEF t
    <3> QED  BY <3>1
  <2> QED  BY <2>1, <2>2
<1>6. {Head(seq)} \cup Range(t) \subseteq Range(seq)
  BY <1>2, <1>3, <1>4 DEF Range
<1> QED  BY <1>1, <1>2, <1>3, <1>4, <1>5, <1>6 DEF t

\* Of a sequence without repetitions, the head is not in the tail.
LEMMA InjectiveTail ==
  ASSUME NEW S, NEW seq \in Seq(S), seq # <<>>, IsInjective(seq)
  PROVE  IsInjective(Tail(seq)) /\ Head(seq) \notin Range(Tail(seq))
<1> DEFINE t == Tail(seq)
<1>1. /\ Head(seq) = seq[1] /\ 1 \in DOMAIN seq /\ t \in Seq(S)
      /\ \A i \in DOMAIN t : i + 1 \in DOMAIN seq /\ t[i] = seq[i + 1] /\ i # 0
  BY RangeHeadTail
<1>2. DOMAIN t \subseteq Nat
  BY <1>1
<1> HIDE DEF t
<1>3. \A i \in DOMAIN t : i + 1 # 1 /\ \A j \in DOMAIN t : i + 1 = j + 1 => i = j
  BY <1>1, <1>2
<1>4. IsInjective(t)
  BY <1>1, <1>3 DEF IsInjective
<1>5. Head(seq) \notin Range(t)
  BY <1>1, <1>3 DEF IsInjective, Range
<1> QED  BY <1>4, <1>5 DEF t

\* Nothing is held by what is empty.
LEMMA Empty == Range(<<>>) = {} /\ IsInjective(<<>>)
  BY DEF Range, IsInjective

\* A sequence of one element.
LEMMA Single ==
  ASSUME NEW e
  PROVE  Range(<<e>>) = {e} /\ IsInjective(<<e>>) /\ <<e>> # <<>>
  BY DEF Range, IsInjective

-----------------------------------------------------------------------------
(* Types *)

States == {"new", "sending", "acking", "accepted", "rejected", "broken"}
Groups == Seq(Requests) \ {<<>>}
Processors == [at : {"idle", "decide", "assign", "create"}, group : Seq(Requests),
               slice : Range(Slices) \cup {NoSlice}]
Senders == [name : Names, todo : Groups, waits : BOOLEAN]
Services == [state : {"absent", "starting", "ready"}, id : Ids \cup {NoId}]

LEMMA Typed ==
  ASSUME TypeOK
  PROVE  /\ http \in [Requests -> States]
         /\ requestChannel \in Seq(Requests) /\ Len(requestChannel) <= ChannelSize
         /\ modelGroups \in [Names -> Seq(Requests)]
         /\ worker \in Seq(Requests)
         /\ processChannel \in Seq(Groups) /\ Len(processChannel) <= ChannelSize
         /\ processor \in Processors /\ (processor.at = "idle" <=> processor.group = <<>>)
         /\ senders \subseteq Senders
         /\ service \in [Names -> Services]
         /\ slices \subseteq Range(Slices)
         /\ posts \in [Requests -> Nat]
         /\ reached \in [Requests -> Ids \cup {NoId}]
         /\ restarts \in 0..MaxRestarts /\ taken \subseteq Requests /\ lost \subseteq Requests
  BY DEF TypeOK, States, Groups, Processors, Senders, Services

LEMMA InitEstablishes == Init => IInv
<1> SUFFICES ASSUME Init PROVE IInv
  OBVIOUS
<1>1. IdleProcessor \in Processors /\ IdleProcessor.at = "idle" /\ IdleProcessor.group = <<>>
  BY DEF IdleProcessor, Processors
<1>2. <<>> \in Seq(Requests) /\ <<>> \in Seq(Groups) /\ Len(<<>>) = 0 /\ Len(<<>>) <= ChannelSize
  BY SizesAssumption
<1>4. TypeOK
  BY <1>1, <1>2, NamesAssumption, SizesAssumption DEF Init, TypeOK, Processors
<1>5. HeldBy = <<{}, {}, {}, {}, {}, {}>> /\ Holding = {}
  BY <1>1, Empty DEF Init, HeldBy, Holding
<1>6. HeldUntilPosted /\ ServedByNamesake /\ Lifecycle
  BY <1>5 DEF Init, HeldUntilPosted, ServedByNamesake, Lifecycle
<1>7. GroupsOfOneName
  BY <1>1, Empty DEF Init, GroupsOfOneName, OfModel
<1>8. HeldOnce
  BY <1>1, <1>5, Empty DEF Init, HeldOnce
<1> QED  BY <1>4, <1>6, <1>7, <1>8 DEF IInv

\* What a death leaves behind is well-typed.
LEMMA LoseTyped ==
  ASSUME TypeOK, Lose, restarts' \in 0..MaxRestarts, Holding \subseteq Requests
  PROVE  TypeOK'
<1>1. http' \in [Requests -> States]
  BY Typed DEF Lose, States
<1>2. <<>> \in Seq(Requests) /\ <<>> \in Seq(Groups) /\ Len(<<>>) = 0 /\ Len(<<>>) <= ChannelSize
  BY SizesAssumption
<1>3. processor' \in Processors /\ (processor'.at = "idle" <=> processor'.group = <<>>)
  BY DEF Lose, IdleProcessor, Processors
<1>4. /\ requestChannel' = <<>> /\ modelGroups' = [m \in Names |-> <<>>] /\ worker' = <<>>
      /\ processChannel' = <<>> /\ senders' = {} /\ lost' = lost \cup Holding
      /\ UNCHANGED <<service, slices, posts, reached, taken>>
  BY DEF Lose, cluster
<1> QED
  BY <1>1, <1>2, <1>3, <1>4, Typed DEF TypeOK, States, Processors, Services, Groups

\* Smallest is a kind of slice or none.
LEMMA SmallestType == Smallest \in Range(Slices) \cup {NoSlice}
<1> DEFINE present == {i \in DOMAIN Slices : Slices[i] \in slices}
<1>1. CASE present = {}
  BY <1>1 DEF Smallest
<1>2. CASE present # {}
  <2>1. present \in SUBSET Nat
    BY SlicesAssumption
  <2>2. PICK i \in present : \A j \in present : ~(<<j, i>> \in OpToRel(<, Nat))
    <3> HIDE DEF present
    <3> QED  BY <1>2, <2>1, WFMin, NatLessThanWellFounded
  <2>3. \A j \in present : i <= j
    <3> HIDE DEF present
    <3>1. \A j \in present : ~(j < i)
      BY <2>1, <2>2 DEF OpToRel
    <3> QED  BY <2>1, <3>1
  <2>4. (CHOOSE k \in present : \A j \in present : k <= j) \in present
    <3> HIDE DEF present
    <3> QED  BY <2>3
  <2> QED  BY <1>2, <2>4 DEF Smallest, Range
<1> QED  BY <1>1, <1>2

\* The process holds requests only.
LEMMA HoldingRequests ==
  ASSUME TypeOK
  PROVE  /\ Holding \subseteq Requests
         /\ \A i \in DOMAIN processChannel : processChannel[i] \in Groups
         /\ \A g \in Range(processChannel) : g \in Groups
<1>1. processChannel \in Seq(Groups)
  BY Typed
<1>2. \A i \in DOMAIN processChannel : processChannel[i] \in Groups
  BY <1>1
<1>3. \A g \in Range(processChannel) : g \in Groups
  BY <1>2 DEF Range
<1>4. \A g \in Seq(Requests) : Range(g) \subseteq Requests
  BY RangeOfSeq
<1>5. \A m \in Names : Range(modelGroups[m]) \subseteq Requests
  BY <1>4, Typed
<1>6. \A g \in Range(processChannel) : Range(g) \subseteq Requests
  BY <1>3, <1>4 DEF Groups
<1>7. \A s \in senders : Range(s.todo) \subseteq Requests
  BY <1>4, Typed DEF Senders, Groups
<1>8. Range(requestChannel) \subseteq Requests /\ Range(worker) \subseteq Requests
  BY <1>4, Typed
<1>9. Range(processor.group) \subseteq Requests
  BY <1>4, Typed DEF Processors
<1> QED  BY <1>2, <1>3, <1>5, <1>6, <1>7, <1>8, <1>9 DEF Holding

\* A request the process holds is taken and valid, and has not been posted.
LEMMA HeldIsValid ==
  ASSUME IInv, NEW r \in Holding
  PROVE  /\ r \in Requests /\ r \in taken /\ r \notin lost /\ posts[r] = 0 /\ reached[r] = NoId
         /\ Id[r] \in Ids /\ Name[Id[r]] \in Names
<1>1. r \in Requests
  BY HoldingRequests DEF IInv
<1>2. r \in taken /\ r \notin lost /\ posts[r] = 0
  BY <1>1 DEF IInv, HeldUntilPosted
<1>3. Id[r] # NoId /\ reached[r] = NoId
  BY <1>1, <1>2 DEF IInv, Lifecycle
<1> QED  BY <1>1, <1>2, <1>3, NamesAssumption

\* The first request of a group names the service of the group.
LEMMA GroupName ==
  ASSUME NEW g \in Groups
  PROVE  g[1] \in Range(g) /\ g[1] \in Requests
<1>1. g \in Seq(Requests) /\ g # <<>>
  BY DEF Groups
<1>2. 1 \in DOMAIN g /\ g[1] = Head(g) /\ Head(g) \in Requests
  BY <1>1, RangeHeadTail
<1> QED  BY <1>2 DEF Range

\* What the processor works on.
LEMMA GroupAtHand ==
  ASSUME IInv, processor.at # "idle"
  PROVE  /\ processor.group \in Groups /\ ServiceName(processor.group) \in Names
         /\ Id[processor.group[1]] \in Ids
         /\ \A r \in Range(processor.group) : r \in Requests /\ Name[Id[r]] = ServiceName(processor.group)
<1>1. processor.group \in Groups
  BY Typed DEF IInv, Processors, Groups
<1>2. processor.group[1] \in Range(processor.group)
  BY <1>1, GroupName
<1>3. Range(processor.group) \subseteq Holding
  BY DEF Holding
<1>4. Id[processor.group[1]] \in Ids /\ ServiceName(processor.group) \in Names
  BY <1>2, <1>3, HeldIsValid DEF ServiceName
<1>5. \A r \in Range(processor.group) : r \in Requests /\ Name[Id[r]] = ServiceName(processor.group)
  BY <1>3, HeldIsValid DEF IInv, GroupsOfOneName, OfModel
<1> QED  BY <1>1, <1>4, <1>5

-----------------------------------------------------------------------------
(* What the steps move *)

\* A handler hands its request over.
LEMMA EnqueueMoves ==
  ASSUME TypeOK, NEW r \in Requests, Enqueue(r)
  PROVE  /\ requestChannel' \in Seq(Requests) /\ Len(requestChannel') <= ChannelSize
         /\ Range(requestChannel') = Range(requestChannel) \cup {r}
<1>1. requestChannel \in Seq(Requests) /\ requestChannel' = Append(requestChannel, r)
      /\ Len(requestChannel) < ChannelSize
  BY Typed DEF Enqueue
<1>2. Len(requestChannel) + 1 <= ChannelSize
  BY <1>1, SizesAssumption
<1> QED  BY <1>1, <1>2, RangeAppend

\* The worker moves a request into its group, and a full group on.
LEMMA GroupMoves ==
  ASSUME IInv, GroupRequest
  PROVE  \E r \in Requests : LET m == Name[Id[r]] IN
         /\ m \in Names /\ worker = <<>>
         /\ Range(requestChannel) = {r} \cup Range(requestChannel') /\ r \notin Range(requestChannel')
         /\ requestChannel' \in Seq(Requests) /\ Len(requestChannel') <= ChannelSize /\ IsInjective(requestChannel')
         /\ \E group \in Groups :
               /\ Range(group) = Range(modelGroups[m]) \cup {r} /\ IsInjective(group)
               /\ \/ worker' = group /\ modelGroups' = [modelGroups EXCEPT ![m] = <<>>]
                  \/ worker' = <<>> /\ modelGroups' = [modelGroups EXCEPT ![m] = group]
<1>1. /\ worker = <<>> /\ requestChannel # <<>> /\ requestChannel \in Seq(Requests)
      /\ Len(requestChannel) <= ChannelSize /\ requestChannel' = Tail(requestChannel)
      /\ IsInjective(requestChannel)
  BY Typed DEF GroupRequest, IInv, HeldOnce
<1> DEFINE r == Head(requestChannel)
           m == Name[Id[r]]
           group == Append(modelGroups[m], r)
<1>2. /\ r \in Requests /\ Range(requestChannel) = {r} \cup Range(requestChannel')
      /\ requestChannel' \in Seq(Requests) /\ Len(requestChannel') = Len(requestChannel) - 1
  BY <1>1, RangeHeadTail
<1>3. Len(requestChannel') <= ChannelSize
  BY <1>1, <1>2, SizesAssumption
<1>4. IsInjective(requestChannel') /\ r \notin Range(requestChannel')
  BY <1>1, InjectiveTail
<1>5. r \in Range(requestChannel) /\ r \in Holding
  BY <1>2 DEF Holding
<1>6. m \in Names
  BY <1>5, HeldIsValid
<1>7. r \notin Range(modelGroups[m])
  <2>1. HeldBy[1] \cap HeldBy[2] = {}
    <3>1. 1 \in DOMAIN HeldBy /\ 2 \in DOMAIN HeldBy
      BY DEF HeldBy
    <3> QED  BY <3>1 DEF IInv, HeldOnce
  <2> QED  BY <1>5, <1>6, <2>1 DEF HeldBy
<1>8. modelGroups[m] \in Seq(Requests) /\ IsInjective(modelGroups[m])
  BY <1>6, Typed DEF IInv, HeldOnce
<1> HIDE DEF r, m
<1>9. /\ group \in Groups /\ Range(group) = Range(modelGroups[m]) \cup {r} /\ IsInjective(group)
  BY <1>2, <1>7, <1>8, RangeAppend, InjectiveAppend DEF Groups
<1>10. \/ worker' = group /\ modelGroups' = [modelGroups EXCEPT ![m] = <<>>]
       \/ worker' = <<>> /\ modelGroups' = [modelGroups EXCEPT ![m] = group]
  BY DEF GroupRequest, r, m
<1> HIDE DEF group
<1>11. m = Name[Id[r]]
  BY DEF m
<1> QED  BY <1>1, <1>2, <1>3, <1>4, <1>6, <1>9, <1>10, <1>11

\* The processor receives the oldest group.
LEMMA TakeMoves ==
  ASSUME IInv, TakeGroup
  PROVE  LET g == processor'.group
         IN  /\ g \in Groups /\ processor.group = <<>>
             /\ processor' \in Processors /\ processor'.at = "decide"
             /\ processChannel' \in Seq(Groups) /\ Len(processChannel') <= ChannelSize
             /\ 1 \in DOMAIN processChannel /\ processChannel[1] = g
             /\ \A i \in DOMAIN processChannel' :
                   i + 1 \in DOMAIN processChannel /\ i + 1 # 1 /\ processChannel'[i] = processChannel[i + 1]
             /\ \A i, j \in DOMAIN processChannel' : i # j => i + 1 # j + 1
             /\ Range(processChannel) = {g} \cup Range(processChannel')
<1>1. /\ processor.at = "idle" /\ processChannel # <<>> /\ processChannel \in Seq(Groups)
      /\ Len(processChannel) <= ChannelSize /\ processChannel' = Tail(processChannel)
      /\ processor' = [IdleProcessor EXCEPT !.at = "decide", !.group = Head(processChannel)]
  BY Typed DEF TakeGroup, IInv
<1>2. /\ Head(processChannel) \in Groups /\ Tail(processChannel) \in Seq(Groups)
      /\ Len(Tail(processChannel)) = Len(processChannel) - 1
      /\ Head(processChannel) = processChannel[1] /\ 1 \in DOMAIN processChannel
      /\ \A i \in DOMAIN Tail(processChannel) :
            i + 1 \in DOMAIN processChannel /\ Tail(processChannel)[i] = processChannel[i + 1] /\ i # 0
      /\ Range(processChannel) = {Head(processChannel)} \cup Range(Tail(processChannel))
  BY <1>1, RangeHeadTail
<1>3. Len(processChannel') <= ChannelSize
  BY <1>1, <1>2, SizesAssumption
<1>4. processor' \in Processors /\ processor'.at = "decide" /\ processor'.group = Head(processChannel)
  BY <1>1, <1>2 DEF Processors, IdleProcessor, Groups
<1>5. processor.group = <<>>
  BY <1>1, Typed DEF IInv
<1>6. \A i \in DOMAIN processChannel' : i \in Nat
  BY <1>1, <1>2
<1>7. \A i, j \in DOMAIN processChannel' : i + 1 = j + 1 => i = j
  BY <1>6
<1>8. \A i \in DOMAIN processChannel' : i # 0 => i + 1 # 1
  BY <1>6
<1> QED  BY <1>1, <1>2, <1>3, <1>4, <1>5, <1>7, <1>8

\* A full group goes to the end of the channel to the processor.
LEMMA SendMoves ==
  ASSUME IInv, SendGroup
  PROVE  /\ worker \in Groups /\ worker' = <<>>
         /\ processChannel' \in Seq(Groups) /\ Len(processChannel') <= ChannelSize
         /\ Range(processChannel') = Range(processChannel) \cup {worker}
         /\ \A i \in DOMAIN processChannel' :
               (i \in DOMAIN processChannel /\ processChannel'[i] = processChannel[i])
               \/ (i = Len(processChannel) + 1 /\ processChannel'[i] = worker)
<1>1. /\ worker # <<>> /\ worker \in Seq(Requests) /\ Len(processChannel) < ChannelSize
      /\ processChannel \in Seq(Groups) /\ processChannel' = Append(processChannel, worker) /\ worker' = <<>>
  BY Typed DEF SendGroup, IInv
<1>2. worker \in Groups
  BY <1>1 DEF Groups
<1>3. Len(processChannel) + 1 <= ChannelSize
  BY <1>1, SizesAssumption
<1>4. /\ processChannel' \in Seq(Groups) /\ Len(processChannel') = Len(processChannel) + 1
      /\ \A i \in 1..Len(processChannel) : processChannel'[i] = processChannel[i]
      /\ processChannel'[Len(processChannel) + 1] = worker
  BY <1>1, <1>2, AppendProperties
<1>5. \A i \in DOMAIN processChannel' : i \in 1..Len(processChannel) \/ i = Len(processChannel) + 1
  BY <1>1, <1>4
<1> QED  BY <1>1, <1>2, <1>3, <1>4, <1>5, RangeAppend

-----------------------------------------------------------------------------
(* The steps keep the invariant, one part of it at a time *)

\* The processor hands its group to goroutines, one for each request or one for all.
LEMMA AssignMoves ==
  ASSUME IInv, AssignService
  PROVE  \E name \in Names :
           /\ name = ServiceName(processor.group) /\ processor.group \in Groups
           /\ processor' \in Processors /\ (processor'.at = "idle" <=> processor'.group = <<>>)
           /\ \/ processor'.group = processor.group /\ senders' = senders
              \/ /\ processor'.group = <<>>
                 /\ senders' = senders \cup {Sender(name, <<r>>, FALSE) : r \in Range(processor.group)}
                 /\ \A r \in Range(processor.group) : Sender(name, <<r>>, FALSE) \in Senders
<1>1. /\ processor.at = "assign" /\ processor.group \in Groups /\ ServiceName(processor.group) \in Names
      /\ \A r \in Range(processor.group) : r \in Requests
  BY GroupAtHand DEF AssignService
<1>2. processor \in Processors
  BY Typed DEF IInv
<1>3. \A r \in Range(processor.group) : Sender(ServiceName(processor.group), <<r>>, FALSE) \in Senders
  <2> SUFFICES ASSUME NEW r \in Range(processor.group)
               PROVE  Sender(ServiceName(processor.group), <<r>>, FALSE) \in Senders
    OBVIOUS
  <2>1. <<r>> \in Groups
    <3>1. r \in Requests /\ <<r>> \in Seq(Requests)
      BY <1>1
    <3> QED  BY <3>1, Single DEF Groups
  <2> QED  BY <1>1, <2>1 DEF Sender, Senders
<1>4. CASE service[ServiceName(processor.group)].state # "absent"
  <2>1. processor' = IdleProcessor
        /\ senders' = senders \cup {Sender(ServiceName(processor.group), <<r>>, FALSE) : r \in Range(processor.group)}
    BY <1>4 DEF AssignService
  <2>2. processor' \in Processors /\ processor'.at = "idle" /\ processor'.group = <<>>
    BY <2>1 DEF IdleProcessor, Processors
  <2> QED  BY <1>1, <1>3, <2>1, <2>2
<1>5. CASE service[ServiceName(processor.group)].state = "absent"
  <2>1. processor' = [processor EXCEPT !.at = "create"] /\ senders' = senders
    BY <1>5 DEF AssignService
  <2>2. processor' \in Processors /\ processor'.at = "create" /\ processor'.group = processor.group
    BY <1>2, <2>1 DEF Processors
  <2>3. processor.group # <<>>
    BY <1>1 DEF Groups
  <2> QED  BY <1>1, <2>1, <2>2, <2>3
<1> QED  BY <1>4, <1>5

LEMMA CreateMoves ==
  ASSUME IInv, CreateNewService
  PROVE  \E name \in Names, id \in Ids :
           /\ name = ServiceName(processor.group) /\ processor.group \in Groups /\ id = Id[processor.group[1]]
           /\ processor'.group = <<>> /\ processor' \in Processors /\ processor'.at = "idle"
           /\ service' = [service EXCEPT ![name] = [state |-> "starting", id |-> id]]
           /\ senders' = senders \cup {Sender(name, processor.group, TRUE)}
           /\ Sender(name, processor.group, TRUE) \in Senders
<1>1. /\ processor.group \in Groups /\ ServiceName(processor.group) \in Names /\ Id[processor.group[1]] \in Ids
  BY GroupAtHand DEF CreateNewService
<1>2. processor' = IdleProcessor
  BY DEF CreateNewService
<1>3. processor' \in Processors /\ processor'.at = "idle" /\ processor'.group = <<>>
  BY <1>2 DEF IdleProcessor, Processors
<1> QED  BY <1>1, <1>2, <1>3 DEF CreateNewService, Sender, Senders

\* A goroutine posts the first of its requests.
LEMMA ForwardMoves ==
  ASSUME IInv, NEW s \in senders, ForwardRequest(s)
  PROVE  \E r \in Requests :
           /\ s \in Senders /\ r \in Range(s.todo) /\ r \in Holding
           /\ posts' = [posts EXCEPT ![r] = 1]
           /\ \/ reached' = reached
              \/ service[s.name].state = "ready" /\ reached' = [reached EXCEPT ![r] = service[s.name].id]
           /\ \E rest \in Seq(Requests) :
                 /\ Range(s.todo) = {r} \cup Range(rest) /\ r \notin Range(rest) /\ IsInjective(rest)
                 /\ \/ rest = <<>> /\ senders' = senders \ {s}
                    \/ rest # <<>> /\ senders' = (senders \ {s}) \cup {[s EXCEPT !.todo = rest]}
<1>1. s \in Senders /\ s.todo \in Seq(Requests) /\ s.todo # <<>> /\ IsInjective(s.todo)
  BY Typed DEF IInv, HeldOnce, Senders, Groups
<1> DEFINE r == Head(s.todo)
           rest == Tail(s.todo)
<1>2. r \in Requests /\ rest \in Seq(Requests) /\ Range(s.todo) = {r} \cup Range(rest)
  BY <1>1, RangeHeadTail
<1>3. r \notin Range(rest) /\ IsInjective(rest)
  BY <1>1, InjectiveTail
<1>4. r \in Holding
  BY <1>2 DEF Holding
<1>5. posts[r] = 0
  BY <1>4, HeldIsValid
<1>6. /\ posts' = [posts EXCEPT ![r] = @ + 1]
      /\ \/ reached' = reached
         \/ service[s.name].state = "ready" /\ reached' = [reached EXCEPT ![r] = service[s.name].id]
      /\ senders' = (senders \ {s}) \cup (IF rest = <<>> THEN {} ELSE {[s EXCEPT !.todo = rest]})
  BY DEF ForwardRequest
<1> HIDE DEF r, rest
<1>7. posts' = [posts EXCEPT ![r] = 1]
  BY <1>5, <1>6
<1> QED  BY <1>1, <1>2, <1>3, <1>4, <1>6, <1>7

\* Every step keeps the types.
LEMMA TypePreserved == IInv /\ [Next]_vars => TypeOK'
<1> SUFFICES ASSUME IInv, [Next]_vars PROVE TypeOK'
  OBVIOUS
<1>0. /\ http \in [Requests -> States] /\ requestChannel \in Seq(Requests)
      /\ modelGroups \in [Names -> Seq(Requests)] /\ worker \in Seq(Requests)
      /\ processor \in Processors /\ (processor.at = "idle" <=> processor.group = <<>>)
      /\ senders \subseteq Senders /\ service \in [Names -> Services]
      /\ posts \in [Requests -> Nat] /\ reached \in [Requests -> Ids \cup {NoId}]
      /\ restarts \in 0..MaxRestarts /\ TypeOK
  BY Typed DEF IInv
<1> USE DEF memory, cluster
<1>1. ASSUME NEW r \in Requests, ParseRequest(r) \/ Acknowledge(r) PROVE TypeOK'
  <2>1. http' \in [Requests -> States]
    BY <1>0, <1>1 DEF ParseRequest, Acknowledge, States
  <2> QED  BY <1>0, <1>1, <2>1
    DEF ParseRequest, Acknowledge, TypeOK, States, Processors, Services, Senders, Groups
<1>2. ASSUME NEW r \in Requests, Enqueue(r) PROVE TypeOK'
  <2>1. http' \in [Requests -> States] /\ taken' \subseteq Requests
    BY <1>0, <1>2 DEF Enqueue, States, TypeOK
  <2>2. requestChannel' \in Seq(Requests) /\ Len(requestChannel') <= ChannelSize
    BY <1>0, <1>2, EnqueueMoves
  <2> QED  BY <1>0, <1>2, <2>1, <2>2
    DEF Enqueue, TypeOK, States, Processors, Services, Senders, Groups
<1>3. CASE GroupRequest
  <2>1. PICK r \in Requests :
          /\ requestChannel' \in Seq(Requests) /\ Len(requestChannel') <= ChannelSize
          /\ \E group \in Groups :
               \/ worker' = group /\ modelGroups' = [modelGroups EXCEPT ![Name[Id[r]]] = <<>>]
               \/ worker' = <<>> /\ modelGroups' = [modelGroups EXCEPT ![Name[Id[r]]] = group]
    BY <1>3, GroupMoves
  <2>2. worker' \in Seq(Requests) /\ modelGroups' \in [Names -> Seq(Requests)]
    <3>1. PICK group \in Groups :
             \/ worker' = group /\ modelGroups' = [modelGroups EXCEPT ![Name[Id[r]]] = <<>>]
             \/ worker' = <<>> /\ modelGroups' = [modelGroups EXCEPT ![Name[Id[r]]] = group]
      BY <2>1
    <3>2. group \in Seq(Requests) /\ <<>> \in Seq(Requests)
      BY DEF Groups
    <3> QED  BY <1>0, <3>1, <3>2
  <2> QED  BY <1>0, <1>3, <2>1, <2>2
    DEF GroupRequest, TypeOK, States, Processors, Services, Senders, Groups
<1>4. CASE SendGroup
  <2>1. processChannel' \in Seq(Groups) /\ Len(processChannel') <= ChannelSize /\ worker' = <<>>
    BY <1>4, SendMoves
  <2>2. worker' \in Seq(Requests)
    BY <2>1
  <2> QED  BY <1>0, <1>4, <2>1, <2>2
    DEF SendGroup, Groups, TypeOK, States, Processors, Services, Senders
<1>5. CASE TakeGroup
  <2>1. /\ processChannel' \in Seq(Groups) /\ Len(processChannel') <= ChannelSize
        /\ processor' \in Processors /\ processor'.at = "decide" /\ processor'.group \in Groups
    BY <1>5, TakeMoves
  <2>2. processor'.group # <<>>
    BY <2>1 DEF Groups
  <2> QED  BY <1>0, <1>5, <2>1, <2>2
    DEF TakeGroup, ProcessorOnly, Groups, TypeOK, States, Processors, Services, Senders
<1>6. CASE DecideService
  <2>1. processor' \in Processors /\ processor'.at = "assign" /\ processor'.group = processor.group
    BY <1>0, <1>6, SmallestType DEF DecideService, Processors
  <2>2. processor.group # <<>>
    BY <1>0, <1>6 DEF DecideService
  <2> QED  BY <1>0, <1>6, <2>1, <2>2
    DEF DecideService, ProcessorOnly, TypeOK, States, Processors, Services, Senders, Groups
<1>7. CASE AssignService
  <2>1. processor' \in Processors /\ (processor'.at = "idle" <=> processor'.group = <<>>)
    BY <1>7, AssignMoves
  <2>2. senders' \subseteq Senders
    <3>1. PICK name \in Names :
             \/ senders' = senders
             \/ /\ senders' = senders \cup {Sender(name, <<r>>, FALSE) : r \in Range(processor.group)}
                /\ \A r \in Range(processor.group) : Sender(name, <<r>>, FALSE) \in Senders
      BY <1>7, AssignMoves
    <3>2. \A s \in senders' : \/ s \in senders
                              \/ \E r \in Range(processor.group) : s = Sender(name, <<r>>, FALSE) /\ s \in Senders
      BY <3>1
    <3> QED  BY <1>0, <3>2
  <2> QED  BY <1>0, <1>7, <2>1, <2>2
    DEF AssignService, ProcessorOnly, Senders, Groups, TypeOK, States, Processors, Services
<1>8. CASE CreateNewService
  <2>1. /\ processor' \in Processors /\ processor'.at = "idle" /\ processor'.group = <<>>
        /\ senders' \subseteq Senders
    BY <1>0, <1>8, CreateMoves
  <2>2. service' \in [Names -> Services]
    <3>1. PICK name \in Names, id \in Ids : service' = [service EXCEPT ![name] = [state |-> "starting", id |-> id]]
      BY <1>8, CreateMoves
    <3>2. [state |-> "starting", id |-> id] \in Services
      BY DEF Services
    <3> QED  BY <1>0, <3>1, <3>2
  <2> QED  BY <1>0, <1>8, <2>1, <2>2
    DEF CreateNewService, Senders, Groups, TypeOK, States, Processors, Services
<1>9. CASE Lose /\ restarts' \in 0..MaxRestarts
  BY <1>0, <1>9, LoseTyped, HoldingRequests
<1>10. CASE ProcessorDies \/ (\E s \in senders : PollDies(s)) \/ Die
  <2>1. restarts' \in 0..MaxRestarts
    BY <1>0, <1>10, SizesAssumption DEF cluster, ProcessorDies, PollDies, Die
  <2>2. Lose
    BY <1>10 DEF ProcessorDies, PollDies, Die
  <2> QED  BY <1>9, <2>1, <2>2
<1>11. ASSUME NEW s \in senders, SeesReady(s) PROVE TypeOK'
  <2>1. s \in Senders /\ [s EXCEPT !.waits = FALSE] \in Senders
    BY <1>0 DEF Senders
  <2>2. senders' \subseteq Senders
    BY <1>0, <1>11, <2>1 DEF SeesReady
  <2> QED  BY <1>0, <1>11, <2>2
    DEF SeesReady, Senders, Groups, TypeOK, States, Processors, Services
<1>12. ASSUME NEW s \in senders, ForwardRequest(s) PROVE TypeOK'
  <2>1. PICK r \in Requests :
          /\ posts' = [posts EXCEPT ![r] = 1]
          /\ reached' = reached \/ reached' = [reached EXCEPT ![r] = service[s.name].id]
          /\ \E rest \in Seq(Requests) :
               \/ rest = <<>> /\ senders' = senders \ {s}
               \/ rest # <<>> /\ senders' = (senders \ {s}) \cup {[s EXCEPT !.todo = rest]}
    BY <1>12, ForwardMoves
  <2>2. s \in Senders /\ service[s.name] \in Services
    BY <1>0 DEF Senders, Services
  <2>3. senders' \subseteq Senders
    <3>1. \A rest \in Seq(Requests) : rest # <<>> => [s EXCEPT !.todo = rest] \in Senders
      BY <2>2 DEF Senders, Groups
    <3> QED  BY <1>0, <2>1, <3>1
  <2>4. posts' \in [Requests -> Nat] /\ reached' \in [Requests -> Ids \cup {NoId}]
    BY <1>0, <2>1, <2>2 DEF Services
  <2> QED  BY <1>0, <1>12, <2>3, <2>4
    DEF ForwardRequest, Senders, Groups, TypeOK, States, Processors, Services
<1>13. ASSUME NEW m \in Names, ServiceReady(m) \/ ServiceDeleted(m) PROVE TypeOK'
  <2>1. service' \in [Names -> Services]
    <3>1. service' = [service EXCEPT ![m].state = "ready"] \/ service' = [service EXCEPT ![m] = [state |-> "absent", id |-> NoId]]
      BY <1>13 DEF ServiceReady, ServiceDeleted
    <3>2. [state |-> "absent", id |-> NoId] \in Services /\ [service[m] EXCEPT !.state = "ready"] \in Services
      BY <1>0 DEF Services
    <3> QED  BY <1>0, <3>1, <3>2
  <2> QED  BY <1>0, <1>13, <2>1
    DEF ServiceReady, ServiceDeleted, TypeOK, States, Processors, Services, Senders, Groups
<1>14. CASE Repartition
  BY <1>0, <1>14 DEF Repartition, TypeOK
<1>15. CASE UNCHANGED vars
  BY <1>0, <1>15 DEF vars, TypeOK
<1> QED
  BY <1>1, <1>2, <1>3, <1>4, <1>5, <1>6, <1>7, <1>8, <1>10, <1>11, <1>12, <1>13, <1>14, <1>15
  DEF Next, Handler, Worker, Processor, Posting

\* A death of the process, whoever causes it.
Dies == ProcessorDies \/ (\E s \in senders : PollDies(s)) \/ Die

LEMMA DiesLoses ==
  ASSUME Dies
  PROVE  Lose
  BY DEF Dies, ProcessorDies, PollDies, Die

\* The life of a request goes forward.
LEMMA LifecyclePreserved == IInv /\ [Next]_vars => Lifecycle'
<1> SUFFICES ASSUME IInv, [Next]_vars PROVE Lifecycle'
  OBVIOUS
<1>0. /\ Lifecycle /\ http \in [Requests -> States]
      /\ posts \in [Requests -> Nat] /\ reached \in [Requests -> Ids \cup {NoId}]
  BY Typed DEF IInv
<1>1. ASSUME NEW r \in Requests, ParseRequest(r) PROVE Lifecycle'
  <2>1. /\ http[r] = "new" /\ http' = [http EXCEPT ![r] = IF Id[r] = NoId THEN "rejected" ELSE "sending"]
        /\ UNCHANGED <<taken, lost, posts, reached>>
    BY <1>1 DEF ParseRequest, cluster
  <2>2. r \notin taken
    BY <1>0, <2>1 DEF Lifecycle
  <2> QED  BY <1>0, <2>1, <2>2 DEF Lifecycle
<1>2. ASSUME NEW r \in Requests, Enqueue(r) PROVE Lifecycle'
  <2>1. /\ http[r] = "sending" /\ http' = [http EXCEPT ![r] = "acking"] /\ taken' = taken \cup {r}
        /\ UNCHANGED <<lost, posts, reached>>
    BY <1>2 DEF Enqueue, cluster
  <2>2. r \notin taken /\ r \notin lost
    BY <1>0, <2>1 DEF Lifecycle
  <2> QED  BY <1>0, <2>1, <2>2 DEF Lifecycle
<1>3. ASSUME NEW r \in Requests, Acknowledge(r) PROVE Lifecycle'
  <2>1. /\ http[r] = "acking" /\ http' = [http EXCEPT ![r] = "accepted"]
        /\ UNCHANGED <<taken, lost, posts, reached>>
    BY <1>3 DEF Acknowledge, cluster
  <2> QED  BY <1>0, <2>1 DEF Lifecycle
<1>4. CASE Dies
  <2>1. /\ http' = [r \in Requests |-> IF http[r] \in {"sending", "acking"} THEN "broken" ELSE http[r]]
        /\ lost' = lost \cup Holding /\ UNCHANGED <<taken, posts, reached>>
    BY <1>4, DiesLoses DEF Lose, cluster
  <2>2. \A r \in Requests : r \in Holding => r \in taken
    BY HeldIsValid
  <2> QED  BY <1>0, <2>1, <2>2 DEF Lifecycle
<1>5. ASSUME NEW s \in senders, ForwardRequest(s) PROVE Lifecycle'
  <2>1. UNCHANGED <<http, taken, lost>>
    BY <1>5 DEF ForwardRequest
  <2>2. PICK r \in Requests :
          /\ r \in Holding
          /\ posts' = [posts EXCEPT ![r] = 1]
          /\ reached' = reached \/ reached' = [reached EXCEPT ![r] = service[s.name].id]
    BY <1>5, ForwardMoves
  <2>3. r \in taken
    BY <2>2, HeldIsValid
  <2> QED  BY <1>0, <2>1, <2>2, <2>3 DEF Lifecycle
<1>6. ASSUME UNCHANGED <<http, taken, lost, posts, reached>> PROVE Lifecycle'
  BY <1>0, <1>6 DEF Lifecycle
<1>7. CASE GroupRequest \/ SendGroup \/ TakeGroup \/ DecideService \/ AssignService
  BY <1>6, <1>7 DEF GroupRequest, SendGroup, TakeGroup, DecideService, AssignService, ProcessorOnly, cluster
<1>8. CASE CreateNewService \/ (\E s \in senders : SeesReady(s))
  BY <1>6, <1>8 DEF CreateNewService, SeesReady, cluster
<1>9. CASE (\E m \in Names : ServiceReady(m) \/ ServiceDeleted(m)) \/ Repartition \/ UNCHANGED vars
  BY <1>6, <1>9 DEF ServiceReady, ServiceDeleted, Repartition, vars, cluster
<1> QED
  BY <1>1, <1>2, <1>3, <1>4, <1>5, <1>7, <1>8, <1>9
  DEF Next, Handler, Worker, Processor, Posting, Dies

\* Groups and goroutines stay of one service name, and what reaches a service has it.
LEMMA NamesPreserved == IInv /\ [Next]_vars => GroupsOfOneName' /\ ServedByNamesake'
<1> SUFFICES ASSUME IInv, [Next]_vars PROVE GroupsOfOneName' /\ ServedByNamesake'
  OBVIOUS
<1>0. /\ GroupsOfOneName /\ ServedByNamesake
      /\ modelGroups \in [Names -> Seq(Requests)] /\ service \in [Names -> Services]
      /\ reached \in [Requests -> Ids \cup {NoId}] /\ senders \subseteq Senders
  BY Typed DEF IInv
<1>1. ASSUME UNCHANGED <<modelGroups, worker, processChannel, processor, senders, service, reached>>
      PROVE  GroupsOfOneName' /\ ServedByNamesake'
  BY <1>0, <1>1 DEF GroupsOfOneName, ServedByNamesake, OfModel, ServiceName
<1>2. CASE \E r \in Requests : Handler(r)
  BY <1>1, <1>2 DEF Handler, ParseRequest, Enqueue, Acknowledge, memory, cluster
<1>3. CASE GroupRequest
  <2>1. PICK r \in Requests, group \in Groups :
          /\ Name[Id[r]] \in Names
          /\ Range(group) = Range(modelGroups[Name[Id[r]]]) \cup {r}
          /\ \/ worker' = group /\ modelGroups' = [modelGroups EXCEPT ![Name[Id[r]]] = <<>>]
             \/ worker' = <<>> /\ modelGroups' = [modelGroups EXCEPT ![Name[Id[r]]] = group]
    BY <1>3, GroupMoves
  <2>2. UNCHANGED <<processChannel, processor, senders, service, reached>>
    BY <1>3 DEF GroupRequest, cluster
  <2>3. OfModel(Name[Id[r]], group)
    BY <1>0, <2>1 DEF GroupsOfOneName, OfModel
  <2>4. ServiceName(group) = Name[Id[r]]
    BY <2>3, GroupName DEF OfModel, ServiceName
  <2>5. \A m \in Names : OfModel(m, modelGroups'[m])
    BY <1>0, <2>1, <2>3, Empty DEF GroupsOfOneName, OfModel
  <2>6. \A q \in Range(worker') : Name[Id[q]] = Name[Id[worker'[1]]]
    BY <2>1, <2>3, <2>4, Empty DEF OfModel, ServiceName
  <2> QED  BY <1>0, <2>2, <2>5, <2>6 DEF GroupsOfOneName, ServedByNamesake, OfModel, ServiceName
<1>4. CASE SendGroup
  <2>1. /\ worker' = <<>>
        /\ \A i \in DOMAIN processChannel' :
             (i \in DOMAIN processChannel /\ processChannel'[i] = processChannel[i]) \/ processChannel'[i] = worker
    BY <1>4, SendMoves
  <2>2. UNCHANGED <<modelGroups, processor, senders, service, reached>>
    BY <1>4 DEF SendGroup, cluster
  <2> QED  BY <1>0, <2>1, <2>2, Empty DEF GroupsOfOneName, ServedByNamesake, OfModel, ServiceName
<1>5. CASE TakeGroup
  <2>1. /\ 1 \in DOMAIN processChannel /\ processChannel[1] = processor'.group
        /\ \A i \in DOMAIN processChannel' :
              i + 1 \in DOMAIN processChannel /\ processChannel'[i] = processChannel[i + 1]
    BY <1>5, TakeMoves
  <2>2. UNCHANGED <<modelGroups, worker, senders, service, reached>>
    BY <1>5 DEF TakeGroup, ProcessorOnly, cluster
  <2> QED  BY <1>0, <2>1, <2>2 DEF GroupsOfOneName, ServedByNamesake, OfModel, ServiceName
<1>6. CASE DecideService
  <2>1. processor'.group = processor.group
    BY <1>6, Typed DEF DecideService, IInv, Processors
  <2>2. UNCHANGED <<modelGroups, worker, processChannel, senders, service, reached>>
    BY <1>6 DEF DecideService, ProcessorOnly, cluster
  <2> QED  BY <1>0, <2>1, <2>2 DEF GroupsOfOneName, ServedByNamesake, OfModel, ServiceName
<1>7. CASE AssignService
  <2>1. PICK name \in Names :
          /\ name = ServiceName(processor.group)
          /\ \/ processor'.group = processor.group /\ senders' = senders
             \/ /\ processor'.group = <<>>
                /\ senders' = senders \cup {Sender(name, <<r>>, FALSE) : r \in Range(processor.group)}
    BY <1>7, AssignMoves
  <2>2. \A s \in senders' : \/ s \in senders
                            \/ \E r \in Range(processor.group) : s.name = name /\ s.todo = <<r>>
    BY <2>1 DEF Sender
  <2>3. \A r \in Range(processor.group) : Name[Id[r]] = name
    BY <1>0, <2>1 DEF GroupsOfOneName, OfModel
  <2>4. \A s \in senders' : OfModel(s.name, s.todo)
    <3>1. \A r \in Range(processor.group) : OfModel(name, <<r>>)
      BY <2>3, Single DEF OfModel
    <3> QED  BY <1>0, <2>2, <3>1 DEF GroupsOfOneName
  <2>5. UNCHANGED <<modelGroups, worker, processChannel, service, reached>>
    BY <1>7 DEF AssignService, ProcessorOnly, cluster
  <2>6. OfModel(ServiceName(processor.group)', processor'.group)
    BY <1>0, <2>1, Empty DEF GroupsOfOneName, OfModel, ServiceName
  <2> QED  BY <1>0, <2>4, <2>5, <2>6 DEF GroupsOfOneName, ServedByNamesake, OfModel, ServiceName
<1>8. CASE CreateNewService
  <2>1. PICK name \in Names, id \in Ids :
          /\ name = ServiceName(processor.group) /\ id = Id[processor.group[1]]
          /\ processor'.group = <<>>
          /\ service' = [service EXCEPT ![name] = [state |-> "starting", id |-> id]]
          /\ senders' = senders \cup {Sender(name, processor.group, TRUE)}
    BY <1>8, CreateMoves
  <2>2. Name[id] = name
    BY <2>1 DEF ServiceName
  <2>3. \A m \in Names : service'[m].state # "absent" => service'[m].id \in Ids /\ Name[service'[m].id] = m
    BY <1>0, <2>1, <2>2 DEF GroupsOfOneName
  <2>4. \A s \in senders' : OfModel(s.name, s.todo)
    BY <1>0, <2>1 DEF GroupsOfOneName, OfModel, Sender
  <2>5. UNCHANGED <<modelGroups, worker, processChannel, reached>>
    BY <1>8 DEF CreateNewService
  <2>6. OfModel(ServiceName(processor.group)', processor'.group)
    BY <2>1, Empty DEF OfModel
  <2> QED  BY <1>0, <2>3, <2>4, <2>5, <2>6 DEF GroupsOfOneName, ServedByNamesake, OfModel, ServiceName
<1>9. CASE Dies
  <2>1. /\ modelGroups' = [m \in Names |-> <<>>] /\ worker' = <<>> /\ processChannel' = <<>>
        /\ processor'.group = <<>> /\ senders' = {} /\ UNCHANGED <<service, reached>>
    BY <1>9, DiesLoses DEF Lose, IdleProcessor, cluster
  <2> QED  BY <1>0, <2>1, Empty DEF GroupsOfOneName, ServedByNamesake, OfModel, ServiceName
<1>10. ASSUME NEW s \in senders, SeesReady(s) PROVE GroupsOfOneName' /\ ServedByNamesake'
  <2>1. UNCHANGED <<modelGroups, worker, processChannel, processor, service, reached>>
    BY <1>10 DEF SeesReady, cluster
  <2>2. senders' = (senders \ {s}) \cup {[s EXCEPT !.waits = FALSE]}
    BY <1>10 DEF SeesReady
  <2>3. [s EXCEPT !.waits = FALSE].name = s.name /\ [s EXCEPT !.waits = FALSE].todo = s.todo
    BY <1>0 DEF Senders
  <2>4. \A t \in senders' : OfModel(t.name, t.todo)
    BY <1>0, <2>2, <2>3 DEF GroupsOfOneName
  <2> QED  BY <1>0, <2>1, <2>4 DEF GroupsOfOneName, ServedByNamesake, OfModel, ServiceName
<1>11. ASSUME NEW s \in senders, ForwardRequest(s) PROVE GroupsOfOneName' /\ ServedByNamesake'
  <2>1. UNCHANGED <<modelGroups, worker, processChannel, processor, service>>
    BY <1>11 DEF ForwardRequest
  <2>2. PICK r \in Requests, rest \in Seq(Requests) :
          /\ r \in Range(s.todo) /\ Range(s.todo) = {r} \cup Range(rest) /\ s \in Senders
          /\ \/ reached' = reached
             \/ service[s.name].state = "ready" /\ reached' = [reached EXCEPT ![r] = service[s.name].id]
          /\ \/ senders' = senders \ {s}
             \/ senders' = (senders \ {s}) \cup {[s EXCEPT !.todo = rest]}
    BY <1>11, ForwardMoves
  <2>3. s.name \in Names /\ [s EXCEPT !.todo = rest].name = s.name /\ [s EXCEPT !.todo = rest].todo = rest
    BY <2>2 DEF Senders
  <2>4. OfModel(s.name, s.todo) /\ OfModel(s.name, rest) /\ Name[Id[r]] = s.name
    BY <1>0, <2>2 DEF GroupsOfOneName, OfModel
  <2>5. \A t \in senders' : OfModel(t.name, t.todo)
    BY <1>0, <2>2, <2>3, <2>4 DEF GroupsOfOneName
  <2>6. service[s.name].state = "ready" => Name[service[s.name].id] = s.name
    BY <1>0, <2>3 DEF GroupsOfOneName
  <2>7. ServedByNamesake'
    BY <1>0, <2>2, <2>4, <2>6 DEF ServedByNamesake
  <2> QED  BY <1>0, <2>1, <2>5, <2>7 DEF GroupsOfOneName, OfModel, ServiceName
<1>12. ASSUME NEW m \in Names, ServiceReady(m) \/ ServiceDeleted(m) PROVE GroupsOfOneName' /\ ServedByNamesake'
  <2>1. UNCHANGED <<modelGroups, worker, processChannel, processor, senders, reached>>
    BY <1>12 DEF ServiceReady, ServiceDeleted, memory
  <2>2. \/ service[m].state = "starting" /\ service' = [service EXCEPT ![m].state = "ready"]
        \/ service' = [service EXCEPT ![m] = [state |-> "absent", id |-> NoId]]
    BY <1>12 DEF ServiceReady, ServiceDeleted
  <2>3. \A n \in Names : service'[n].state # "absent" =>
                            service[n].state # "absent" /\ service'[n].id = service[n].id
    <3> SUFFICES ASSUME NEW n \in Names, service'[n].state # "absent"
                 PROVE  service[n].state # "absent" /\ service'[n].id = service[n].id
      OBVIOUS
    <3>1. CASE n # m
      BY <1>0, <2>2, <3>1
    <3>2. CASE n = m
      <4>1. service[m] \in Services
        BY <1>0
      <4>2. service' # [service EXCEPT ![m] = [state |-> "absent", id |-> NoId]]
        BY <1>0, <3>2
      <4>3. service'[m] = [service[m] EXCEPT !.state = "ready"] /\ service[m].state = "starting"
        BY <1>0, <2>2, <4>2
      <4> QED  BY <3>2, <4>1, <4>3 DEF Services
    <3> QED  BY <3>1, <3>2
  <2>4. \A n \in Names : service'[n].state # "absent" => service'[n].id \in Ids /\ Name[service'[n].id] = n
    BY <1>0, <2>3 DEF GroupsOfOneName
  <2> QED  BY <1>0, <2>1, <2>4 DEF GroupsOfOneName, ServedByNamesake, OfModel, ServiceName
<1>13. CASE Repartition \/ UNCHANGED vars
  BY <1>1, <1>13 DEF Repartition, vars, memory, cluster
<1> QED
  BY <1>2, <1>3, <1>4, <1>5, <1>6, <1>7, <1>8, <1>9, <1>10, <1>11, <1>12, <1>13
  DEF Next, Worker, Processor, Posting, Dies
-----------------------------------------------------------------------------
(* Every request taken is held once *)

InChannel == Range(requestChannel)
Forming == UNION {Range(modelGroups[m]) : m \in Names}
AtWorker == Range(worker)
InProcessing == UNION {Range(g) : g \in Range(processChannel)}
AtProcessor == Range(processor.group)
ToPost == UNION {Range(s.todo) : s \in senders}

Apart(a, b, c, d, e, f) ==
  /\ a \cap b = {} /\ a \cap c = {} /\ a \cap d = {} /\ a \cap e = {} /\ a \cap f = {}
  /\ b \cap c = {} /\ b \cap d = {} /\ b \cap e = {} /\ b \cap f = {}
  /\ c \cap d = {} /\ c \cap e = {} /\ c \cap f = {}
  /\ d \cap e = {} /\ d \cap f = {}
  /\ e \cap f = {}

\* Disjoint holders, told apart by their index in HeldBy or one by one.
LEMMA ApartByIndex ==
  ASSUME NEW a, NEW b, NEW c, NEW d, NEW e, NEW f
  PROVE  Apart(a, b, c, d, e, f) <=>
         \A i, j \in DOMAIN <<a, b, c, d, e, f>> :
            i # j => <<a, b, c, d, e, f>>[i] \cap <<a, b, c, d, e, f>>[j] = {}
<1> DEFINE t == <<a, b, c, d, e, f>>
<1>1. /\ DOMAIN t = {1, 2, 3, 4, 5, 6}
      /\ t[1] = a /\ t[2] = b /\ t[3] = c /\ t[4] = d /\ t[5] = e /\ t[6] = f
  OBVIOUS
<1>2. 1 # 2 /\ 1 # 3 /\ 1 # 4 /\ 1 # 5 /\ 1 # 6 /\ 2 # 3 /\ 2 # 4 /\ 2 # 5 /\ 2 # 6
      /\ 3 # 4 /\ 3 # 5 /\ 3 # 6 /\ 4 # 5 /\ 4 # 6 /\ 5 # 6
  OBVIOUS
<1> HIDE DEF t
<1>3. ASSUME Apart(a, b, c, d, e, f), NEW i \in DOMAIN t, NEW j \in DOMAIN t, i # j
      PROVE  t[i] \cap t[j] = {}
  BY <1>1, <1>3 DEF Apart
<1>4. ASSUME \A i, j \in DOMAIN t : i # j => t[i] \cap t[j] = {}
      PROVE  Apart(a, b, c, d, e, f)
  BY <1>1, <1>2, <1>4 DEF Apart
<1>5. Apart(a, b, c, d, e, f) <=> \A i, j \in DOMAIN t : i # j => t[i] \cap t[j] = {}
  BY <1>3, <1>4
<1> QED  BY <1>5 DEF t

\* The six holders of requests and what is within them.
LEMMA Holders ==
  ASSUME IInv
  PROVE  /\ Holding = InChannel \cup Forming \cup AtWorker \cup InProcessing \cup AtProcessor \cup ToPost
         /\ Apart(InChannel, Forming, AtWorker, InProcessing, AtProcessor, ToPost)
         /\ IsInjective(requestChannel) /\ IsInjective(worker) /\ IsInjective(processor.group)
         /\ \A m \in Names : IsInjective(modelGroups[m])
         /\ \A i \in DOMAIN processChannel : IsInjective(processChannel[i])
         /\ \A i, j \in DOMAIN processChannel :
               i # j => Range(processChannel[i]) \cap Range(processChannel[j]) = {}
         /\ \A s \in senders : IsInjective(s.todo)
         /\ \A s, t \in senders : s # t => Range(s.todo) \cap Range(t.todo) = {}
<1>1. Holding = InChannel \cup Forming \cup AtWorker \cup InProcessing \cup AtProcessor \cup ToPost
  BY DEF Holding, InChannel, Forming, AtWorker, InProcessing, AtProcessor, ToPost
<1>2. HeldBy = <<InChannel, Forming, AtWorker, InProcessing, AtProcessor, ToPost>>
  BY DEF HeldBy, InChannel, Forming, AtWorker, InProcessing, AtProcessor, ToPost
<1>3. \A i, j \in DOMAIN HeldBy : i # j => HeldBy[i] \cap HeldBy[j] = {}
  BY DEF IInv, HeldOnce
<1>4. Apart(InChannel, Forming, AtWorker, InProcessing, AtProcessor, ToPost)
  BY <1>2, <1>3, ApartByIndex
<1> QED  BY <1>1, <1>4 DEF IInv, HeldOnce

\* A step keeps HeldOnce when it keeps the holders apart and each one of them in order.
LEMMA HoldersAfter ==
  ASSUME Apart(InChannel, Forming, AtWorker, InProcessing, AtProcessor, ToPost)',
         IsInjective(requestChannel'), IsInjective(worker'), IsInjective(processor'.group),
         \A m \in Names : IsInjective(modelGroups'[m]),
         \A i \in DOMAIN processChannel' : IsInjective(processChannel'[i]),
         \A i, j \in DOMAIN processChannel' :
            i # j => Range(processChannel'[i]) \cap Range(processChannel'[j]) = {},
         \A s \in senders' : IsInjective(s.todo),
         \A s, t \in senders' : s # t => Range(s.todo) \cap Range(t.todo) = {}
  PROVE  HeldOnce'
<1>1. Apart(InChannel', Forming', AtWorker', InProcessing', AtProcessor', ToPost')
  BY DEF Apart
<1>2. HeldBy' = <<InChannel', Forming', AtWorker', InProcessing', AtProcessor', ToPost'>>
  BY DEF HeldBy, InChannel, Forming, AtWorker, InProcessing, AtProcessor, ToPost
<1>3. \A i, j \in DOMAIN HeldBy' : i # j => HeldBy'[i] \cap HeldBy'[j] = {}
  BY <1>1, <1>2, ApartByIndex
<1> QED  BY <1>3 DEF HeldOnce

\* What the process holds after a step.
LEMMA HoldingAfter ==
  Holding' = InChannel' \cup Forming' \cup AtWorker' \cup InProcessing' \cup AtProcessor' \cup ToPost'
  BY DEF Holding, InChannel, Forming, AtWorker, InProcessing, AtProcessor, ToPost

\* A step that moves requests from holder to holder.
LEMMA StillHeld ==
  ASSUME IInv, Holding' = Holding, UNCHANGED <<taken, posts, lost>>
  PROVE  HeldUntilPosted'
  BY DEF IInv, HeldUntilPosted

LEMMA EnqueueHeld ==
  ASSUME IInv, NEW r \in Requests, Enqueue(r)
  PROVE  HeldUntilPosted' /\ HeldOnce'
<1>1. /\ http[r] = "sending" /\ requestChannel' = Append(requestChannel, r) /\ taken' = taken \cup {r}
      /\ UNCHANGED <<modelGroups, worker, processChannel, processor, senders, posts, lost>>
  BY DEF Enqueue, cluster
<1>2. r \notin taken /\ posts[r] = 0 /\ r \notin lost
  BY <1>1 DEF IInv, Lifecycle
<1>3. r \notin Holding
  BY <1>2, HeldIsValid
<1>4. InChannel' = InChannel \cup {r}
  BY EnqueueMoves DEF IInv, InChannel
<1>5. UNCHANGED <<Forming, AtWorker, InProcessing, AtProcessor, ToPost>>
  BY <1>1 DEF Forming, AtWorker, InProcessing, AtProcessor, ToPost
<1>6. Holding' = Holding \cup {r}
  BY <1>4, <1>5, Holders, HoldingAfter
<1>7. HeldUntilPosted'
  BY <1>1, <1>2, <1>6 DEF IInv, HeldUntilPosted
<1>8. Apart(InChannel, Forming, AtWorker, InProcessing, AtProcessor, ToPost)'
  BY <1>3, <1>4, <1>5, Holders DEF Apart
<1>9. IsInjective(requestChannel')
  BY <1>1, <1>3, Holders, Typed, InjectiveAppend DEF IInv, InChannel
<1>10. HeldOnce'
  BY <1>1, <1>8, <1>9, Holders, HoldersAfter
<1> QED  BY <1>7, <1>10
LEMMA GroupHeld ==
  ASSUME IInv, GroupRequest
  PROVE  HeldUntilPosted' /\ HeldOnce'
<1>1. PICK r \in Requests, group \in Groups :
        /\ Name[Id[r]] \in Names /\ worker = <<>>
        /\ Range(requestChannel) = {r} \cup Range(requestChannel') /\ r \notin Range(requestChannel')
        /\ IsInjective(requestChannel')
        /\ Range(group) = Range(modelGroups[Name[Id[r]]]) \cup {r} /\ IsInjective(group)
        /\ \/ worker' = group /\ modelGroups' = [modelGroups EXCEPT ![Name[Id[r]]] = <<>>]
           \/ worker' = <<>> /\ modelGroups' = [modelGroups EXCEPT ![Name[Id[r]]] = group]
  BY GroupMoves
<1> DEFINE m == Name[Id[r]]
<1>2. modelGroups \in [Names -> Seq(Requests)] /\ m \in Names
  BY <1>1, Typed DEF IInv
<1>3. UNCHANGED <<processChannel, processor, senders, taken, posts, lost>>
  BY DEF GroupRequest, cluster
<1>4. UNCHANGED <<InProcessing, AtProcessor, ToPost>>
  BY <1>3 DEF InProcessing, AtProcessor, ToPost
<1>5. InChannel = {r} \cup InChannel' /\ r \notin InChannel' /\ AtWorker = {}
  BY <1>1, Empty DEF InChannel, AtWorker
<1>6. \A n \in Names : n # m => Range(modelGroups[n]) \cap Range(modelGroups[m]) = {}
  BY <1>2 DEF IInv, GroupsOfOneName, OfModel
<1>7. Range(modelGroups[m]) \subseteq Forming
  BY <1>2 DEF Forming
<1> HIDE DEF m
<1>8. CASE worker' = group /\ modelGroups' = [modelGroups EXCEPT ![m] = <<>>]
  <2>1. AtWorker' = Range(modelGroups[m]) \cup {r}
    BY <1>1, <1>8 DEF AtWorker, m
  <2>2. Forming' = Forming \ Range(modelGroups[m])
    <3>1. \A n \in Names : Range(modelGroups'[n]) = IF n = m THEN {} ELSE Range(modelGroups[n])
      BY <1>2, <1>8, Empty
    <3> QED  BY <1>6, <3>1 DEF Forming
  <2>3. Apart(InChannel, Forming, AtWorker, InProcessing, AtProcessor, ToPost)'
    BY <1>4, <1>5, <1>7, <2>1, <2>2, Holders DEF Apart
  <2>4. Holding' = Holding
    BY <1>4, <1>5, <1>7, <2>1, <2>2, Holders, HoldingAfter
  <2>5. IsInjective(worker') /\ \A n \in Names : IsInjective(modelGroups'[n])
    BY <1>1, <1>2, <1>8, Holders, Empty
  <2> QED  BY <1>1, <1>3, <2>3, <2>4, <2>5, Holders, HoldersAfter, StillHeld
<1>9. CASE worker' = <<>> /\ modelGroups' = [modelGroups EXCEPT ![m] = group]
  <2>1. AtWorker' = {}
    BY <1>9, Empty DEF AtWorker
  <2>2. Forming' = Forming \cup {r}
    <3>1. \A n \in Names : Range(modelGroups'[n]) =
             IF n = m THEN Range(modelGroups[m]) \cup {r} ELSE Range(modelGroups[n])
      BY <1>1, <1>2, <1>9 DEF m
    <3> QED  BY <1>2, <3>1 DEF Forming
  <2>3. Apart(InChannel, Forming, AtWorker, InProcessing, AtProcessor, ToPost)'
    BY <1>4, <1>5, <2>1, <2>2, Holders DEF Apart
  <2>4. Holding' = Holding
    BY <1>4, <1>5, <2>1, <2>2, Holders, HoldingAfter
  <2>5. IsInjective(worker') /\ \A n \in Names : IsInjective(modelGroups'[n])
    BY <1>1, <1>2, <1>9, Holders, Empty
  <2> QED  BY <1>1, <1>3, <2>3, <2>4, <2>5, Holders, HoldersAfter, StillHeld
<1> QED  BY <1>1, <1>8, <1>9 DEF m

LEMMA SendHeld ==
  ASSUME IInv, SendGroup
  PROVE  HeldUntilPosted' /\ HeldOnce'
<1>1. /\ worker \in Groups /\ worker' = <<>>
      /\ Range(processChannel') = Range(processChannel) \cup {worker}
      /\ \A i \in DOMAIN processChannel' :
            (i \in DOMAIN processChannel /\ processChannel'[i] = processChannel[i])
            \/ (i = Len(processChannel) + 1 /\ processChannel'[i] = worker)
  BY SendMoves
<1>2. UNCHANGED <<requestChannel, modelGroups, processor, senders, taken, posts, lost>>
  BY DEF SendGroup, cluster
<1>3. UNCHANGED <<InChannel, Forming, AtProcessor, ToPost>>
  BY <1>2 DEF InChannel, Forming, AtProcessor, ToPost
<1>4. AtWorker' = {} /\ IsInjective(worker')
  BY <1>1, Empty DEF AtWorker
<1>5. InProcessing' = InProcessing \cup AtWorker
  BY <1>1 DEF InProcessing, AtWorker
<1>6. Apart(InChannel, Forming, AtWorker, InProcessing, AtProcessor, ToPost)'
  BY <1>3, <1>4, <1>5, Holders DEF Apart
<1>7. Holding' = Holding
  BY <1>3, <1>4, <1>5, Holders, HoldingAfter
<1>8. \A i \in DOMAIN processChannel' : IsInjective(processChannel'[i])
  BY <1>1, Holders
<1>9. \A i \in DOMAIN processChannel : Range(processChannel[i]) \cap Range(worker) = {}
  <2>1. \A i \in DOMAIN processChannel : Range(processChannel[i]) \subseteq InProcessing
    BY DEF InProcessing, Range
  <2>2. InProcessing \cap AtWorker = {}
    BY Holders DEF Apart
  <2> QED  BY <2>1, <2>2 DEF AtWorker
<1>10. ASSUME NEW i \in DOMAIN processChannel', NEW j \in DOMAIN processChannel', i # j
       PROVE  Range(processChannel'[i]) \cap Range(processChannel'[j]) = {}
  <2>1. CASE i \in DOMAIN processChannel /\ processChannel'[i] = processChannel[i]
    BY <1>1, <1>9, <1>10, <2>1, Holders
  <2>2. CASE i = Len(processChannel) + 1 /\ processChannel'[i] = worker
    BY <1>1, <1>9, <1>10, <2>2
  <2> QED  BY <1>1, <2>1, <2>2
<1> QED  BY <1>2, <1>4, <1>6, <1>7, <1>8, <1>10, Holders, HoldersAfter, StillHeld

LEMMA TakeHeld ==
  ASSUME IInv, TakeGroup
  PROVE  HeldUntilPosted' /\ HeldOnce'
<1>1. /\ processor.group = <<>> /\ 1 \in DOMAIN processChannel /\ processChannel[1] = processor'.group
      /\ \A i \in DOMAIN processChannel' :
            i + 1 \in DOMAIN processChannel /\ i + 1 # 1 /\ processChannel'[i] = processChannel[i + 1]
      /\ \A i, j \in DOMAIN processChannel' : i # j => i + 1 # j + 1
      /\ Range(processChannel) = {processor'.group} \cup Range(processChannel')
  BY TakeMoves
<1>2. UNCHANGED <<requestChannel, modelGroups, worker, senders, taken, posts, lost>>
  BY DEF TakeGroup, ProcessorOnly, cluster
<1>3. UNCHANGED <<InChannel, Forming, AtWorker, ToPost>>
  BY <1>2 DEF InChannel, Forming, AtWorker, ToPost
<1>4. AtProcessor = {} /\ IsInjective(processor'.group)
  BY <1>1, Empty, Holders DEF AtProcessor
<1>5. InProcessing = AtProcessor' \cup InProcessing'
  BY <1>1 DEF InProcessing, AtProcessor
<1>6. AtProcessor' \cap InProcessing' = {}
  <2>1. \A i \in DOMAIN processChannel' : Range(processChannel[1]) \cap Range(processChannel'[i]) = {}
    BY <1>1, Holders
  <2> QED  BY <1>1, <2>1 DEF AtProcessor, InProcessing, Range
<1>7. Apart(InChannel, Forming, AtWorker, InProcessing, AtProcessor, ToPost)'
  BY <1>3, <1>4, <1>5, <1>6, Holders DEF Apart
<1>8. Holding' = Holding
  BY <1>3, <1>4, <1>5, Holders, HoldingAfter
<1>9. /\ \A i \in DOMAIN processChannel' : IsInjective(processChannel'[i])
      /\ \A i, j \in DOMAIN processChannel' :
            i # j => Range(processChannel'[i]) \cap Range(processChannel'[j]) = {}
  BY <1>1, Holders
<1> QED  BY <1>2, <1>4, <1>7, <1>8, <1>9, Holders, HoldersAfter, StillHeld

LEMMA DecideHeld ==
  ASSUME IInv, DecideService
  PROVE  HeldUntilPosted' /\ HeldOnce'
<1>1. processor'.group = processor.group
  BY Typed DEF DecideService, IInv, Processors
<1>2. UNCHANGED <<requestChannel, modelGroups, worker, processChannel, senders, taken, posts, lost>>
  BY DEF DecideService, ProcessorOnly, cluster
<1>3. UNCHANGED <<InChannel, Forming, AtWorker, InProcessing, AtProcessor, ToPost>>
  BY <1>1, <1>2 DEF InChannel, Forming, AtWorker, InProcessing, AtProcessor, ToPost
<1>4. Apart(InChannel, Forming, AtWorker, InProcessing, AtProcessor, ToPost)'
  BY <1>3, Holders DEF Apart
<1>5. Holding' = Holding
  BY <1>3, Holders, HoldingAfter
<1> QED  BY <1>1, <1>2, <1>4, <1>5, Holders, HoldersAfter, StillHeld
\* The processor gives its requests to new goroutines.
LEMMA HandOver ==
  ASSUME IInv, NEW new, senders' = senders \cup new, processor'.group = <<>>,
         \A s \in new : IsInjective(s.todo),
         \A s, t \in new : s # t => Range(s.todo) \cap Range(t.todo) = {},
         (UNION {Range(s.todo) : s \in new}) = AtProcessor,
         UNCHANGED <<requestChannel, modelGroups, worker, processChannel, taken, posts, lost>>
  PROVE  HeldUntilPosted' /\ HeldOnce'
<1>1. UNCHANGED <<InChannel, Forming, AtWorker, InProcessing>>
  BY DEF InChannel, Forming, AtWorker, InProcessing
<1>2. AtProcessor' = {} /\ IsInjective(processor'.group)
  BY Empty DEF AtProcessor
<1>3. ToPost' = ToPost \cup AtProcessor
  BY DEF ToPost
<1>4. Apart(InChannel, Forming, AtWorker, InProcessing, AtProcessor, ToPost)'
  BY <1>1, <1>2, <1>3, Holders DEF Apart
<1>5. Holding' = Holding
  BY <1>1, <1>2, <1>3, Holders, HoldingAfter
<1>6. \A s \in senders' : IsInjective(s.todo)
  BY Holders
<1>7. \A s \in senders, t \in new : Range(s.todo) \cap Range(t.todo) = {}
  <2>1. ToPost \cap AtProcessor = {}
    BY Holders DEF Apart
  <2>2. \A s \in senders : Range(s.todo) \subseteq ToPost
    BY DEF ToPost
  <2>3. \A t \in new : Range(t.todo) \subseteq AtProcessor
    OBVIOUS
  <2> QED  BY <2>1, <2>2, <2>3
<1>8. \A s, t \in senders' : s # t => Range(s.todo) \cap Range(t.todo) = {}
  BY <1>7, Holders
<1> QED  BY <1>2, <1>4, <1>5, <1>6, <1>8, Holders, HoldersAfter, StillHeld

LEMMA AssignHeld ==
  ASSUME IInv, AssignService
  PROVE  HeldUntilPosted' /\ HeldOnce'
<1>1. PICK name \in Names :
        \/ processor'.group = processor.group /\ senders' = senders
        \/ /\ processor'.group = <<>>
           /\ senders' = senders \cup {Sender(name, <<r>>, FALSE) : r \in Range(processor.group)}
  BY AssignMoves
<1>2. UNCHANGED <<requestChannel, modelGroups, worker, processChannel, taken, posts, lost>>
  BY DEF AssignService, ProcessorOnly, cluster
<1>3. CASE processor'.group = processor.group /\ senders' = senders
  <2>1. UNCHANGED <<InChannel, Forming, AtWorker, InProcessing, AtProcessor, ToPost>>
    BY <1>2, <1>3 DEF InChannel, Forming, AtWorker, InProcessing, AtProcessor, ToPost
  <2>2. Apart(InChannel, Forming, AtWorker, InProcessing, AtProcessor, ToPost)'
    BY <2>1, Holders DEF Apart
  <2>3. Holding' = Holding
    BY <2>1, Holders, HoldingAfter
  <2> QED  BY <1>2, <1>3, <2>2, <2>3, Holders, HoldersAfter, StillHeld
<1>4. CASE /\ processor'.group = <<>>
           /\ senders' = senders \cup {Sender(name, <<r>>, FALSE) : r \in Range(processor.group)}
  <2> DEFINE new == {Sender(name, <<r>>, FALSE) : r \in Range(processor.group)}
  <2>1. \A s \in new : \E r \in Range(processor.group) : s = Sender(name, <<r>>, FALSE) /\ s.todo = <<r>>
    BY DEF Sender
  <2>2. \A r \in Range(processor.group) : Sender(name, <<r>>, FALSE) \in new /\ Sender(name, <<r>>, FALSE).todo = <<r>>
    BY DEF Sender
  <2>3. senders' = senders \cup new
    BY <1>4
  <2> HIDE DEF new
  <2>4. \A s \in new : \E r \in Range(processor.group) :
           s = Sender(name, <<r>>, FALSE) /\ IsInjective(s.todo) /\ Range(s.todo) = {r}
    BY <2>1, Single
  <2>5. \A s, t \in new : s # t => Range(s.todo) \cap Range(t.todo) = {}
    BY <2>4
  <2>6. \A r \in Range(processor.group) : Sender(name, <<r>>, FALSE) \in new /\ Range(Sender(name, <<r>>, FALSE).todo) = {r}
    BY <2>2, Single
  <2>7. (UNION {Range(s.todo) : s \in new}) = AtProcessor
    <3>1. \A s \in new : Range(s.todo) \subseteq Range(processor.group)
      BY <2>4
    <3>2. \A r \in Range(processor.group) : \E s \in new : r \in Range(s.todo)
      <4> TAKE r \in Range(processor.group)
      <4>1. Sender(name, <<r>>, FALSE) \in new /\ r \in Range(Sender(name, <<r>>, FALSE).todo)
        BY <2>6
      <4> QED  BY <4>1
    <3> QED  BY <3>1, <3>2 DEF AtProcessor
  <2> QED  BY <1>2, <1>4, <2>3, <2>4, <2>5, <2>7, HandOver
<1> QED  BY <1>1, <1>3, <1>4

LEMMA CreateHeld ==
  ASSUME IInv, CreateNewService
  PROVE  HeldUntilPosted' /\ HeldOnce'
<1>1. PICK name \in Names :
        processor'.group = <<>> /\ senders' = senders \cup {Sender(name, processor.group, TRUE)}
  BY CreateMoves
<1>2. UNCHANGED <<requestChannel, modelGroups, worker, processChannel, taken, posts, lost>>
  BY DEF CreateNewService
<1> DEFINE s == Sender(name, processor.group, TRUE)
<1>3. s.todo = processor.group
  BY DEF Sender
<1> HIDE DEF s
<1>4. IsInjective(s.todo) /\ (UNION {Range(t.todo) : t \in {s}}) = AtProcessor
  BY <1>3, Holders DEF AtProcessor
<1>5. senders' = senders \cup {s}
  BY <1>1 DEF s
<1> DEFINE new == {s}
<1>6. /\ \A t \in new : IsInjective(t.todo)
      /\ \A t, u \in new : t # u => Range(t.todo) \cap Range(u.todo) = {}
      /\ (UNION {Range(t.todo) : t \in new}) = AtProcessor /\ senders' = senders \cup new
  BY <1>4, <1>5
<1> HIDE DEF new
<1> QED  BY <1>1, <1>2, <1>6, HandOver

\* A goroutine goes on with other requests, all of them among those it had.
LEMMA SenderGoesOn ==
  ASSUME IInv, NEW s \in senders, NEW next,
         senders' = (senders \ {s}) \cup next,
         \A t, u \in next : t = u,
         \A t \in next : IsInjective(t.todo) /\ Range(t.todo) \subseteq Range(s.todo),
         UNCHANGED <<requestChannel, modelGroups, worker, processChannel, processor>>
  PROVE  /\ HeldOnce'
         /\ Holding' = (Holding \ Range(s.todo)) \cup (UNION {Range(t.todo) : t \in next})
<1> DEFINE kept == UNION {Range(t.todo) : t \in next}
<1>1. UNCHANGED <<InChannel, Forming, AtWorker, InProcessing, AtProcessor>>
  BY DEF InChannel, Forming, AtWorker, InProcessing, AtProcessor
<1>2. \A t \in senders \ {s} : Range(t.todo) \cap Range(s.todo) = {}
  BY Holders
<1>3. Range(s.todo) \subseteq ToPost /\ kept \subseteq Range(s.todo)
  BY DEF ToPost
<1>4. ToPost' = (ToPost \ Range(s.todo)) \cup kept
  BY <1>2 DEF ToPost
<1> HIDE DEF kept
<1>5. Apart(InChannel, Forming, AtWorker, InProcessing, AtProcessor, ToPost)'
  BY <1>1, <1>3, <1>4, Holders DEF Apart
<1>6. Holding' = (Holding \ Range(s.todo)) \cup kept
  <2>1. Apart(InChannel, Forming, AtWorker, InProcessing, AtProcessor, ToPost)
    BY Holders
  <2> QED  BY <1>1, <1>3, <1>4, <2>1, Holders, HoldingAfter DEF Apart
<1>7. \A t \in senders' : IsInjective(t.todo)
  BY Holders
<1>8. \A t \in senders \ {s}, u \in next : Range(t.todo) \cap Range(u.todo) = {}
  BY <1>2
<1>9. \A t, u \in senders' : t # u => Range(t.todo) \cap Range(u.todo) = {}
  BY <1>8, Holders
<1>10. HeldOnce'
  BY <1>5, <1>7, <1>9, Holders, HoldersAfter
<1> QED  BY <1>6, <1>10 DEF kept

LEMMA SeesReadyHeld ==
  ASSUME IInv, NEW s \in senders, SeesReady(s)
  PROVE  HeldUntilPosted' /\ HeldOnce'
<1> DEFINE t == [s EXCEPT !.waits = FALSE]
<1>1. s \in Senders /\ t.todo = s.todo
  BY Typed DEF IInv, Senders
<1>2. senders' = (senders \ {s}) \cup {t}
  BY DEF SeesReady
<1>3. UNCHANGED <<requestChannel, modelGroups, worker, processChannel, processor, taken, posts, lost>>
  BY DEF SeesReady, cluster
<1> HIDE DEF t
<1>4. IsInjective(t.todo) /\ (UNION {Range(u.todo) : u \in {t}}) = Range(s.todo)
  BY <1>1, Holders
<1> DEFINE next == {t}
<1>8. /\ \A u \in next : IsInjective(u.todo) /\ Range(u.todo) \subseteq Range(s.todo)
      /\ \A u, v \in next : u = v
      /\ (UNION {Range(u.todo) : u \in next}) = Range(s.todo) /\ senders' = (senders \ {s}) \cup next
  BY <1>1, <1>2, <1>4
<1> HIDE DEF next
<1>5. HeldOnce' /\ Holding' = (Holding \ Range(s.todo)) \cup Range(s.todo)
  BY <1>3, <1>8, SenderGoesOn
<1>6. Range(s.todo) \subseteq Holding
  BY DEF Holding
<1>7. Holding' = Holding
  BY <1>5, <1>6
<1> QED  BY <1>3, <1>5, <1>7, StillHeld

\* A request leaves the memory of the process when it is posted.
LEMMA ForwardHeld ==
  ASSUME IInv, NEW s \in senders, ForwardRequest(s)
  PROVE  HeldUntilPosted' /\ HeldOnce'
<1>1. PICK r \in Requests, rest \in Seq(Requests) :
        /\ s \in Senders /\ r \in Holding
        /\ posts' = [posts EXCEPT ![r] = 1]
        /\ Range(s.todo) = {r} \cup Range(rest) /\ r \notin Range(rest) /\ IsInjective(rest)
        /\ \/ rest = <<>> /\ senders' = senders \ {s}
           \/ rest # <<>> /\ senders' = (senders \ {s}) \cup {[s EXCEPT !.todo = rest]}
  BY ForwardMoves
<1>2. UNCHANGED <<requestChannel, modelGroups, worker, processChannel, processor, taken, lost>>
  BY DEF ForwardRequest
<1>3. PICK next :
        /\ senders' = (senders \ {s}) \cup next
        /\ \A t, u \in next : t = u
        /\ \A t \in next : t.todo = rest
        /\ (UNION {Range(t.todo) : t \in next}) = Range(rest)
  <2>1. CASE rest = <<>>
    <3>1. (UNION {Range(t.todo) : t \in {}}) = Range(rest)
      BY <2>1, Empty
    <3>2. senders' = (senders \ {s}) \cup {}
      BY <1>1, <2>1
    <3> QED  BY <3>1, <3>2
  <2>2. CASE rest # <<>>
    <3> DEFINE t == [s EXCEPT !.todo = rest]
    <3>1. t.todo = rest
      BY <1>1 DEF Senders
    <3>2. senders' = (senders \ {s}) \cup {t}
      BY <1>1, <2>2
    <3> HIDE DEF t
    <3>3. (UNION {Range(u.todo) : u \in {t}}) = Range(rest)
      BY <3>1
    <3> QED  BY <3>1, <3>2, <3>3
  <2> QED  BY <2>1, <2>2
<1>4. HeldOnce' /\ Holding' = (Holding \ Range(s.todo)) \cup Range(rest)
  BY <1>1, <1>2, <1>3, SenderGoesOn
<1>5. Range(s.todo) \subseteq Holding
  BY DEF Holding
<1>6. Holding' = Holding \ {r}
  BY <1>1, <1>4, <1>5
<1>7. posts \in [Requests -> Nat]
  BY Typed DEF IInv
<1>8. HeldUntilPosted'
  BY <1>1, <1>2, <1>6, <1>7 DEF IInv, HeldUntilPosted
<1> QED  BY <1>4, <1>8

\* A death empties the memory, and all that was in it is lost.
LEMMA LoseHeld ==
  ASSUME IInv, Lose
  PROVE  HeldUntilPosted' /\ HeldOnce'
<1>1. /\ requestChannel' = <<>> /\ modelGroups' = [m \in Names |-> <<>>] /\ worker' = <<>>
      /\ processChannel' = <<>> /\ processor'.group = <<>> /\ senders' = {}
      /\ lost' = lost \cup Holding /\ UNCHANGED <<taken, posts>>
  BY DEF Lose, IdleProcessor, cluster
<1>2. InChannel' = {} /\ AtWorker' = {} /\ AtProcessor' = {} /\ ToPost' = {}
  BY <1>1, Empty DEF InChannel, AtWorker, AtProcessor, ToPost
<1>3. Forming' = {}
  BY <1>1, Empty DEF Forming
<1>4. InProcessing' = {}
  BY <1>1, Empty DEF InProcessing
<1>5. Holding' = {}
  BY <1>2, <1>3, <1>4, HoldingAfter
<1>6. HeldUntilPosted'
  BY <1>1, <1>5 DEF IInv, HeldUntilPosted
<1>7. Apart(InChannel, Forming, AtWorker, InProcessing, AtProcessor, ToPost)'
  BY <1>2, <1>3, <1>4 DEF Apart
<1>8. \A m \in Names : IsInjective(modelGroups'[m])
  BY <1>1, Empty
<1>9. DOMAIN processChannel' = {}
  BY <1>1
<1>10. HeldOnce'
  BY <1>1, <1>7, <1>8, <1>9, Empty, HoldersAfter
<1> QED  BY <1>6, <1>10

\* Every request taken is held once until it is posted or lost.
LEMMA HeldPreserved == IInv /\ [Next]_vars => HeldUntilPosted' /\ HeldOnce'
<1> SUFFICES ASSUME IInv, [Next]_vars PROVE HeldUntilPosted' /\ HeldOnce'
  OBVIOUS
<1>1. ASSUME UNCHANGED <<requestChannel, modelGroups, worker, processChannel, processor, senders, taken, posts, lost>>
      PROVE  HeldUntilPosted' /\ HeldOnce'
  <2>1. Holding' = Holding
    BY <1>1 DEF Holding
  <2>2. HeldOnce'
    BY <1>1 DEF IInv, HeldOnce, HeldBy
  <2> QED  BY <1>1, <2>1, <2>2, StillHeld
<1>2. ASSUME NEW r \in Requests, ParseRequest(r) \/ Acknowledge(r) PROVE HeldUntilPosted' /\ HeldOnce'
  BY <1>1, <1>2 DEF ParseRequest, Acknowledge, memory, cluster
<1>3. CASE (\E m \in Names : ServiceReady(m) \/ ServiceDeleted(m)) \/ Repartition \/ UNCHANGED vars
  BY <1>1, <1>3 DEF ServiceReady, ServiceDeleted, Repartition, vars, memory, cluster
<1>4. CASE Dies
  BY <1>4, DiesLoses, LoseHeld
<1> QED
  BY <1>2, <1>3, <1>4, EnqueueHeld, GroupHeld, SendHeld, TakeHeld, DecideHeld, AssignHeld, CreateHeld,
     SeesReadyHeld, ForwardHeld
  DEF Next, Handler, Worker, Processor, Posting, Dies
-----------------------------------------------------------------------------
(* The theorems *)

LEMMA NextPreserves == IInv /\ [Next]_vars => IInv'
  BY TypePreserved, LifecyclePreserved, NamesPreserved, HeldPreserved DEF IInv

LEMMA Invariance == Spec => []IInv
<1>1. Init => IInv
  BY InitEstablishes
<1>2. IInv /\ [Next]_vars => IInv'
  BY NextPreserves
<1> QED  BY <1>1, <1>2, PTL DEF Spec

\* In every state every variable has its type: the channels never exceed their
\* capacity, and the processor has a group exactly when it is at work.
THEOREM TypeCorrect == Spec => []TypeOK
<1>1. IInv => TypeOK
  BY DEF IInv
<1> QED  BY <1>1, Invariance, PTL

\* A request the process has taken is in its memory until it is posted or lost with
\* the process, whatever the sizes of the channels and of the groups.
THEOREM HoldsUntilPosted == Spec => []HeldUntilPosted
<1>1. IInv => HeldUntilPosted
  BY DEF IInv
<1> QED  BY <1>1, Invariance, PTL

\* No request is held by two of the channels, groups and goroutines, or twice by one.
THEOREM HoldsOnce == Spec => []HeldOnce
<1>1. IInv => HeldOnce
  BY DEF IInv
<1> QED  BY <1>1, Invariance, PTL

\* A request is answered only by a service created for a MODEL_ID of its own service
\* name, whatever MODEL_IDs share a name.
THEOREM ServesNamesake == Spec => []ServedByNamesake
<1>1. IInv => ServedByNamesake
  BY DEF IInv
<1> QED  BY <1>1, Invariance, PTL

-----------------------------------------------------------------------------
(* The Dispatcher implements RequestDelivery *)

\* What a client sees of a request.
StateOf(r) == IF r \notin taken
              THEN IF http[r] \in {"rejected", "broken"} THEN "refused" ELSE "new"
              ELSE IF posts[r] > 1 THEN "reposted"
              ELSE IF posts[r] = 1 THEN "posted"
              ELSE IF r \in lost THEN "lost" ELSE "taken"
StateMap == [r \in Requests |-> StateOf(r)]
Acked == {r \in Requests : http[r] = "accepted"}

\* The initial states are initial states of the promise.
LEMMA DeliveryInit == Init => delivery!Init
  BY DEF Init, delivery!Init

\* A step of the handlers, of a poster or of death is a step of the promise.
LEMMA DeliveryStep == IInv /\ IInv' /\ [Next]_vars => [delivery!Next]_(delivery!vars)
<1> SUFFICES ASSUME IInv, IInv', [Next]_vars PROVE [delivery!Next]_(delivery!vars)
  OBVIOUS
<1>0. /\ http \in [Requests -> States] /\ posts \in [Requests -> Nat] /\ Lifecycle /\ HeldUntilPosted
  BY Typed DEF IInv
<1>1. ASSUME UNCHANGED <<http, taken, posts, lost>> PROVE [delivery!Next]_(delivery!vars)
  BY <1>1 DEF delivery!vars
<1>2. ASSUME NEW r \in Requests, ParseRequest(r) PROVE [delivery!Next]_(delivery!vars)
  <2>1. /\ http[r] = "new" /\ http' = [http EXCEPT ![r] = IF Id[r] = NoId THEN "rejected" ELSE "sending"]
        /\ UNCHANGED <<taken, posts, lost>>
    BY <1>2 DEF ParseRequest, cluster
  <2>2. r \notin taken
    BY <1>0, <2>1 DEF Lifecycle
  <2>3. Acked' = Acked
    BY <1>0, <2>1 DEF Acked
  <2>4. \A q \in Requests : q # r => StateOf(q)' = StateOf(q)
    BY <1>0, <2>1 DEF StateOf
  <2>5. StateOf(r) = "new" /\ StateOf(r)' = IF Id[r] = NoId THEN "refused" ELSE "new"
    BY <1>0, <2>1, <2>2 DEF StateOf
  <2>6. StateMap' = [StateMap EXCEPT ![r] = "refused"] \/ StateMap' = StateMap
    BY <2>4, <2>5 DEF StateMap
  <2>7. delivery!Refuse(r) \/ UNCHANGED delivery!vars
    BY <2>3, <2>5, <2>6 DEF StateMap, StateOf, Acked, delivery!Refuse, delivery!vars
  <2> QED  BY <2>7 DEF delivery!Next
<1>3. ASSUME NEW r \in Requests, Enqueue(r) PROVE [delivery!Next]_(delivery!vars)
  <2>1. /\ http[r] = "sending" /\ http' = [http EXCEPT ![r] = "acking"] /\ taken' = taken \cup {r}
        /\ UNCHANGED <<posts, lost>>
    BY <1>3 DEF Enqueue, cluster
  <2>2. r \notin taken /\ r \notin lost /\ posts[r] = 0
    BY <1>0, <2>1 DEF Lifecycle
  <2>3. Acked' = Acked
    BY <1>0, <2>1 DEF Acked
  <2>4. \A q \in Requests : q # r => StateOf(q)' = StateOf(q)
    BY <1>0, <2>1 DEF StateOf
  <2>5. StateOf(r) = "new" /\ StateOf(r)' = "taken"
    BY <1>0, <2>1, <2>2 DEF StateOf
  <2>6. StateMap' = [StateMap EXCEPT ![r] = "taken"]
    BY <2>4, <2>5 DEF StateMap
  <2>7. delivery!Take(r)
    BY <2>3, <2>5, <2>6 DEF StateMap, StateOf, Acked, delivery!Take
  <2> QED  BY <2>7 DEF delivery!Next
<1>4. ASSUME NEW r \in Requests, Acknowledge(r) PROVE [delivery!Next]_(delivery!vars)
  <2>1. /\ http[r] = "acking" /\ http' = [http EXCEPT ![r] = "accepted"]
        /\ UNCHANGED <<taken, posts, lost>>
    BY <1>4 DEF Acknowledge, cluster
  <2>2. r \in taken /\ r \notin lost /\ posts[r] \in {0, 1}
    BY <1>0, <2>1 DEF Lifecycle
  <2>3. Acked' = Acked \cup {r}
    BY <1>0, <2>1 DEF Acked
  <2>4. \A q \in Requests : StateOf(q)' = StateOf(q)
    BY <1>0, <2>1, <2>2 DEF StateOf
  <2>5. StateOf(r) \in {"taken", "posted"}
    BY <2>2 DEF StateOf
  <2>6. StateMap' = StateMap
    BY <2>4 DEF StateMap
  <2>7. delivery!Acknowledge(r)
    BY <2>3, <2>5, <2>6 DEF StateMap, StateOf, Acked, delivery!Acknowledge
  <2> QED  BY <2>7 DEF delivery!Next
<1>5. ASSUME NEW s \in senders, ForwardRequest(s) PROVE [delivery!Next]_(delivery!vars)
  <2>1. PICK r \in Requests : r \in Holding /\ posts' = [posts EXCEPT ![r] = 1]
    BY <1>5, ForwardMoves
  <2>2. UNCHANGED <<http, taken, lost>>
    BY <1>5 DEF ForwardRequest
  <2>3. r \in taken /\ r \notin lost /\ posts[r] = 0
    BY <2>1, HeldIsValid
  <2>4. Acked' = Acked
    BY <2>2 DEF Acked
  <2>5. \A q \in Requests : q # r => StateOf(q)' = StateOf(q)
    BY <1>0, <2>1, <2>2 DEF StateOf
  <2>6. StateOf(r) = "taken" /\ StateOf(r)' = "posted"
    BY <1>0, <2>1, <2>2, <2>3 DEF StateOf
  <2>7. StateMap' = [StateMap EXCEPT ![r] = "posted"]
    BY <2>5, <2>6 DEF StateMap
  <2>8. delivery!Post(r)
    BY <2>4, <2>6, <2>7 DEF StateMap, StateOf, Acked, delivery!Post
  <2> QED  BY <2>8 DEF delivery!Next
<1>6. CASE Dies
  <2>1. /\ http' = [r \in Requests |-> IF http[r] \in {"sending", "acking"} THEN "broken" ELSE http[r]]
        /\ lost' = lost \cup Holding /\ UNCHANGED <<taken, posts>>
    BY <1>6, DiesLoses DEF Lose, cluster
  <2> DEFINE broken == {r \in Requests : http[r] = "sending"}
  <2>2. Acked' = Acked
    BY <1>0, <2>1 DEF Acked
  <2>3. \A r \in broken : StateOf(r) = "new"
    BY <1>0 DEF StateOf, Lifecycle
  <2>4. ASSUME NEW r \in Requests
        PROVE  StateOf(r)' = IF StateOf(r) = "taken" THEN "lost" ELSE IF r \in broken THEN "refused" ELSE StateOf(r)
    <3>1. CASE r \notin taken
      <4>1. http[r] \notin {"acking", "accepted"}
        BY <1>0, <3>1 DEF Lifecycle
      <4> QED  BY <1>0, <2>1, <3>1, <4>1 DEF StateOf
    <3>2. CASE r \in taken
      <4>1. http[r] # "sending"
        BY <1>0, <3>2 DEF Lifecycle
      <4>2. posts[r] \in {0, 1}
        BY <1>0 DEF Lifecycle
      <4>3. posts[r] = 0 => r \in lost'
        BY <1>0, <2>1, <3>2 DEF HeldUntilPosted
      <4> QED  BY <2>1, <3>2, <4>1, <4>2, <4>3 DEF StateOf
    <3> QED  BY <3>1, <3>2
  <2>5. StateMap' = [r \in Requests |-> IF StateMap[r] = "taken" THEN "lost"
                                        ELSE IF r \in broken THEN "refused" ELSE StateMap[r]]
    BY <2>4 DEF StateMap
  <2>6. broken \in SUBSET {r \in Requests : StateMap[r] = "new"}
    BY <2>3 DEF StateMap
  <2> HIDE DEF broken
  <2>7. delivery!Die
    BY <2>2, <2>5, <2>6 DEF StateMap, StateOf, Acked, delivery!Die
  <2> QED  BY <2>7 DEF delivery!Next
<1>7. CASE GroupRequest \/ SendGroup \/ TakeGroup \/ DecideService \/ AssignService
  BY <1>1, <1>7 DEF GroupRequest, SendGroup, TakeGroup, DecideService, AssignService, ProcessorOnly, cluster
<1>8. CASE CreateNewService \/ (\E s \in senders : SeesReady(s))
  BY <1>1, <1>8 DEF CreateNewService, SeesReady, cluster
<1>9. CASE (\E m \in Names : ServiceReady(m) \/ ServiceDeleted(m)) \/ Repartition \/ UNCHANGED vars
  BY <1>1, <1>9 DEF ServiceReady, ServiceDeleted, Repartition, vars, cluster
<1> QED
  BY <1>2, <1>3, <1>4, <1>5, <1>6, <1>7, <1>8, <1>9 DEF Next, Handler, Worker, Processor, Posting, Dies

\* Seen by clients and services, the Dispatcher takes, acknowledges and posts requests
\* as RequestDelivery promises.
THEOREM ImplementsDelivery == Spec => DeliverySpec
<1>1. Init => delivery!Init
  BY DeliveryInit
<1>2. IInv /\ IInv' /\ [Next]_vars => [delivery!Next]_(delivery!vars)
  BY DeliveryStep
<1> QED  BY <1>1, <1>2, Invariance, PTL DEF Spec, DeliverySpec, delivery!Spec
=============================================================================
