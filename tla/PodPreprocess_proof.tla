------------------------ MODULE PodPreprocess_proof ------------------------
(***************************************************************************)
(* Proofs about PodPreprocess: type correctness, the soundness of the      *)
(* affinity labels and their stability, for any number of pods, nodes,     *)
(* templates, stops and restarts and whichever API calls fail; and that it *)
(* implements AffinityPromise: short of a collision the map is exactly the *)
(* stops that are owed, and every step of the goroutines, of the cluster   *)
(* and of a restart is a step of the promise or none.                      *)
(***************************************************************************)
EXTENDS PodPreprocess, SequenceTheorems, TLAPS

\* An empty map has no keys.
LEMMA EmptyLookupKeys == DOMAIN EmptyLookup = {}
  BY DEF EmptyLookup

\* Queues read from a well-formed map are sequences over what the map holds.
LEMMA ReadFacts ==
    ASSUME NEW m, NEW key, NEW S,
           key \in DOMAIN m => m[key] \in Seq(S)
    PROVE  /\ ValuesOf(m, key) \in Seq(S)
           /\ HasFirstVal(m, key) => ValuesOf(m, key) # <<>>
  BY EmptySeq DEF ValuesOf, HasFirstVal

-----------------------------------------------------------------------------

\* Every step keeps every variable within its type.
LEMMA TypeStep ==
    ASSUME TypeOK, QueuesSound, [Next]_vars
    PROVE  TypeOK'
<1> USE NamesAssumption, HashAssumption, BoundsAssumption DEF TypeOK, Keys, PrepAt, StopperAt
<1>0. <<>> \in Seq(Nodes)
  BY EmptySeq
<1>1. ASSUME NEW p \in Pods, CreatePod(p) PROVE TypeOK'
  BY <1>1 DEF CreatePod, histVars
<1>2. ASSUME NEW p \in Pods, PodGone(p) PROVE TypeOK'
  BY <1>2 DEF PodGone, histVars
<1>3. ASSUME NEW p \in Pods, Reconcile(p) PROVE TypeOK'
  BY <1>3 DEF Reconcile, histVars, apiVars
<1>4. ASSUME NEW t \in Templates, RemoveReplicaSet(t) PROVE TypeOK'
  BY <1>4 DEF RemoveReplicaSet, histVars
<1>5. CASE Receive
  BY <1>5 DEF Receive, histVars, apiVars
<1>6. CASE GetPod
  <2>1. \/ prep' = IdlePrep
        \/ prep' = [prep EXCEPT !.at = "empty"] /\ prep.pod \in Pods
    BY <1>6 DEF GetPod
  <2>2. CASE prep' = IdlePrep
    BY <1>0, <1>6, <2>2 DEF GetPod, PrepLocal, IdlePrep, histVars, apiVars
  <2>3. CASE prep' = [prep EXCEPT !.at = "empty"] /\ prep.pod \in Pods
    BY <1>6, <2>3 DEF GetPod, PrepLocal, histVars, apiVars
  <2>. QED  BY <2>1, <2>2, <2>3
<1>7. CASE CheckEmpty
  BY <1>7 DEF CheckEmpty, PrepLocal, histVars, apiVars
<1>8. CASE PatchLabel
  BY <1>0, <1>8 DEF PatchLabel, IdlePrep, histVars, apiVars
<1>9. CASE FirstVal
  <2>1. Hash[prep.pod] \in Keys
    BY <1>9 DEF FirstVal
  <2>2. ValuesOf(lookup, Hash[prep.pod]) \in Seq(Nodes)
    BY <2>1, ReadFacts
  <2>. QED  BY <1>9, <2>2 DEF FirstVal, PrepLocal, histVars, apiVars
<1>10. CASE UpdateLabels
  <2>0. prep.pod \in Pods /\ prep.seen \in Seq(Nodes)
    BY <1>10 DEF UpdateLabels
  <2>1. Hash[prep.pod] \in Keys
    BY <2>0
  <2>2. Head(prep.seen) \in Nodes
    BY <2>0, <1>10, HeadTailProperties DEF UpdateLabels, QueuesSound
  <2>3. owed' \in [Keys -> Seq(Nodes)]
    <3>1. owed[Hash[prep.pod]] # <<>> => Tail(owed[Hash[prep.pod]]) \in Seq(Nodes)
      BY <2>1, HeadTailProperties
    <3>2. CASE owed' = owed
      BY <3>2
    <3>3. CASE owed' = [owed EXCEPT ![Hash[prep.pod]] = IF @ = <<>> THEN @ ELSE Tail(@)]
      BY <2>1, <3>1, <3>3
    <3>. QED  BY <1>10, <3>2, <3>3 DEF UpdateLabels
  <2>4. done' \in [Pods -> BOOLEAN] /\ expected' \in [Pods -> Nodes \cup {NoNode}]
    <3>1. CASE UNCHANGED <<done, expected>>
      BY <3>1
    <3>2. CASE /\ done' = [done EXCEPT ![prep.pod] = TRUE]
               /\ expected' = [expected EXCEPT ![prep.pod] = Head(prep.seen)]
      BY <2>2, <3>2
    <3>. QED  BY <1>10, <3>1, <3>2 DEF UpdateLabels
  <2>5. prep' \in [at : PrepAt, pod : Pods \cup {NoPod}, seen : Seq(Nodes), keys : SUBSET Keys]
        /\ prep'.pod \in Pods
    <3>1. CASE prep' = [prep EXCEPT !.at = "popRead"]
      BY <2>0, <3>1
    <3>2. CASE prep' = [prep EXCEPT !.at = "keys", !.seen = <<>>]
      BY <1>0, <2>0, <3>2
    <3>. QED  BY <1>10, <3>1, <3>2 DEF UpdateLabels
  <2>. QED  BY <1>10, <2>3, <2>4, <2>5 DEF UpdateLabels
<1>11. CASE PopRead
  <2>1. Hash[prep.pod] \in Keys
    BY <1>11 DEF PopRead
  <2>2. ValuesOf(lookup, Hash[prep.pod]) \in Seq(Nodes)
    BY <2>1, ReadFacts
  <2>. QED  BY <1>0, <1>11, <2>2 DEF PopRead, PrepLocal, IdlePrep, histVars, apiVars
<1>12. CASE PopWrite
  <2>1. Hash[prep.pod] \in Keys /\ prep.pod \in Pods
    BY <1>12 DEF PopWrite
  <2>2. Tail(prep.seen) \in Seq(Nodes)
    BY <1>12, HeadTailProperties DEF PopWrite, QueuesSound
  <2>3. DOMAIN lookup' \subseteq Keys /\ \A k \in DOMAIN lookup' : lookup'[k] \in Seq(Nodes)
    BY <1>12, <2>1, <2>2 DEF PopWrite, Put
  <2>. QED  BY <1>12, <2>1, <2>3 DEF PopWrite, histVars, apiVars
<1>13. CASE PopLen
  BY <1>0, <1>13 DEF PopLen, PrepLocal, IdlePrep, histVars, apiVars
<1>14. CASE PopDelete
  <2>1. DOMAIN lookup' \subseteq Keys /\ \A k \in DOMAIN lookup' : lookup'[k] \in Seq(Nodes)
    BY <1>14 DEF PopDelete, DeleteKey
  <2>. QED  BY <1>0, <1>14, <2>1 DEF PopDelete, IdlePrep, histVars, apiVars
<1>15. CASE SweepKeys
  BY <1>0, <1>15 DEF SweepKeys, PrepLocal, histVars, apiVars
<1>16. ASSUME NEW k \in Keys, SweepKey(k) PROVE TypeOK'
  <2>1. DOMAIN lookup' \subseteq Keys /\ \A j \in DOMAIN lookup' : lookup'[j] \in Seq(Nodes)
    BY <1>16 DEF SweepKey, DeleteKey
  <2>2. prep' \in [at : PrepAt, pod : Pods \cup {NoPod}, seen : Seq(Nodes), keys : SUBSET Keys]
        /\ prep'.pod \in Pods
    BY <1>16 DEF SweepKey
  <2>3. owed' \in [Keys -> Seq(Nodes)] /\ raced' \in BOOLEAN
    <3>1. CASE UNCHANGED <<owed, raced>>
      BY <3>1
    <3>2. CASE owed' = [owed EXCEPT ![k] = <<>>] /\ raced' = (raced \/ StopperConflict(k))
      BY <1>0, <3>2 DEF StopperConflict
    <3>. QED  BY <1>16, <3>1, <3>2 DEF SweepKey
  <2>. QED  BY <1>16, <2>1, <2>2, <2>3 DEF SweepKey, apiVars
<1>17. CASE SweepEnd
  BY <1>17 DEF SweepEnd, PrepLocal, histVars, apiVars
<1>18. ASSUME NEW p \in Pods, NEW n \in Nodes, StopGet(p, n) PROVE TypeOK'
  <2>1. stopper' \in [at : StopperAt, pod : Pods \cup {NoPod}, key : Keys,
                      node : Nodes \cup {NoNode}, seen : Seq(Nodes)]
        /\ stopper'.pod \in Pods /\ stopper'.node \in Nodes
    BY <1>0, <1>18 DEF StopGet
  <2>. QED  BY <1>18, <2>1 DEF StopGet, StopperLocal, histVars, apiVars
<1>19. CASE StopDelete
  <2>0. stopper.pod \in Pods /\ stopper.node \in Nodes /\ stopper.key \in Keys
    BY <1>19 DEF StopDelete
  <2>1. CASE stopper' = IdleStopper /\ UNCHANGED <<phase, stoppedOn>>
    BY <1>0, <1>19, <2>1 DEF StopDelete, IdleStopper
  <2>2. CASE /\ phase' = [phase EXCEPT ![stopper.pod] = "terminating"]
             /\ stopper' = [stopper EXCEPT !.at = "addRead"]
             /\ stoppedOn' = [stoppedOn EXCEPT ![stopper.key] = @ \cup {stopper.node}]
    BY <1>19, <2>0, <2>2 DEF StopDelete
  <2>. QED  BY <1>19, <2>1, <2>2 DEF StopDelete
<1>20. CASE AddRead
  <2>1. ValuesOf(lookup, stopper.key) \in Seq(Nodes)
    BY ReadFacts
  <2>. QED  BY <1>20, <2>1 DEF AddRead, StopperLocal, histVars, apiVars
<1>21. CASE AddWrite
  <2>1. stopper.node \in Nodes /\ stopper.key \in Keys /\ stopper.seen \in Seq(Nodes)
    BY <1>21 DEF AddWrite
  <2>2. Append(stopper.seen, stopper.node) \in Seq(Nodes)
        /\ Append(owed[stopper.key], stopper.node) \in Seq(Nodes)
    BY <2>1, AppendProperties
  <2>3. DOMAIN lookup' \subseteq Keys /\ \A k \in DOMAIN lookup' : lookup'[k] \in Seq(Nodes)
    BY <1>21, <2>1, <2>2 DEF AddWrite, Put
  <2>. QED  BY <1>0, <1>21, <2>1, <2>2, <2>3 DEF AddWrite, IdleStopper, histVars, apiVars
<1>22. CASE Crash
  <2>1. lookup' = EmptyLookup /\ owed' \in [Keys -> Seq(Nodes)] /\ restarts' \in 0..MaxRestarts
    BY <1>0, <1>22 DEF Crash
  <2>. QED  BY <1>0, <1>22, <2>1, EmptyLookupKeys DEF Crash, IdlePrep, IdleStopper, histVars, apiVars
<1>23. CASE UNCHANGED vars
  BY <1>23 DEF vars, histVars, apiVars
<1>. QED
  BY <1>1, <1>2, <1>3, <1>4, <1>5, <1>6, <1>7, <1>8, <1>9, <1>10, <1>11, <1>12, <1>13,
     <1>14, <1>15, <1>16, <1>17, <1>18, <1>19, <1>20, <1>21, <1>22, <1>23
  DEF Next, Preprocess, StopPods

-----------------------------------------------------------------------------

\* What was stopped somewhere stays recorded.
LEMMA StoppedOnGrows ==
    ASSUME TypeOK, [Next]_vars
    PROVE  \A k \in Keys : stoppedOn[k] \subseteq stoppedOn'[k]
<1> USE DEF TypeOK, histVars, apiVars
<1>1. CASE StopDelete
  <2>1. CASE UNCHANGED stoppedOn
    BY <2>1
  <2>2. CASE stoppedOn' = [stoppedOn EXCEPT ![stopper.key] = @ \cup {stopper.node}]
    BY <2>2
  <2>. QED  BY <1>1, <2>1, <2>2 DEF StopDelete
<1>2. ASSUME ~StopDelete PROVE UNCHANGED stoppedOn
  BY <1>2 DEF Next, vars, CreatePod, PodGone, Reconcile, RemoveReplicaSet, Receive, Preprocess,
     PrepLocal, GetPod, CheckEmpty, PatchLabel, FirstVal, UpdateLabels, PopRead, PopWrite, PopLen,
     PopDelete, SweepKeys, SweepKey, SweepEnd, StopGet, StopPods, StopperLocal, AddRead, AddWrite,
     Crash
<1>. QED  BY <1>1, <1>2

\* Every step keeps the queues of nodes sound.
LEMMA QueuesStep ==
    ASSUME TypeOK, QueuesSound, [Next]_vars
    PROVE  QueuesSound'
<1> USE NamesAssumption, HashAssumption
<1> DEFINE
      MapOK   == \A k \in DOMAIN lookup : lookup[k] \in Seq(stoppedOn[k])
      PrepOK  == prep.at \in {"update", "popWrite"} =>
                   prep.seen \in Seq(stoppedOn[Hash[prep.pod]]) /\ prep.seen # <<>>
      StopOK  == /\ stopper.at \in {"addRead", "addWrite"} => stopper.node \in stoppedOn[stopper.key]
                 /\ stopper.at = "addWrite" => stopper.seen \in Seq(stoppedOn[stopper.key])
<1>0. MapOK /\ PrepOK /\ StopOK
  BY DEF QueuesSound
<1>1. \A k \in Keys : Seq(stoppedOn[k]) \subseteq Seq(stoppedOn'[k])
  BY StoppedOnGrows, SeqMonotonic
<1>2. (UNCHANGED lookup) => MapOK'
  BY <1>0, <1>1 DEF TypeOK
<1>3. (UNCHANGED prep) => PrepOK'
  <2>1. prep.at # "recv" => Hash[prep.pod] \in Keys
    BY DEF TypeOK, Keys
  <2>. QED  BY <1>0, <1>1, <2>1
<1>4. (UNCHANGED stopper) => StopOK'
  <2>1. stopper.key \in Keys
    BY DEF TypeOK
  <2>. QED  BY <1>0, <1>1, <2>1, StoppedOnGrows
<1>. HIDE DEF MapOK, PrepOK, StopOK
<1>5. SUFFICES MapOK' /\ PrepOK' /\ StopOK'
  BY DEF QueuesSound, MapOK, PrepOK, StopOK
<1>6. ASSUME NEW p \in Pods, CreatePod(p) \/ PodGone(p) \/ Reconcile(p)
      PROVE  MapOK' /\ PrepOK' /\ StopOK'
  BY <1>2, <1>3, <1>4, <1>6 DEF CreatePod, PodGone, Reconcile
<1>7. ASSUME NEW t \in Templates, RemoveReplicaSet(t) PROVE MapOK' /\ PrepOK' /\ StopOK'
  BY <1>2, <1>3, <1>4, <1>7 DEF RemoveReplicaSet
<1>8. CASE Receive
  <2>1. PrepOK'
    BY <1>8 DEF Receive, PrepOK, TypeOK
  <2>. QED  BY <1>2, <1>4, <1>8, <2>1 DEF Receive
<1>9. CASE GetPod \/ CheckEmpty \/ PopLen \/ SweepKeys \/ SweepEnd \/ PatchLabel
  <2>1. prep'.at \notin {"update", "popWrite"}
    <3>1. CASE prep' = IdlePrep
      BY <3>1 DEF IdlePrep
    <3>2. CASE \E a \in PrepAt \ {"update", "popWrite"} : prep'.at = a
      BY <3>2
    <3>3. GetPod \/ CheckEmpty => prep' = IdlePrep \/ prep'.at \in {"empty", "patch", "first"}
      BY DEF GetPod, CheckEmpty, TypeOK
    <3>4. PopLen \/ PatchLabel => prep' = IdlePrep \/ prep'.at = "popDelete"
      BY DEF PopLen, PatchLabel, TypeOK
    <3>5. SweepKeys \/ SweepEnd => prep'.at \in {"sweep", "resend"}
      <4>1. SweepKeys => prep'.at = "sweep"
        BY DEF SweepKeys, TypeOK
      <4>2. SweepEnd => prep'.at = "resend"
        BY DEF SweepEnd, TypeOK
      <4>. QED  BY <4>1, <4>2
    <3>. QED  BY <1>9, <3>1, <3>2, <3>3, <3>4, <3>5 DEF PrepAt
  <2>. QED
    BY <1>2, <1>4, <1>9, <2>1
    DEF GetPod, CheckEmpty, PopLen, SweepKeys, SweepEnd, PatchLabel, PrepLocal, PrepOK
<1>10. CASE FirstVal \/ PopRead
  <2>1. Hash[prep.pod] \in Keys
    BY <1>10 DEF FirstVal, PopRead, TypeOK, Keys
  <2>2. /\ ValuesOf(lookup, Hash[prep.pod]) \in Seq(stoppedOn[Hash[prep.pod]])
        /\ HasFirstVal(lookup, Hash[prep.pod]) => ValuesOf(lookup, Hash[prep.pod]) # <<>>
    BY <1>0, ReadFacts DEF MapOK
  <2>3. PrepOK'
    <3>1. CASE prep'.at \notin {"update", "popWrite"}
      BY <3>1 DEF PrepOK
    <3>2. CASE /\ HasFirstVal(lookup, Hash[prep.pod])
               /\ \/ prep' = [prep EXCEPT !.at = "update", !.seen = ValuesOf(lookup, Hash[prep.pod])]
                  \/ prep' = [prep EXCEPT !.at = "popWrite", !.seen = ValuesOf(lookup, Hash[prep.pod])]
      <4>1. prep'.pod = prep.pod /\ prep'.seen = ValuesOf(lookup, Hash[prep.pod])
        BY <3>2 DEF TypeOK
      <4>2. stoppedOn' = stoppedOn
        BY <1>10 DEF FirstVal, PopRead, PrepLocal, histVars
      <4>. QED  BY <2>2, <3>2, <4>1, <4>2 DEF PrepOK
    <3>3. prep' = [prep EXCEPT !.at = "keys"] => prep'.at = "keys"
      BY DEF TypeOK
    <3>4. prep' = IdlePrep => prep'.at = "recv"
      BY DEF IdlePrep
    <3>. QED  BY <1>10, <3>1, <3>2, <3>3, <3>4 DEF FirstVal, PopRead
  <2>. QED  BY <1>2, <1>4, <1>10, <2>3 DEF FirstVal, PopRead, PrepLocal
<1>11. CASE UpdateLabels
  <2>1. prep'.at \notin {"update", "popWrite"}
    <3>1. CASE prep' = [prep EXCEPT !.at = "popRead"]
      BY <3>1 DEF TypeOK
    <3>2. CASE prep' = [prep EXCEPT !.at = "keys", !.seen = <<>>]
      BY <3>2 DEF TypeOK
    <3>. QED  BY <1>11, <3>1, <3>2 DEF UpdateLabels
  <2>. QED  BY <1>2, <1>4, <1>11, <2>1 DEF UpdateLabels, PrepOK
<1>12. CASE PopWrite
  <2>1. prep'.at \notin {"update", "popWrite"}
    BY <1>12 DEF PopWrite, TypeOK
  <2>2. Tail(prep.seen) \in Seq(stoppedOn[Hash[prep.pod]])
    BY <1>0, <1>12, HeadTailProperties DEF PopWrite, PrepOK
  <2>3. MapOK'
    BY <1>0, <1>12, <2>2 DEF PopWrite, Put, MapOK
  <2>. QED  BY <1>4, <1>12, <2>1, <2>3 DEF PopWrite, PrepOK
<1>13. CASE PopDelete
  <2>1. PrepOK'
    BY <1>13 DEF PopDelete, IdlePrep, PrepOK
  <2>2. MapOK'
    BY <1>0, <1>13 DEF PopDelete, DeleteKey, MapOK
  <2>. QED  BY <1>4, <1>13, <2>1, <2>2 DEF PopDelete
<1>14. ASSUME NEW k \in Keys, SweepKey(k) PROVE MapOK' /\ PrepOK' /\ StopOK'
  <2>1. PrepOK'
    BY <1>14 DEF SweepKey, PrepOK, TypeOK
  <2>2. MapOK'
    BY <1>0, <1>14 DEF SweepKey, DeleteKey, MapOK
  <2>. QED  BY <1>4, <1>14, <2>1, <2>2 DEF SweepKey
<1>15. ASSUME NEW p \in Pods, NEW n \in Nodes, StopGet(p, n) PROVE MapOK' /\ PrepOK' /\ StopOK'
  <2>1. stopper'.at = "delete"
    BY <1>15 DEF StopGet
  <2>. QED  BY <1>2, <1>3, <1>15, <2>1 DEF StopGet, StopperLocal, StopOK
<1>16. CASE StopDelete
  <2>1. StopOK'
    <3>1. CASE stopper' = IdleStopper
      BY <3>1 DEF IdleStopper, StopOK
    <3>2. CASE /\ stopper' = [stopper EXCEPT !.at = "addRead"]
               /\ stoppedOn' = [stoppedOn EXCEPT ![stopper.key] = @ \cup {stopper.node}]
      BY <3>2 DEF StopOK, TypeOK
    <3>. QED  BY <1>16, <3>1, <3>2 DEF StopDelete
  <2>. QED  BY <1>2, <1>3, <1>16, <2>1 DEF StopDelete
<1>17. CASE AddRead
  <2>1. ValuesOf(lookup, stopper.key) \in Seq(stoppedOn[stopper.key])
    BY <1>0, ReadFacts DEF MapOK
  <2>2. StopOK'
    BY <1>0, <1>17, <2>1 DEF AddRead, histVars, StopOK, TypeOK
  <2>. QED  BY <1>2, <1>3, <1>17, <2>2 DEF AddRead, StopperLocal
<1>18. CASE AddWrite
  <2>1. Append(stopper.seen, stopper.node) \in Seq(stoppedOn[stopper.key])
    BY <1>0, <1>18, AppendProperties DEF AddWrite, StopOK
  <2>2. MapOK'
    BY <1>0, <1>18, <2>1 DEF AddWrite, Put, MapOK
  <2>3. StopOK'
    BY <1>18 DEF AddWrite, IdleStopper, StopOK
  <2>. QED  BY <1>3, <1>18, <2>2, <2>3 DEF AddWrite
<1>19. CASE Crash
  BY <1>19, EmptyLookupKeys DEF Crash, IdlePrep, IdleStopper, MapOK, PrepOK, StopOK
<1>20. CASE UNCHANGED vars
  BY <1>2, <1>3, <1>4, <1>20 DEF vars
<1>. QED
  BY <1>6, <1>7, <1>8, <1>9, <1>10, <1>11, <1>12, <1>13, <1>14, <1>15, <1>16, <1>17, <1>18,
     <1>19, <1>20
  DEF Next, Preprocess, StopPods

-----------------------------------------------------------------------------

\* The labels change in two steps of the handler only.
LEMMA LabelChanges ==
    ASSUME TypeOK, [Next]_vars
    PROVE  /\ UpdateLabels \/ UNCHANGED expected
           /\ UpdateLabels \/ PatchLabel \/ UNCHANGED done
  BY DEF Next, vars, apiVars, CreatePod, PodGone, Reconcile, RemoveReplicaSet, Receive, Preprocess,
     PrepLocal, GetPod, CheckEmpty, PatchLabel, FirstVal, PopRead, PopWrite, PopLen,
     PopDelete, SweepKeys, SweepKey, SweepEnd, StopGet, StopDelete, StopPods, StopperLocal, AddRead,
     AddWrite, Crash

\* Every step keeps the affinity labels sound.
LEMMA AffinityStep ==
    ASSUME TypeOK, QueuesSound, AffinitySound, [Next]_vars
    PROVE  AffinitySound'
<1> USE NamesAssumption, HashAssumption
<1>1. CASE UNCHANGED expected
  BY <1>1, StoppedOnGrows DEF AffinitySound, TypeOK
<1>2. CASE UpdateLabels /\ ~UNCHANGED expected
  <2>1. /\ prep.pod \in Pods
        /\ expected' = [expected EXCEPT ![prep.pod] = Head(prep.seen)]
        /\ UNCHANGED stoppedOn
    BY <1>2 DEF UpdateLabels, TypeOK
  <2>2. Head(prep.seen) \in stoppedOn[Hash[prep.pod]]
    BY <1>2, HeadTailProperties DEF UpdateLabels, QueuesSound
  <2>. QED  BY <2>1, <2>2 DEF AffinitySound, TypeOK
<1>. QED  BY <1>1, <1>2, LabelChanges

\* Every step keeps an unlabelled pod at one place of its way.
LEMMA OnePlaceStep ==
    ASSUME TypeOK, OnePlace, [Next]_vars
    PROVE  OnePlace'
<1> USE NamesAssumption DEF OnePlace, TypeOK
<1>1. ASSUME NEW p \in Pods, CreatePod(p) PROVE OnePlace'
  BY <1>1 DEF CreatePod
<1>2. ASSUME NEW p \in Pods, PodGone(p) PROVE OnePlace'
  BY <1>2 DEF PodGone
<1>3. ASSUME NEW p \in Pods, Reconcile(p) PROVE OnePlace'
  BY <1>3 DEF Reconcile, apiVars, Exists
<1>4. ASSUME NEW t \in Templates, RemoveReplicaSet(t) PROVE OnePlace'
  BY <1>4 DEF RemoveReplicaSet
<1>5. CASE Receive
  BY <1>5 DEF Receive, apiVars
<1>6. CASE GetPod
  BY <1>6 DEF GetPod, PrepLocal, apiVars, IdlePrep
<1>7. CASE CheckEmpty
  BY <1>7 DEF CheckEmpty, PrepLocal, apiVars
<1>8. CASE PatchLabel
  BY <1>8 DEF PatchLabel, IdlePrep
<1>9. CASE FirstVal
  BY <1>9 DEF FirstVal, PrepLocal, apiVars
<1>10. CASE UpdateLabels
  <2>1. CASE /\ prep' = [prep EXCEPT !.at = "popRead"]
             /\ done' = [done EXCEPT ![prep.pod] = TRUE]
    BY <1>10, <2>1 DEF UpdateLabels
  <2>2. CASE prep' = [prep EXCEPT !.at = "keys", !.seen = <<>>] /\ UNCHANGED done
    BY <1>10, <2>2 DEF UpdateLabels
  <2>. QED  BY <1>10, <2>1, <2>2 DEF UpdateLabels
<1>11. CASE PopRead
  BY <1>11 DEF PopRead, PrepLocal, apiVars, IdlePrep
<1>12. CASE PopWrite
  BY <1>12 DEF PopWrite, apiVars
<1>13. CASE PopLen
  BY <1>13 DEF PopLen, PrepLocal, apiVars, IdlePrep
<1>14. CASE PopDelete
  BY <1>14 DEF PopDelete, apiVars, IdlePrep
<1>15. CASE SweepKeys
  BY <1>15 DEF SweepKeys, PrepLocal, apiVars
<1>16. ASSUME NEW k \in Keys, SweepKey(k) PROVE OnePlace'
  BY <1>16 DEF SweepKey, apiVars
<1>17. CASE SweepEnd
  BY <1>17 DEF SweepEnd, PrepLocal, apiVars
<1>18. ASSUME NEW p \in Pods, NEW n \in Nodes, StopGet(p, n) PROVE OnePlace'
  BY <1>18 DEF StopGet, StopperLocal, apiVars
<1>19. CASE StopDelete
  BY <1>19 DEF StopDelete, Exists
<1>20. CASE AddRead
  BY <1>20 DEF AddRead, StopperLocal, apiVars
<1>21. CASE AddWrite
  BY <1>21 DEF AddWrite, apiVars
<1>22. CASE Crash
  BY <1>22 DEF Crash, apiVars, IdlePrep, Exists
<1>23. CASE UNCHANGED vars
  BY <1>23 DEF vars, apiVars
<1>. QED
  BY <1>1, <1>2, <1>3, <1>4, <1>5, <1>6, <1>7, <1>8, <1>9, <1>10, <1>11, <1>12, <1>13,
     <1>14, <1>15, <1>16, <1>17, <1>18, <1>19, <1>20, <1>21, <1>22, <1>23
  DEF Next, Preprocess, StopPods

-----------------------------------------------------------------------------

\* The inductive invariant holds in the initial states.
LEMMA InitIInv == Init => IInv
<1> SUFFICES ASSUME Init PROVE IInv
  OBVIOUS
<1> USE NamesAssumption, HashAssumption, BoundsAssumption
<1>1. <<>> \in Seq(Nodes)
  BY EmptySeq
<1>2. TypeOK
  <2>1. prep \in [at : PrepAt, pod : Pods \cup {NoPod}, seen : Seq(Nodes), keys : SUBSET Keys]
        /\ prep.at = "recv"
    BY <1>1 DEF Init, IdlePrep, PrepAt
  <2>2. stopper \in [at : StopperAt, pod : Pods \cup {NoPod}, key : Keys,
                     node : Nodes \cup {NoNode}, seen : Seq(Nodes)]
        /\ stopper.at = "idle"
    BY <1>1 DEF Init, IdleStopper, StopperAt, Keys
  <2>3. stops \in 0..MaxStops /\ restarts \in 0..MaxRestarts
    BY DEF Init
  <2>4. owed \in [Keys -> Seq(Nodes)] /\ stoppedOn \in [Keys -> SUBSET Nodes]
    BY <1>1 DEF Init
  <2>. QED  BY <2>1, <2>2, <2>3, <2>4, EmptyLookupKeys DEF Init, TypeOK
<1>3. AffinitySound
  BY DEF Init, AffinitySound
<1>4. QueuesSound
  BY EmptyLookupKeys DEF Init, QueuesSound, IdlePrep, IdleStopper
<1>5. OnePlace
  BY DEF Init, OnePlace, IdlePrep
<1>. QED  BY <1>2, <1>3, <1>4, <1>5 DEF IInv

\* The inductive invariant holds in every reachable state.
THEOREM Invariance == Spec => []IInv
<1>1. IInv /\ [Next]_vars => IInv'
  BY TypeStep, QueuesStep, AffinityStep, OnePlaceStep DEF IInv
<1>. QED  BY InitIInv, <1>1, PTL DEF Spec

\* Every variable keeps its type, so no step of the handler, of stopPods or of
\* a restart indexes an empty queue or works on no pod.
THEOREM TypeCorrect == Spec => []TypeOK
<1>1. IInv => TypeOK
  BY DEF IInv
<1>. QED  BY <1>1, Invariance, PTL

\* A pod is directed to a node only if a pod of its template was stopped there.
THEOREM AffinityIsSound == Spec => []AffinitySound
<1>1. IInv => AffinitySound
  BY DEF IInv
<1>. QED  BY <1>1, Invariance, PTL

\* A released pod is never released again and never sent elsewhere.
THEOREM LabelsAreStable == Spec => LabelsStable
<1>1. IInv /\ [Next]_vars =>
        [\A p \in Pods : done[p] => done'[p] /\ expected'[p] = expected[p]]_vars
  <2> SUFFICES ASSUME TypeOK, OnePlace, [Next]_vars, NEW p \in Pods, done[p]
               PROVE  done'[p] /\ expected'[p] = expected[p]
    BY DEF IInv
  <2>1. CASE UNCHANGED <<done, expected>>
    BY <2>1
  <2>2. CASE UpdateLabels
    BY <2>2 DEF UpdateLabels, OnePlace, TypeOK
  <2>3. CASE PatchLabel
    BY <2>3 DEF PatchLabel, OnePlace, TypeOK
  <2>. QED  BY <2>1, <2>2, <2>3, LabelChanges
<1>. QED  BY <1>1, Invariance, PTL DEF Spec, LabelsStable

-----------------------------------------------------------------------------
(* PodPreprocess implements AffinityPromise *)

\* A queue is its first node followed by the others.
LEMMA ConsOfSeq ==
    ASSUME NEW S, NEW s \in Seq(S), s # <<>>
    PROVE  s = <<Head(s)>> \o Tail(s)
<1>1. /\ Head(s) \in S /\ Tail(s) \in Seq(S) /\ Len(Tail(s)) = Len(s) - 1
      /\ \A i \in 1..Len(Tail(s)) : Tail(s)[i] = s[i + 1]
  BY HeadTailProperties
<1>2. <<Head(s)>> \in Seq(S) /\ Len(<<Head(s)>>) = 1 /\ <<Head(s)>>[1] = Head(s)
  BY <1>1
<1>3. DEFINE t == <<Head(s)>> \o Tail(s)
<1>4. Len(s) \in Nat /\ Len(s) > 0 /\ s[1] = Head(s)
  BY LenProperties, EmptySeq
<1>5. /\ t \in Seq(S) /\ Len(t) = Len(s)
      /\ \A i \in 1..Len(s) : t[i] = IF i <= 1 THEN Head(s) ELSE Tail(s)[i - 1]
  <2>1. /\ t \in Seq(S) /\ Len(t) = 1 + Len(Tail(s))
        /\ \A i \in 1..1 + Len(Tail(s)) :
              t[i] = IF i <= 1 THEN <<Head(s)>>[i] ELSE Tail(s)[i - 1]
    BY <1>1, <1>2, ConcatProperties
  <2>. QED  BY <1>1, <1>2, <1>4, <2>1
<1>6. \A i \in 1..Len(s) : t[i] = s[i]
  BY <1>1, <1>4, <1>5
<1>. QED  BY <1>5, <1>6, SeqEqual

\* The first node and the others of a queue put together from them.
LEMMA SeqOfCons ==
    ASSUME NEW S, NEW e \in S, NEW t \in Seq(S)
    PROVE  <<e>> \o t # <<>> /\ Head(<<e>> \o t) = e /\ Tail(<<e>> \o t) = t
<1>1. DEFINE s == <<e>> \o t
<1>2. <<e>> \in Seq(S) /\ Len(<<e>>) = 1 /\ <<e>>[1] = e
  OBVIOUS
<1>3. /\ s \in Seq(S) /\ Len(s) = 1 + Len(t)
      /\ \A i \in 1..1 + Len(t) : s[i] = IF i <= 1 THEN <<e>>[i] ELSE t[i - 1]
  BY <1>2, ConcatProperties
<1>4. Len(t) \in Nat
  BY LenProperties
<1>5. s # <<>> /\ s[1] = e
  BY <1>2, <1>3, <1>4
<1>6. Head(s) = e
  BY <1>3, <1>5
<1>7. <<Head(s)>> \o Tail(s) = <<e>> \o t
  BY <1>3, <1>5, ConsOfSeq
<1>8. Tail(s) \in Seq(S)
  BY <1>3, <1>5, HeadTailProperties
<1>9. Tail(s) = t
  <2>1. <<e>> \o Tail(s) = <<e>> \o t
    BY <1>6, <1>7
  <2>2. \A u, v, w \in Seq(S) : u \o v = u \o w => v = w
    BY ConcatSimplifications
  <2>. QED  BY <1>2, <1>8, <2>1, <2>2
<1>. QED  BY <1>5, <1>6, <1>9

\* What was assigned to a key is read back, ...
LEMMA ReadBack ==
    ASSUME NEW m, NEW key, NEW v
    PROVE  ValuesOf(Put(m, key, v), key) = v
  BY DEF ValuesOf, Put

\* the other keys keep theirs, ...
LEMMA ReadAfterPut ==
    ASSUME NEW m, NEW key, NEW v, NEW k
    PROVE  ValuesOf(Put(m, key, v), k) = IF k = key THEN v ELSE ValuesOf(m, k)
  BY DEF ValuesOf, Put

\* ... and after a deletion from it.
LEMMA ReadAfterDelete ==
    ASSUME NEW m, NEW key, NEW k
    PROVE  ValuesOf(DeleteKey(m, key), k) = IF k = key THEN <<>> ELSE ValuesOf(m, k)
  BY DEF ValuesOf, DeleteKey

-----------------------------------------------------------------------------

\* Released pods stay released.
LEMMA DoneStays ==
    ASSUME TypeOK, [Next]_vars, NEW p \in Pods, done[p]
    PROVE  done'[p]
<1>1. CASE UNCHANGED done
  BY <1>1
<1>2. CASE UpdateLabels
  BY <1>2 DEF UpdateLabels, TypeOK
<1>3. CASE PatchLabel
  BY <1>3 DEF PatchLabel, TypeOK
<1>. QED  BY <1>1, <1>2, <1>3, LabelChanges

\* Only these steps of the handler come to the pop, and only StopGet gives stopPods a pod.
LEMMA WhoMoves ==
    ASSUME TypeOK, [Next]_vars
    PROVE  /\ \/ UpdateLabels
              \/ PopRead
              \/ prep' = prep
              \/ prep'.at \notin {"popRead", "popWrite"}
           /\ \/ \E p \in Pods, n \in Nodes : StopGet(p, n)
              \/ stopper' = stopper
              \/ stopper'.at = "idle"
              \/ stopper.at # "idle" /\ stopper'.pod = stopper.pod /\ stopper'.key = stopper.key
<1> USE DEF TypeOK, IdlePrep, IdleStopper
<1>1. CASE \/ \E p \in Pods : CreatePod(p) \/ PodGone(p) \/ Reconcile(p)
           \/ \E t \in Templates : RemoveReplicaSet(t)
           \/ UNCHANGED vars
  BY <1>1 DEF CreatePod, PodGone, Reconcile, RemoveReplicaSet, vars
<1>2. CASE Receive
  BY <1>2 DEF Receive
<1>3. CASE GetPod \/ CheckEmpty
  BY <1>3 DEF GetPod, CheckEmpty, PrepLocal
<1>4. CASE PatchLabel \/ FirstVal
  <2>1. PatchLabel => prep'.at = "recv" /\ stopper' = stopper
    BY DEF PatchLabel
  <2>2. FirstVal => prep'.at \in {"update", "keys"} /\ stopper' = stopper
    BY DEF FirstVal, PrepLocal
  <2>. QED  BY <1>4, <2>1, <2>2
<1>5. CASE UpdateLabels \/ PopRead
  BY <1>5 DEF UpdateLabels, PopRead, PrepLocal
<1>6. CASE PopWrite \/ PopLen \/ PopDelete
  BY <1>6 DEF PopWrite, PopLen, PopDelete, PrepLocal
<1>7. CASE SweepKeys \/ SweepEnd
  BY <1>7 DEF SweepKeys, SweepEnd, PrepLocal
<1>8. ASSUME NEW k \in Keys, SweepKey(k)
      PROVE  prep'.at \notin {"popRead", "popWrite"} /\ stopper' = stopper
  BY <1>8 DEF SweepKey
<1>9. CASE \E p \in Pods, n \in Nodes : StopGet(p, n)
  BY <1>9 DEF StopGet, StopperLocal
<1>10. CASE StopDelete \/ AddRead \/ AddWrite
  <2>1. AddWrite => stopper'.at = "idle" /\ prep' = prep
    BY DEF AddWrite
  <2>2. AddRead => stopper.at # "idle" /\ stopper'.pod = stopper.pod /\ stopper'.key = stopper.key /\ prep' = prep
    BY DEF AddRead, StopperLocal
  <2>3. StopDelete => /\ prep' = prep
                      /\ \/ stopper'.at = "idle"
                         \/ stopper.at # "idle" /\ stopper'.pod = stopper.pod /\ stopper'.key = stopper.key
    <3>1. CASE stopper' = IdleStopper
      BY <3>1 DEF StopDelete
    <3>2. CASE stopper' = [stopper EXCEPT !.at = "addRead"]
      BY <3>2 DEF StopDelete
    <3>. QED  BY <3>1, <3>2 DEF StopDelete
  <2>. QED  BY <1>10, <2>1, <2>2, <2>3
<1>11. CASE Crash
  BY <1>11 DEF Crash
<1>. QED
  BY <1>1, <1>2, <1>3, <1>4, <1>5, <1>6, <1>7, <1>8, <1>9, <1>10, <1>11
  DEF Next, Preprocess, StopPods

\* Every step keeps what the locals of the handler and of stopPods say of the labels.
LEMMA LocalsStep ==
    ASSUME TypeOK, QueuesSound, LocalsSound, [Next]_vars
    PROVE  LocalsSound'
<1> USE HashAssumption
<1>1. prep'.at \in {"popRead", "popWrite"} => expected'[prep'.pod] \in Nodes
  <2>1. CASE UpdateLabels
    <3>1. prep.pod \in Pods /\ Head(prep.seen) \in stoppedOn[Hash[prep.pod]]
      BY <2>1, HeadTailProperties DEF UpdateLabels, QueuesSound, TypeOK
    <3>2. Head(prep.seen) \in Nodes
      BY <3>1 DEF TypeOK
    <3>3. CASE prep' = [prep EXCEPT !.at = "popRead"] /\ expected' = [expected EXCEPT ![prep.pod] = Head(prep.seen)]
      BY <3>1, <3>2, <3>3 DEF TypeOK
    <3>4. CASE prep' = [prep EXCEPT !.at = "keys", !.seen = <<>>]
      BY <3>4 DEF TypeOK
    <3>. QED  BY <2>1, <3>3, <3>4 DEF UpdateLabels
  <2>2. CASE PopRead
    BY <2>2 DEF PopRead, PrepLocal, apiVars, IdlePrep, LocalsSound, TypeOK
  <2>3. CASE prep' = prep /\ UNCHANGED expected
    BY <2>3 DEF LocalsSound
  <2>. QED  BY <2>1, <2>2, <2>3, WhoMoves, LabelChanges
<1>2. stopper'.at # "idle" => done'[stopper'.pod] /\ stopper'.key \in {Hash[stopper'.pod], NoHash}
  <2>1. ASSUME NEW p \in Pods, NEW n \in Nodes, StopGet(p, n)
        PROVE  stopper'.pod = p /\ done'[p] /\ stopper'.key \in {Hash[p], NoHash}
    BY <2>1 DEF StopGet, StopperLocal, apiVars
  <2>2. CASE stopper.at # "idle" /\ stopper'.pod = stopper.pod /\ stopper'.key = stopper.key
    BY <2>2, DoneStays DEF LocalsSound, TypeOK
  <2>. QED  BY <2>1, <2>2, WhoMoves
<1>. QED  BY <1>1, <1>2 DEF LocalsSound

\* What ReadsFresh says of the handler, and of stopPods.
PrepFresh ==
    /\ prep.at = "update" =>
          /\ HasFirstVal(lookup, Hash[prep.pod])
          /\ Head(prep.seen) = Head(ValuesOf(lookup, Hash[prep.pod]))
    /\ prep.at = "popWrite" => prep.seen = ValuesOf(lookup, Hash[prep.pod])
    /\ prep.at = "popDelete" => ~HasFirstVal(lookup, Hash[prep.pod])

StopFresh == stopper.at = "addWrite" => stopper.seen = ValuesOf(lookup, stopper.key)

MapIs == \A k \in Keys : ValuesOf(lookup, k) = Unpopped(k) \o owed[k]

\* While the map is exact, every step that is no collision keeps it exact and what
\* was read from it fresh.
LEMMA FaithStep ==
    ASSUME IInv, LocalsSound, MapIs, PrepFresh, StopFresh, [Next]_vars, ~raced', TypeOK', ~Crash
    PROVE  MapIs' /\ PrepFresh' /\ StopFresh'
<1> USE NamesAssumption, HashAssumption
<1>0. TypeOK /\ QueuesSound /\ OnePlace
  BY DEF IInv
<1>k. prep.pod \in Pods => Hash[prep.pod] \in Keys
  OBVIOUS
<1>a. ASSUME UNCHANGED <<lookup, owed>>, \A k \in Keys : Unpopped(k)' = Unpopped(k) PROVE MapIs'
  BY <1>a DEF MapIs
<1>b. ASSUME UNCHANGED <<lookup, stopper>> PROVE StopFresh'
  BY <1>b DEF StopFresh
<1>c. ASSUME UNCHANGED <<lookup, prep>> PROVE PrepFresh'
  BY <1>c DEF PrepFresh
<1>d. ASSUME prep'.at \notin {"update", "popWrite", "popDelete"} PROVE PrepFresh'
  BY <1>d DEF PrepFresh
<1>e. ASSUME prep.at \notin {"popRead", "popWrite"}, prep'.at \notin {"popRead", "popWrite"}
      PROVE  \A k \in Keys : Unpopped(k)' = Unpopped(k)
  BY <1>e DEF Unpopped
<1>f. ASSUME UNCHANGED <<prep, expected>> PROVE \A k \in Keys : Unpopped(k)' = Unpopped(k)
  BY <1>f DEF Unpopped
<1>1. CASE \/ \E p \in Pods : CreatePod(p) \/ PodGone(p) \/ Reconcile(p)
           \/ \E t \in Templates : RemoveReplicaSet(t)
           \/ UNCHANGED vars
  <2>1. UNCHANGED <<lookup, owed, stopper, prep, expected>>
    BY <1>1 DEF CreatePod, PodGone, Reconcile, RemoveReplicaSet, vars, apiVars, histVars
  <2>. QED  BY <2>1, <1>a, <1>b, <1>c, <1>f
<1>2. CASE Receive \/ GetPod \/ CheckEmpty \/ PatchLabel \/ SweepKeys \/ SweepEnd
  <2>1. UNCHANGED <<lookup, owed, stopper>>
    BY <1>2 DEF Receive, GetPod, CheckEmpty, PatchLabel, SweepKeys, SweepEnd, PrepLocal, histVars
  <2>2. prep.at \notin {"popRead", "popWrite"}
    BY <1>2 DEF Receive, GetPod, CheckEmpty, PatchLabel, SweepKeys, SweepEnd
  <2>3. prep'.at \notin {"popRead", "popWrite", "update", "popDelete"}
    <3>1. Receive => prep'.at = "get"
      BY <1>0 DEF Receive, TypeOK
    <3>2. GetPod \/ CheckEmpty => prep'.at \in {"recv", "empty", "patch", "first"}
      BY <1>0 DEF GetPod, CheckEmpty, IdlePrep, TypeOK
    <3>3. PatchLabel => prep'.at = "recv"
      BY DEF PatchLabel, IdlePrep
    <3>4. SweepKeys \/ SweepEnd => prep'.at \in {"sweep", "resend"}
      <4>1. SweepKeys => prep'.at = "sweep"
        BY <1>0 DEF SweepKeys, TypeOK
      <4>2. SweepEnd => prep'.at = "resend"
        BY <1>0 DEF SweepEnd, TypeOK
      <4>. QED  BY <4>1, <4>2
    <3>. QED  BY <1>2, <3>1, <3>2, <3>3, <3>4
  <2>. QED  BY <2>1, <2>2, <2>3, <1>a, <1>b, <1>d, <1>e
<1>3. CASE FirstVal
  <2>1. UNCHANGED <<lookup, owed, stopper>> /\ prep.at = "first"
    BY <1>3 DEF FirstVal, PrepLocal, histVars
  <2>2. CASE prep' = [prep EXCEPT !.at = "keys"]
    <3>1. prep'.at = "keys"
      BY <1>0, <2>2 DEF TypeOK
    <3>. QED  BY <2>1, <3>1, <1>a, <1>b, <1>d, <1>e
  <2>3. CASE /\ HasFirstVal(lookup, Hash[prep.pod])
             /\ prep' = [prep EXCEPT !.at = "update", !.seen = ValuesOf(lookup, Hash[prep.pod])]
    <3>1. /\ prep'.at = "update" /\ prep'.pod = prep.pod
          /\ prep'.seen = ValuesOf(lookup, Hash[prep.pod])
      BY <1>0, <2>3 DEF TypeOK
    <3>2. PrepFresh'
      BY <2>1, <2>3, <3>1 DEF PrepFresh
    <3>. QED  BY <2>1, <3>1, <3>2, <1>a, <1>b, <1>e
  <2>. QED  BY <1>3, <2>2, <2>3 DEF FirstVal
<1>4. CASE UpdateLabels
  <2>1. UNCHANGED <<lookup, stopper>> /\ prep.at = "update" /\ prep.pod \in Pods
    BY <1>0, <1>4 DEF UpdateLabels, TypeOK
  <2>2. CASE prep' = [prep EXCEPT !.at = "keys", !.seen = <<>>] /\ UNCHANGED <<done, expected, owed>>
    <3>1. prep'.at = "keys"
      BY <1>0, <2>2 DEF TypeOK
    <3>. QED  BY <2>1, <2>2, <3>1, <1>a, <1>b, <1>d, <1>e
  <2>3. CASE /\ prep' = [prep EXCEPT !.at = "popRead"]
             /\ expected' = [expected EXCEPT ![prep.pod] = Head(prep.seen)]
             /\ owed' = [owed EXCEPT ![Hash[prep.pod]] = IF @ = <<>> THEN @ ELSE Tail(@)]
    <3>1. prep'.at = "popRead" /\ prep'.pod = prep.pod
      BY <1>0, <2>3 DEF TypeOK
    <3>2. DEFINE h == Hash[prep.pod]
    <3>3. h \in Keys /\ owed[h] \in Seq(Nodes)
      BY <1>0, <1>k, <2>1 DEF TypeOK
    <3>4. \A k \in Keys : ValuesOf(lookup, k) = owed[k]
      <4>1. \A k \in Keys : ValuesOf(lookup, k) = <<>> \o owed[k] /\ owed[k] \in Seq(Nodes)
        BY <1>0, <2>1 DEF MapIs, Unpopped, TypeOK
      <4>. QED  BY <4>1, ConcatEmptySeq
    <3>5. owed[h] # <<>> /\ Head(prep.seen) = Head(owed[h])
      BY <2>1, <3>3, <3>4 DEF PrepFresh, HasFirstVal
    <3>6. owed[h] = <<Head(prep.seen)>> \o Tail(owed[h])
      BY <3>3, <3>5, ConsOfSeq
    <3>7. owed'[h] = Tail(owed[h]) /\ \A k \in Keys \ {h} : owed'[k] = owed[k]
      BY <1>0, <2>3, <3>3, <3>5 DEF TypeOK
    <3>8. expected'[prep.pod] = Head(prep.seen)
      BY <1>0, <2>1, <2>3 DEF TypeOK
    <3>9. \A k \in Keys : Unpopped(k)' = IF k = h THEN <<Head(prep.seen)>> ELSE <<>>
      BY <3>1, <3>8 DEF Unpopped
    <3>10. ASSUME NEW k \in Keys PROVE ValuesOf(lookup', k) = Unpopped(k)' \o owed'[k]
      <4>1. CASE k = h
        BY <2>1, <3>4, <3>6, <3>7, <3>9, <4>1
      <4>2. CASE k # h
        <5>1. owed[k] \in Seq(Nodes)
          BY <1>0 DEF TypeOK
        <5>. QED  BY <2>1, <3>4, <3>7, <3>9, <4>2, <5>1, ConcatEmptySeq
      <4>. QED  BY <4>1, <4>2
    <3>11. MapIs'
      BY <3>10 DEF MapIs
    <3>. QED  BY <2>1, <3>1, <3>11, <1>b, <1>d
  <2>. QED  BY <1>4, <2>2, <2>3 DEF UpdateLabels
<1>5. CASE PopRead
  <2>1. UNCHANGED <<lookup, owed, stopper, expected>> /\ prep.at = "popRead" /\ prep.pod \in Pods
    BY <1>0, <1>5 DEF PopRead, PrepLocal, histVars, apiVars, TypeOK
  <2>2. HasFirstVal(lookup, Hash[prep.pod])
    <3>1. DEFINE h == Hash[prep.pod]
    <3>2. h \in Keys /\ owed[h] \in Seq(Nodes) /\ expected[prep.pod] \in Nodes
      BY <1>0, <1>k, <2>1 DEF TypeOK, LocalsSound
    <3>3. ValuesOf(lookup, h) = <<expected[prep.pod]>> \o owed[h]
      BY <2>1, <3>2 DEF MapIs, Unpopped
    <3>. QED  BY <3>2, <3>3, SeqOfCons DEF HasFirstVal
  <2>3. prep' = [prep EXCEPT !.at = "popWrite", !.seen = ValuesOf(lookup, Hash[prep.pod])]
    BY <1>5, <2>2 DEF PopRead
  <2>4. prep'.at = "popWrite" /\ prep'.pod = prep.pod /\ prep'.seen = ValuesOf(lookup, Hash[prep.pod])
    BY <1>0, <2>3 DEF TypeOK
  <2>5. \A k \in Keys : Unpopped(k)' = Unpopped(k)
    BY <2>1, <2>4 DEF Unpopped
  <2>6. PrepFresh'
    BY <2>1, <2>4 DEF PrepFresh
  <2>. QED  BY <2>1, <2>5, <2>6, <1>a, <1>b
<1>6. CASE PopWrite
  <2>0. DEFINE h == Hash[prep.pod]
  <2>1. /\ prep.at = "popWrite" /\ prep.pod \in Pods
        /\ lookup' = Put(lookup, h, Tail(prep.seen))
        /\ prep' = [prep EXCEPT !.at = "popLen"]
        /\ UNCHANGED <<owed, stopper>>
        /\ ~StopperConflict(h)
    BY <1>0, <1>6 DEF PopWrite, TypeOK
  <2>2. prep'.at = "popLen"
    BY <1>0, <2>1 DEF TypeOK
  <2>3. h \in Keys /\ owed[h] \in Seq(Nodes) /\ expected[prep.pod] \in Nodes
    BY <1>0, <1>k, <2>1 DEF TypeOK, LocalsSound
  <2>4. prep.seen = <<expected[prep.pod]>> \o owed[h]
    BY <2>1, <2>3 DEF MapIs, Unpopped, PrepFresh
  <2>5. Tail(prep.seen) = owed[h]
    BY <2>3, <2>4, SeqOfCons
  <2>6. ASSUME NEW k \in Keys PROVE ValuesOf(lookup', k) = Unpopped(k)' \o owed'[k]
    <3>1. owed[k] \in Seq(Nodes) /\ Unpopped(k)' = <<>>
      BY <1>0, <2>2 DEF TypeOK, Unpopped
    <3>2. CASE k = h
      BY <2>1, <2>5, <3>1, <3>2, ReadAfterPut, ConcatEmptySeq
    <3>3. CASE k # h
      <4>1. ValuesOf(lookup, k) = <<>> \o owed[k]
        BY <3>3 DEF MapIs, Unpopped
      <4>. QED  BY <2>1, <3>1, <3>3, <4>1, ReadAfterPut
    <3>. QED  BY <3>2, <3>3
  <2>7. StopFresh'
    BY <2>1, ReadAfterPut DEF StopFresh, StopperConflict
  <2>. QED  BY <2>2, <2>6, <2>7, <1>d DEF MapIs
<1>7. CASE PopLen
  <2>1. UNCHANGED <<lookup, owed, stopper>> /\ prep.at = "popLen"
    BY <1>7 DEF PopLen, PrepLocal, histVars
  <2>2. CASE prep' = IdlePrep
    <3>1. prep'.at = "recv"
      BY <2>2 DEF IdlePrep
    <3>. QED  BY <2>1, <3>1, <1>a, <1>b, <1>d, <1>e
  <2>3. CASE ~HasFirstVal(lookup, Hash[prep.pod]) /\ prep' = [prep EXCEPT !.at = "popDelete"]
    <3>1. prep'.at = "popDelete" /\ prep'.pod = prep.pod
      BY <1>0, <2>3 DEF TypeOK
    <3>2. PrepFresh'
      BY <2>1, <2>3, <3>1 DEF PrepFresh
    <3>. QED  BY <2>1, <3>1, <3>2, <1>a, <1>b, <1>e
  <2>. QED  BY <1>7, <2>2, <2>3 DEF PopLen
<1>8. CASE PopDelete
  <2>0. DEFINE h == Hash[prep.pod]
  <2>1. /\ prep.at = "popDelete" /\ prep'.at = "recv"
        /\ lookup' = DeleteKey(lookup, h)
        /\ UNCHANGED <<owed, stopper>>
        /\ ~StopperConflict(h)
        /\ ValuesOf(lookup, h) = <<>>
    BY <1>8 DEF PopDelete, IdlePrep, PrepFresh, HasFirstVal
  <2>2. \A k \in Keys : Unpopped(k)' = Unpopped(k)
    BY <2>1, <1>e
  <2>3. \A k \in Keys : ValuesOf(lookup', k) = ValuesOf(lookup, k)
    BY <2>1, ReadAfterDelete
  <2>4. MapIs'
    BY <2>1, <2>2, <2>3 DEF MapIs
  <2>5. StopFresh'
    BY <2>1, ReadAfterDelete DEF StopFresh, StopperConflict
  <2>. QED  BY <2>1, <2>4, <2>5, <1>d
<1>9. ASSUME NEW j \in Keys, SweepKey(j) PROVE MapIs' /\ PrepFresh' /\ StopFresh'
  <2>1. UNCHANGED stopper /\ prep.at = "sweep" /\ prep'.at = "sweep"
    BY <1>0, <1>9 DEF SweepKey, TypeOK
  <2>2. CASE UNCHANGED <<lookup, owed>>
    BY <2>1, <2>2, <1>a, <1>b, <1>d, <1>e
  <2>3. CASE /\ lookup' = DeleteKey(lookup, j)
             /\ owed' = [owed EXCEPT ![j] = <<>>]
             /\ ~StopperConflict(j)
    <3>1. \A k \in Keys : Unpopped(k)' = <<>> /\ Unpopped(k) = <<>>
      BY <2>1 DEF Unpopped
    <3>2. ASSUME NEW k \in Keys PROVE ValuesOf(lookup', k) = Unpopped(k)' \o owed'[k]
      <4>1. CASE k = j
        <5>1. owed'[k] = <<>> /\ ValuesOf(lookup', k) = <<>>
          BY <1>0, <2>3, <4>1, ReadAfterDelete DEF TypeOK
        <5>. QED  BY <3>1, <5>1, ConcatEmptySeq, EmptySeq
      <4>2. CASE k # j
        <5>1. owed'[k] = owed[k] /\ ValuesOf(lookup', k) = ValuesOf(lookup, k)
          BY <1>0, <2>3, <4>2, ReadAfterDelete DEF TypeOK
        <5>. QED  BY <3>1, <5>1 DEF MapIs
      <4>. QED  BY <4>1, <4>2
    <3>3. StopFresh'
      BY <2>1, <2>3, ReadAfterDelete DEF StopFresh, StopperConflict
    <3>. QED  BY <2>1, <3>2, <3>3, <1>d DEF MapIs
  <2>. QED  BY <1>9, <2>2, <2>3 DEF SweepKey
<1>10. CASE (\E p \in Pods, n \in Nodes : StopGet(p, n)) \/ StopDelete
  <2>1. UNCHANGED <<lookup, owed, prep, expected>>
    BY <1>10 DEF StopGet, StopDelete, StopperLocal, apiVars, histVars
  <2>2. stopper'.at # "addWrite"
    <3>1. ASSUME NEW p \in Pods, NEW n \in Nodes, StopGet(p, n) PROVE stopper'.at = "delete"
      BY <3>1 DEF StopGet
    <3>2. StopDelete => stopper'.at \in {"idle", "addRead"}
      BY <1>0 DEF StopDelete, IdleStopper, TypeOK
    <3>. QED  BY <1>10, <3>1, <3>2
  <2>3. StopFresh'
    BY <2>2 DEF StopFresh
  <2>. QED  BY <2>1, <2>3, <1>a, <1>c, <1>f
<1>11. CASE AddRead
  <2>1. UNCHANGED <<lookup, owed, prep, expected>>
    BY <1>11 DEF AddRead, StopperLocal, apiVars, histVars
  <2>2. stopper'.seen = ValuesOf(lookup, stopper.key) /\ stopper'.key = stopper.key
    BY <1>0, <1>11 DEF AddRead, TypeOK
  <2>3. StopFresh'
    BY <2>1, <2>2 DEF StopFresh
  <2>. QED  BY <2>1, <2>3, <1>a, <1>c, <1>f
<1>12. CASE AddWrite
  <2>0. DEFINE h == stopper.key
  <2>1. /\ stopper.at = "addWrite" /\ stopper'.at = "idle" /\ h \in Keys /\ stopper.node \in Nodes
        /\ owed' = [owed EXCEPT ![h] = Append(@, stopper.node)]
        /\ UNCHANGED <<prep, expected>>
        /\ ~PrepConflict(h)
    BY <1>0, <1>12 DEF AddWrite, IdleStopper, apiVars, TypeOK
  <2>p. PICK v : v = Append(stopper.seen, stopper.node)
    OBVIOUS
  <2>w. lookup' = Put(lookup, h, v)
    BY <1>12, <2>p DEF AddWrite
  <2>2. \A k \in Keys : Unpopped(k)' = Unpopped(k)
    BY <2>1, <1>f
  <2>3. Unpopped(h) \in Seq(Nodes)
    <3>1. CASE prep.at \in {"popRead", "popWrite"} /\ Hash[prep.pod] = h
      <4>1. expected[prep.pod] \in Nodes
        BY <3>1 DEF LocalsSound
      <4>. QED  BY <3>1, <4>1 DEF Unpopped
    <3>2. CASE ~(prep.at \in {"popRead", "popWrite"} /\ Hash[prep.pod] = h)
      BY <3>2, EmptySeq DEF Unpopped
    <3>. QED  BY <3>1, <3>2
  <2>4. owed[h] \in Seq(Nodes) /\ owed'[h] = Append(owed[h], stopper.node)
    BY <1>0, <2>1 DEF TypeOK
  <2>5. v = Unpopped(h) \o owed'[h]
    <3>1. stopper.seen = Unpopped(h) \o owed[h]
      BY <2>1 DEF StopFresh, MapIs
    <3>2. PICK s \in Seq(Nodes), t \in Seq(Nodes), n \in Nodes :
              s = Unpopped(h) /\ t = owed[h] /\ n = stopper.node
      BY <2>1, <2>3, <2>4
    <3>3. Append(s \o t, n) = s \o Append(t, n)
      <4>1. s \o t \in Seq(Nodes)
        BY ConcatProperties
      <4>2. Append(s \o t, n) = (s \o t) \o <<n>> /\ Append(t, n) = t \o <<n>>
        BY <4>1, AppendIsConcat
      <4>3. (s \o t) \o <<n>> = s \o (t \o <<n>>)
        BY ConcatAssociative
      <4>. QED  BY <4>2, <4>3
    <3>4. v = Append(s \o t, n) /\ owed'[h] = Append(t, n)
      BY <2>4, <2>p, <3>1, <3>2
    <3>. QED  BY <3>2, <3>3, <3>4
  <2>6. ASSUME NEW k \in Keys PROVE ValuesOf(lookup', k) = Unpopped(k)' \o owed'[k]
    <3>1. CASE k = h
      <4>1. ValuesOf(lookup', h) = v
        BY <2>w, ReadBack
      <4>. QED  BY <2>1, <2>2, <2>5, <3>1, <4>1
    <3>2. CASE k # h
      <4>1. owed'[k] = owed[k] /\ ValuesOf(lookup', k) = ValuesOf(lookup, k)
        BY <1>0, <2>1, <2>w, <3>2, ReadAfterPut DEF TypeOK
      <4>. QED  BY <2>2, <4>1 DEF MapIs
    <3>. QED  BY <3>1, <3>2
  <2>7. StopFresh'
    BY <2>1 DEF StopFresh
  <2>8. PrepFresh'
    <3>1. CASE prep.at = "update"
      <4>1. CASE Hash[prep.pod] = h
        <5>1. prep.pod \in Pods /\ stopper.seen \in Seq(Nodes) /\ stopper.seen = ValuesOf(lookup, h)
          BY <1>0, <2>1, <3>1 DEF TypeOK, StopFresh
        <5>2. stopper.seen # <<>> /\ Head(prep.seen) = Head(stopper.seen)
          BY <3>1, <4>1, <5>1 DEF PrepFresh, HasFirstVal
        <5>3. ValuesOf(lookup', h) = v
          BY <2>w, ReadBack
        <5>4. v # <<>>
          BY <2>1, <2>p, <5>1, AppendProperties
        <5>5. Head(v) = Head(stopper.seen)
          BY <2>p, <5>1, <5>2, HeadTailAppend
        <5>. QED  BY <2>1, <3>1, <4>1, <5>2, <5>3, <5>4, <5>5 DEF PrepFresh, HasFirstVal
      <4>2. CASE Hash[prep.pod] # h
        <5>1. ValuesOf(lookup', Hash[prep.pod]) = ValuesOf(lookup, Hash[prep.pod])
          BY <2>w, <4>2, ReadAfterPut
        <5>. QED  BY <2>1, <3>1, <5>1 DEF PrepFresh, HasFirstVal
      <4>. QED  BY <4>1, <4>2
    <3>2. CASE prep.at \in {"popWrite", "popDelete"}
      <4>1. Hash[prep.pod] # h
        BY <2>1, <3>2 DEF PrepConflict
      <4>2. ValuesOf(lookup', Hash[prep.pod]) = ValuesOf(lookup, Hash[prep.pod])
        BY <2>w, <4>1, ReadAfterPut
      <4>. QED  BY <2>1, <3>2, <4>2 DEF PrepFresh, HasFirstVal
    <3>3. CASE prep.at \notin {"update", "popWrite", "popDelete"}
      BY <2>1, <3>3 DEF PrepFresh
    <3>. QED  BY <3>1, <3>2, <3>3
  <2>. QED  BY <2>6, <2>7, <2>8 DEF MapIs
<1>. QED
  BY <1>1, <1>2, <1>3, <1>4, <1>5, <1>6, <1>7, <1>8, <1>9, <1>10, <1>11, <1>12
  DEF Next, Preprocess, StopPods

\* A collision is forgotten by a restart only.
LEMMA RacedStays ==
    ASSUME TypeOK, [Next]_vars, raced, ~Crash
    PROVE  raced'
  BY DEF TypeOK, Next, vars, apiVars, histVars, CreatePod, PodGone, Reconcile, RemoveReplicaSet, Receive,
     Preprocess, PrepLocal, GetPod, CheckEmpty, PatchLabel, FirstVal, UpdateLabels, PopRead, PopWrite,
     PopLen, PopDelete, SweepKeys, SweepKey, SweepEnd, StopGet, StopDelete, StopPods, StopperLocal,
     AddRead, AddWrite

\* Every step, a collision and a restart included, keeps FaithInv.
LEMMA FaithInvStep ==
    ASSUME IInv, FaithInv, [Next]_vars, TypeOK'
    PROVE  FaithInv'
<1>0. TypeOK /\ QueuesSound
  BY DEF IInv
<1>1. LocalsSound'
  BY <1>0, LocalsStep DEF FaithInv
<1>2. CASE Crash
  <2>1. /\ prep'.at = "recv" /\ stopper'.at = "idle"
        /\ \A k \in Keys : ValuesOf(lookup, k)' = <<>> /\ owed'[k] = <<>> /\ Unpopped(k)' = <<>>
    BY <1>2, EmptyLookupKeys DEF Crash, IdlePrep, IdleStopper, ValuesOf, Unpopped
  <2>2. LookupFaithful'
    BY <2>1, ConcatEmptySeq, EmptySeq DEF LookupFaithful
  <2>. QED  BY <1>1, <2>1, <2>2 DEF FaithInv, ReadsFresh
<1>3. CASE ~Crash /\ ~raced'
  <2>1. ~raced
    BY <1>0, <1>3, RacedStays
  <2>2. MapIs /\ PrepFresh /\ StopFresh /\ LocalsSound
    BY <2>1 DEF FaithInv, LookupFaithful, ReadsFresh, MapIs, PrepFresh, StopFresh
  <2>3. MapIs' /\ PrepFresh' /\ StopFresh'
    BY <1>3, <2>2, FaithStep
  <2>. QED  BY <1>1, <2>3 DEF FaithInv, LookupFaithful, ReadsFresh, MapIs, PrepFresh, StopFresh
<1>4. CASE raced'
  BY <1>1, <1>4 DEF FaithInv, LookupFaithful, ReadsFresh
<1>. QED  BY <1>2, <1>3, <1>4

\* The map is exact and every read fresh in the initial states.
LEMMA InitFaithInv == Init => FaithInv
<1> SUFFICES ASSUME Init PROVE FaithInv
  OBVIOUS
<1>1. /\ prep.at = "recv" /\ stopper.at = "idle"
      /\ \A k \in Keys : ValuesOf(lookup, k) = <<>> /\ owed[k] = <<>> /\ Unpopped(k) = <<>>
  BY EmptyLookupKeys DEF Init, IdlePrep, IdleStopper, ValuesOf, Unpopped
<1>2. LookupFaithful
  BY <1>1, ConcatEmptySeq, EmptySeq DEF LookupFaithful
<1>. QED  BY <1>1, <1>2 DEF FaithInv, ReadsFresh, LocalsSound

\* Both inductive invariants hold in every reachable state.
LEMMA FaithInvariance == Spec => [](IInv /\ FaithInv)
<1>1. IInv /\ FaithInv /\ [Next]_vars => (IInv /\ FaithInv)'
  <2> SUFFICES ASSUME IInv, FaithInv, [Next]_vars PROVE IInv' /\ FaithInv'
    OBVIOUS
  <2>1. IInv'
    BY TypeStep, QueuesStep, AffinityStep, OnePlaceStep DEF IInv
  <2>. QED  BY <2>1, FaithInvStep DEF IInv
<1>. QED  BY InitIInv, InitFaithInv, <1>1, PTL DEF Spec

\* Short of a collision no entry of the map is lost, given out twice or overtaken.
THEOREM LookupIsFaithful == Spec => []LookupFaithful
<1>1. FaithInv => LookupFaithful
  BY DEF FaithInv
<1>. QED  BY <1>1, FaithInvariance, PTL

-----------------------------------------------------------------------------
(* The refinement *)

\* Every step is a step of the promise or leaves everything it speaks of alone.
LEMMA PromiseStep ==
    ASSUME IInv, FaithInv, [Next]_vars
    PROVE  [Promise!Next]_(Promise!promise)
<1> USE NamesAssumption, HashAssumption
<1>0. TypeOK /\ QueuesSound /\ OnePlace /\ LocalsSound
  BY DEF IInv, FaithInv
<1>k. Promise!Keys = Keys
  BY DEF Promise!Keys, Keys
<1> DEFINE isDone == {p \in Pods : done[p]}
           inStop == IF stopper.at \in {"addRead", "addWrite"} THEN {<<stopper.key, stopper.node>>} ELSE {}
<1>s. ASSUME UNCHANGED <<phase, done, expected, owed, stoppedOn, raced>>, inStop' = inStop
      PROVE  UNCHANGED Promise!promise
  BY <1>s DEF Promise!promise
<1>1. ASSUME NEW p \in Pods, CreatePod(p) PROVE Promise!Next
  <2>1. Promise!Appear(p)
    BY <1>1 DEF CreatePod, histVars, Promise!Appear
  <2>. QED  BY <2>1 DEF Promise!Next
<1>2. ASSUME NEW p \in Pods, PodGone(p) PROVE Promise!Next
  <2>1. Promise!Vanish(p)
    BY <1>2 DEF PodGone, histVars, Promise!Vanish
  <2>. QED  BY <2>1 DEF Promise!Next
<1>3. CASE \/ \E p \in Pods : Reconcile(p)
           \/ \E t \in Templates : RemoveReplicaSet(t)
           \/ Receive \/ GetPod \/ CheckEmpty \/ FirstVal \/ PopRead \/ PopLen \/ SweepKeys \/ SweepEnd
           \/ UNCHANGED vars
  <2>1. UNCHANGED <<phase, done, expected, owed, stoppedOn, raced, stopper>>
    BY <1>3 DEF Reconcile, RemoveReplicaSet, Receive, GetPod, CheckEmpty, FirstVal, PopRead, PopLen,
       SweepKeys, SweepEnd, PrepLocal, vars, apiVars, histVars
  <2>. QED  BY <2>1, <1>s
<1>4. CASE PatchLabel
  <2>0. prep.pod \in Pods /\ ~done[prep.pod] /\ UNCHANGED <<phase, expected, owed, stoppedOn, raced, stopper>>
    BY <1>0, <1>4 DEF PatchLabel, OnePlace, TypeOK, histVars
  <2>1. CASE done' = done
    BY <2>0, <2>1, <1>s
  <2>2. CASE Exists(prep.pod) /\ done' = [done EXCEPT ![prep.pod] = TRUE]
    <3>1. isDone' = isDone \cup {prep.pod} /\ prep.pod \notin isDone
      BY <1>0, <2>0, <2>2 DEF TypeOK
    <3>2. PICK p \in Pods : p = prep.pod
      BY <2>0
    <3>3. Promise!Release(p)
      BY <2>0, <2>2, <3>1, <3>2 DEF Promise!Release, Promise!Exists, Exists
    <3>. QED  BY <3>3 DEF Promise!Next
  <2>. QED  BY <1>4, <2>1, <2>2 DEF PatchLabel
<1>5. CASE UpdateLabels
  <2>0. /\ prep.at = "update" /\ prep.pod \in Pods /\ ~done[prep.pod]
        /\ UNCHANGED <<phase, stoppedOn, raced, stopper>>
    BY <1>0, <1>5 DEF UpdateLabels, OnePlace, TypeOK
  <2>1. CASE UNCHANGED <<done, expected, owed>>
    BY <2>0, <2>1, <1>s
  <2>2. CASE /\ Exists(prep.pod)
             /\ done' = [done EXCEPT ![prep.pod] = TRUE]
             /\ expected' = [expected EXCEPT ![prep.pod] = Head(prep.seen)]
             /\ owed' = [owed EXCEPT ![Hash[prep.pod]] = IF @ = <<>> THEN @ ELSE Tail(@)]
    <3>1. isDone' = isDone \cup {prep.pod} /\ prep.pod \notin isDone
      BY <1>0, <2>0, <2>2 DEF TypeOK
    <3>2. Hash[prep.pod] \in Keys /\ Head(prep.seen) \in stoppedOn[Hash[prep.pod]]
      BY <1>0, <2>0, HeadTailProperties DEF QueuesSound
    <3>3. Head(prep.seen) \in Nodes
      BY <1>0, <3>2 DEF TypeOK
    <3>4. ~raced => owed[Hash[prep.pod]] # <<>> /\ Head(prep.seen) = Head(owed[Hash[prep.pod]])
      <4>1. owed[Hash[prep.pod]] \in Seq(Nodes) /\ Unpopped(Hash[prep.pod]) = <<>>
        BY <1>0, <2>0, <3>2 DEF TypeOK, Unpopped
      <4>2. ~raced => ValuesOf(lookup, Hash[prep.pod]) = owed[Hash[prep.pod]]
        BY <3>2, <4>1, ConcatEmptySeq DEF FaithInv, LookupFaithful
      <4>. QED  BY <2>0, <4>2 DEF FaithInv, ReadsFresh, HasFirstVal
    <3>5. PICK p \in Pods, n \in Nodes : p = prep.pod /\ n = Head(prep.seen)
      BY <2>0, <3>3
    <3>6. Promise!SendBack(p, n)
      BY <2>0, <2>2, <3>1, <3>2, <3>4, <3>5 DEF Promise!SendBack, Promise!Exists, Exists
    <3>. QED  BY <3>6 DEF Promise!Next
  <2>. QED  BY <1>5, <2>1, <2>2 DEF UpdateLabels
<1>6. CASE PopWrite \/ PopDelete
  <2>1. UNCHANGED <<phase, done, expected, owed, stoppedOn, stopper>> /\ (raced' = raced \/ raced' = TRUE)
    BY <1>0, <1>6 DEF PopWrite, PopDelete, apiVars, TypeOK, StopperConflict
  <2>2. CASE raced' = raced
    BY <2>1, <2>2, <1>s
  <2>3. CASE raced' = TRUE
    <3>1. Promise!Collide
      BY <2>1, <2>3 DEF Promise!Collide
    <3>. QED  BY <3>1 DEF Promise!Next
  <2>. QED  BY <2>1, <2>2, <2>3
<1>7. ASSUME NEW k \in Keys, SweepKey(k) PROVE [Promise!Next]_(Promise!promise)
  <2>0. UNCHANGED <<phase, done, expected, stoppedOn, stopper>>
    BY <1>7 DEF SweepKey, apiVars
  <2>1. CASE UNCHANGED <<owed, raced>>
    BY <2>0, <2>1, <1>s
  <2>2. CASE owed' = [owed EXCEPT ![k] = <<>>] /\ raced' = (raced \/ StopperConflict(k))
    <3>1. raced' \in {raced, TRUE}
      BY <1>0, <2>2 DEF TypeOK, StopperConflict
    <3>2. Promise!Forget(k)
      BY <2>0, <2>2, <3>1 DEF Promise!Forget
    <3>. QED  BY <1>k, <3>2 DEF Promise!Next
  <2>. QED  BY <1>7, <2>1, <2>2 DEF SweepKey
<1>8. ASSUME NEW p \in Pods, NEW n \in Nodes, StopGet(p, n) PROVE UNCHANGED Promise!promise
  <2>1. UNCHANGED <<phase, done, expected, owed, stoppedOn, raced>>
    BY <1>8 DEF StopGet, StopperLocal, apiVars, histVars
  <2>2. inStop' = {} /\ inStop = {}
    BY <1>8 DEF StopGet
  <2>. QED  BY <2>1, <2>2, <1>s
<1>9. CASE StopDelete
  <2>0. /\ stopper.at = "delete" /\ stopper.pod \in Pods /\ stopper.node \in Nodes /\ done[stopper.pod]
        /\ stopper.key \in {Hash[stopper.pod], NoHash} /\ stopper.key \in Keys
        /\ UNCHANGED <<done, expected, owed, raced>>
    BY <1>0, <1>9 DEF StopDelete, LocalsSound, TypeOK
  <2>1. CASE stopper' = IdleStopper /\ UNCHANGED <<phase, stoppedOn>>
    <3>1. inStop' = {} /\ inStop = {}
      BY <2>0, <2>1 DEF IdleStopper
    <3>. QED  BY <2>0, <2>1, <3>1, <1>s
  <2>2. CASE /\ Exists(stopper.pod)
             /\ phase' = [phase EXCEPT ![stopper.pod] = "terminating"]
             /\ stopper' = [stopper EXCEPT !.at = "addRead"]
             /\ stoppedOn' = [stoppedOn EXCEPT ![stopper.key] = @ \cup {stopper.node}]
    <3>1. inStop' = {<<stopper.key, stopper.node>>} /\ inStop = {}
      BY <1>0, <2>0, <2>2 DEF TypeOK
    <3>2. Promise!Stop(stopper.pod, stopper.node, stopper.key)
      BY <2>0, <2>2, <3>1 DEF Promise!Stop, Promise!Exists, Exists
    <3>. QED  BY <1>k, <2>0, <3>2 DEF Promise!Next
  <2>. QED  BY <1>9, <2>1, <2>2 DEF StopDelete
<1>10. CASE AddRead
  <2>1. UNCHANGED <<phase, done, expected, owed, stoppedOn, raced>> /\ inStop' = inStop
    BY <1>0, <1>10 DEF AddRead, StopperLocal, apiVars, histVars, TypeOK
  <2>. QED  BY <2>1, <1>s
<1>11. CASE AddWrite
  <2>1. /\ stopper.at = "addWrite" /\ stopper.node \in Nodes /\ stopper.key \in Keys
        /\ UNCHANGED <<phase, done, expected, stoppedOn>>
        /\ owed' = [owed EXCEPT ![stopper.key] = Append(@, stopper.node)]
        /\ raced' = (raced \/ PrepConflict(stopper.key))
    BY <1>0, <1>11 DEF AddWrite, apiVars, TypeOK
  <2>2. inStop = {<<stopper.key, stopper.node>>} /\ inStop' = {}
    BY <1>11, <2>1 DEF AddWrite, IdleStopper
  <2>3. raced' \in {raced, TRUE}
    BY <1>0, <2>1 DEF TypeOK, PrepConflict
  <2>4. Promise!Owe(stopper.key, stopper.node)
    BY <2>1, <2>2, <2>3 DEF Promise!Owe
  <2>. QED  BY <1>k, <2>1, <2>4 DEF Promise!Next
<1>12. CASE Crash
  <2>1. inStop' = {}
    BY <1>12 DEF Crash, IdleStopper
  <2>2. Promise!Lose
    BY <1>12, <1>k, <2>1 DEF Crash, apiVars, Promise!Lose
  <2>. QED  BY <2>2 DEF Promise!Next
<1>. QED
  BY <1>1, <1>2, <1>3, <1>4, <1>5, <1>6, <1>7, <1>8, <1>9, <1>10, <1>11, <1>12
  DEF Next, Preprocess, StopPods

\* The handler, stopPods and the map keep the promise, whatever their interleaving,
\* failing calls and restarts do.
THEOREM KeepsPromise == Spec => PromiseSpec
<1>1. Init => Promise!Init
  <2> SUFFICES ASSUME Init PROVE Promise!Init
    OBVIOUS
  <2>1. {p \in Pods : done[p]} = {} /\ stopper.at = "idle" /\ Promise!Keys = Keys
    BY DEF Init, IdleStopper, Promise!Keys, Keys
  <2>. QED  BY <2>1 DEF Init, Promise!Init
<1>2. IInv /\ FaithInv /\ [Next]_vars => [Promise!Next]_(Promise!promise)
  BY PromiseStep
<1>. QED  BY <1>1, <1>2, FaithInvariance, PTL DEF Spec, PromiseSpec, Promise!Spec
=============================================================================
