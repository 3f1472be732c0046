------------------------ MODULE ReconfigSystem_proof ------------------------
(***************************************************************************)
(* Proofs about Scheduler: type correctness, GoesWhereExpected and         *)
(* RedirectedToItsNode, from the inductive invariant IInv; NoOvercommit,   *)
(* from what a sum over the pods of a node does when one comes or goes; and *)
(* the ranking of the nodes, from the range of the resource scores and what *)
(* NormalizeScore does to two scores.                                      *)
(*                                                                         *)
(* Then about ReconfigSystem, which extends it: wherever a pod that was    *)
(* sent back runs, it was stopped there or the node was labelled with it,  *)
(* and the two programs that write the label of a pod do not overwrite     *)
(* each other, for any pods, nodes and templates, any stops and restarts;  *)
(* and NoOvercommit and GoesWhereExpected hold there too.                  *)
(***************************************************************************)
EXTENDS ReconfigSystem, WellFoundedInduction, FiniteSetTheorems, SequenceTheorems, TLAPS

Labels == [done : BOOLEAN, expected : Nodes \cup {NoNode}]

\* The typed part of the state, as the steps need it.
LEMMA Typed ==
  ASSUME IInv
  PROVE  /\ label \in [Pods -> Labels] /\ seen \in [Pods -> Labels]
         /\ target \in [Nodes -> Pods \cup {NoPod}]
         /\ place \in [Pods -> Nodes \cup {NoNode}]
         /\ bound \subseteq Pods /\ asked \subseteq Pods
         /\ DOMAIN status = Nodes
         /\ \A n \in Nodes : status[n] \in [GpusOf(n) -> Statuses]
  BY DEF IInv, TypeOK, Labels

\* The scheduler starts in the invariant.
LEMMA InitEstablishes == Init => IInv
<1> SUFFICES ASSUME Init PROVE IInv
  OBVIOUS
<1>1. label \in [Pods -> Labels] /\ (\A p \in Pods : ~label[p].done)
  BY DEF Init, Labels
<1>2. DOMAIN status = Nodes /\ \A n \in Nodes : status[n] \in [GpusOf(n) -> Statuses]
  <2>1. status \in [Nodes -> UNION {[GpusOf(n) -> Statuses] : n \in Nodes}]
    BY DEF Init
  <2>2. \A n \in Nodes : DOMAIN status[n] = GpusOf(n)
    BY DEF Init
  <2>3. ASSUME NEW n \in Nodes
        PROVE  status[n] \in [GpusOf(n) -> Statuses]
    <3>1. PICK m \in Nodes : status[n] \in [GpusOf(m) -> Statuses]
      BY <2>1
    <3> QED  BY <2>2, <3>1
  <2> QED  BY <2>1, <2>3
<1>3. cycle.at = "idle" /\ cycle.pod = NoPod
  BY DEF Init, IdleCycle
<1>4. TypeOK
  BY <1>1, <1>2, <1>3 DEF Init, TypeOK, Labels
<1>5. GoesWhereExpected /\ CopiesSound /\ CycleSound
  BY <1>1, <1>3 DEF Init, GoesWhereExpected, CopiesSound, CycleSound
<1> QED  BY <1>4, <1>5 DEF IInv

\* A cycle begins: the pod is assumed on a node that passed, with a verdict if it
\* requests slices (Filter, fit.go).
LEMMA SchedulePreserves ==
  ASSUME IInv, NEW p \in Pods, Schedule(p)
  PROVE  IInv'
<1>1. /\ cycle.at = "idle" /\ cycle.pod = NoPod /\ place[p] = NoNode /\ seen[p].done
      /\ UNCHANGED <<label, seen, status, target, bound, asked>>
  BY DEF Schedule, ScheduleUnchecked, IInv, CycleSound
<1>2. PICK n \in Nodes : /\ place' = [place EXCEPT ![p] = n]
                         /\ cycle'.at = "permit" /\ cycle'.pod = p /\ cycle'.node = n
                         /\ UsesMig(p) => n \in cycle'.reconfig \cup cycle'.direct
  <2>1. PICK passed \in SUBSET {n \in Nodes : ~Panics(p, n)} :
           LET feasible == {n \in passed : Filter(p, n)}
               reconfig == {n \in feasible : UsesMig(p) /\ ToReconfig(p, n)}
           IN  \E n \in feasible, strategy \in Strategies :
                 /\ place' = [place EXCEPT ![p] = n]
                 /\ cycle' = [at |-> "permit", pod |-> p, node |-> n, reconfig |-> reconfig,
                              direct |-> IF UsesMig(p) THEN feasible \ reconfig ELSE {},
                              score |-> Scores(p, [m \in feasible |-> BaseScore(strategy, p, m)], reconfig)]
    BY DEF Schedule, ScheduleUnchecked
  <2> DEFINE feasible == {n \in passed : Filter(p, n)}
             reconfig == {n \in feasible : UsesMig(p) /\ ToReconfig(p, n)}
  <2>2. PICK n \in feasible, strategy \in Strategies :
           /\ place' = [place EXCEPT ![p] = n]
           /\ cycle' = [at |-> "permit", pod |-> p, node |-> n, reconfig |-> reconfig,
                        direct |-> IF UsesMig(p) THEN feasible \ reconfig ELSE {},
                        score |-> Scores(p, [m \in feasible |-> BaseScore(strategy, p, m)], reconfig)]
    BY <2>1
  <2>3. n \in Nodes
    BY <2>2
  <2> HIDE DEF feasible, reconfig
  <2>4. /\ cycle'.at = "permit" /\ cycle'.pod = p /\ cycle'.node = n
        /\ cycle'.reconfig = reconfig
        /\ cycle'.direct = IF UsesMig(p) THEN feasible \ reconfig ELSE {}
    BY <2>2
  <2> QED  BY <2>2, <2>3, <2>4
<1>3. p \notin bound /\ place'[p] = n /\ (\A q \in Pods \ {p} : place'[q] = place[q])
  BY <1>1, <1>2, Typed DEF IInv, TypeOK
<1>4. TypeOK'
  <2>1. place' \in [Pods -> Nodes \cup {NoNode}]
    BY <1>2, Typed
  <2>2. \A q \in bound : place'[q] # NoNode
    BY <1>3, Typed DEF IInv, TypeOK
  <2> QED  BY <1>1, <1>2, <1>3, <2>1, <2>2 DEF IInv, TypeOK
<1>5. GoesWhereExpected'
  BY <1>1, <1>2, <1>3, NamesAssumption DEF IInv, GoesWhereExpected, UsesMig
<1>6. CopiesSound' /\ CycleSound'
  BY <1>1, <1>2 DEF IInv, CopiesSound, CycleSound, UsesMig
<1> QED  BY <1>4, <1>5, <1>6 DEF IInv

\* The scheduler forgets what was not bound.
LEMMA RestartPreserves ==
  ASSUME IInv, Restart
  PROVE  IInv'
<1>1. /\ place' = [q \in Pods |-> IF q \in bound THEN place[q] ELSE NoNode]
      /\ cycle'.at = "idle" /\ cycle'.pod = NoPod /\ seen' = label
      /\ UNCHANGED <<label, status, target, bound, asked>>
  BY DEF Restart, IdleCycle
<1>2. \A q \in bound : q # cycle.pod
  BY Typed, NamesAssumption DEF IInv, TypeOK, CycleSound
<1>3. TypeOK'
  BY <1>1, Typed DEF IInv, TypeOK, Labels
<1>4. GoesWhereExpected'
  BY <1>1, <1>2 DEF IInv, GoesWhereExpected, UsesMig
<1>5. CopiesSound' /\ CycleSound'
  BY <1>1 DEF CopiesSound, CycleSound
<1> QED  BY <1>3, <1>4, <1>5 DEF IInv

\* A pod that Permit refuses is placed nowhere.
LEMMA RefusePreserves ==
  ASSUME IInv, Refuse, cycle.at # "idle", UNCHANGED <<seen, status, bound>>,
         label' \in [Pods -> Labels], target' \in [Nodes -> Pods \cup {NoPod}],
         asked' \subseteq Pods, asked \subseteq asked',
         \A q \in Pods : q # cycle.pod => label'[q] = label[q],
         label'[cycle.pod].done,
         label' # label => cycle.pod \in asked'
  PROVE  IInv'
<1>1. /\ place' = [place EXCEPT ![cycle.pod] = NoNode]
      /\ cycle'.at = "idle" /\ cycle'.pod = NoPod
      /\ cycle.pod \in Pods /\ cycle.pod \notin bound
  BY DEF Refuse, IdleCycle, IInv, TypeOK, CycleSound
<1>2. place'[cycle.pod] = NoNode /\ (\A q \in Pods \ {cycle.pod} : place'[q] = place[q])
  BY <1>1, Typed
<1>3. TypeOK'
  BY <1>1, <1>2, Typed DEF IInv, TypeOK, Labels
<1>4. GoesWhereExpected'
  BY <1>1, <1>2 DEF IInv, GoesWhereExpected, UsesMig
<1>5. CopiesSound' /\ CycleSound'
  BY <1>1 DEF IInv, CopiesSound, CycleSound
<1> QED  BY <1>3, <1>4, <1>5 DEF IInv

\* Permit, in its three steps (Permit, fit.go).
LEMMA PermitPreserves ==
  ASSUME IInv, Permit
  PROVE  IInv'
<1> DEFINE p == cycle.pod
<1>0. cycle.at # "idle" /\ p \in Pods /\ cycle.node \in Nodes /\ seen[p].done /\ label[p].done
      /\ place[p] = cycle.node /\ p \notin bound
  BY DEF Permit, PermitDirect, PermitLabelNode, PermitPatchPod, IInv, TypeOK, CycleSound, CopiesSound
<1>1. CASE PermitDirect
  <2>1. CASE Refuse
    BY <1>0, <1>1, <2>1, RefusePreserves, Typed DEF PermitDirect
  <2>2. CASE ~Refuse
    <3>1. /\ cycle'.at = "idle" /\ cycle'.pod = NoPod /\ place' = place
          /\ UNCHANGED <<label, seen, status, target, bound, asked>>
          /\ ~(cycle.node \in cycle.direct /\ seen[p].expected \notin {NoNode, cycle.node})
      BY <1>1, <2>2 DEF PermitDirect, IdleCycle
    <3>2. UsesMig(p) => cycle.node \in cycle.direct
      BY <1>1 DEF PermitDirect, IInv, CycleSound
    <3>3. UsesMig(p) /\ p \notin asked => label[p].expected \in {NoNode, place[p]}
      BY <1>0, <3>1, <3>2 DEF IInv, CopiesSound
    <3>4. TypeOK'
      BY <3>1 DEF IInv, TypeOK
    <3>5. GoesWhereExpected'
      BY <1>0, <3>1, <3>3 DEF IInv, GoesWhereExpected, UsesMig
    <3>6. CopiesSound' /\ CycleSound'
      BY <3>1 DEF IInv, CopiesSound, CycleSound
    <3> QED  BY <3>4, <3>5, <3>6 DEF IInv
  <2> QED  BY <2>1, <2>2
<1>2. CASE PermitLabelNode
  <2>1. CASE Refuse
    <3>1. UNCHANGED <<label, seen, status, bound>>
      BY <1>2 DEF PermitLabelNode
    <3>2. target' \in [Nodes -> Pods \cup {NoPod}] /\ asked' \subseteq Pods /\ asked \subseteq asked'
      BY <1>0, <1>2, Typed DEF PermitLabelNode
    <3> QED  BY <1>0, <2>1, <3>1, <3>2, RefusePreserves, Typed
  <2>2. CASE ~Refuse
    <3>1. /\ target' = [target EXCEPT ![cycle.node] = p]
          /\ asked' = asked \cup {p}
          /\ cycle'.at = "patch" /\ cycle'.pod = p /\ cycle'.node = cycle.node
          /\ place' = place
          /\ UNCHANGED <<label, seen, status, bound>>
      BY <1>2, <2>2 DEF PermitLabelNode, IdleCycle
    <3>2. TypeOK'
      BY <1>0, <3>1, Typed DEF IInv, TypeOK
    <3>3. GoesWhereExpected'
      BY <3>1 DEF IInv, GoesWhereExpected, UsesMig
    <3>4. CopiesSound'
      BY <3>1 DEF IInv, CopiesSound
    <3>5. CycleSound'
      BY <1>0, <3>1, Typed DEF CycleSound
    <3> QED  BY <3>2, <3>3, <3>4, <3>5 DEF IInv
  <2> QED  BY <2>1, <2>2
<1>3. CASE PermitPatchPod
  <2>1. p \in asked
    BY <1>3 DEF PermitPatchPod, IInv, CycleSound
  <2>2. Refuse /\ UNCHANGED <<seen, status, target, bound, asked>>
    BY <1>3 DEF PermitPatchPod
  <2>3. /\ label' \in [Pods -> Labels]
        /\ \A q \in Pods : q # p => label'[q] = label[q]
        /\ label'[p].done
    <3>1. CASE label' = label
      BY <1>0, <3>1, Typed
    <3>2. CASE label' # label
      <4>1. label' = [label EXCEPT ![p].expected = cycle.node]
        BY <1>3, <3>2 DEF PermitPatchPod
      <4> QED  BY <1>0, <4>1, Typed DEF Labels
    <3> QED  BY <3>1, <3>2
  <2> QED  BY <1>0, <2>1, <2>2, <2>3, RefusePreserves, Typed
<1> QED  BY <1>1, <1>2, <1>3 DEF Permit

\* The steps outside a cycle.
LEMMA OthersPreserve ==
  ASSUME IInv, NEW p \in Pods, Bind(p) \/ Preprocess(p) \/ Sync(p)
  PROVE  IInv'
<1>1. CASE Bind(p)
  <2>1. /\ UNCHANGED <<label, seen, status, target, cycle, asked>>
        /\ place[p] # NoNode /\ p \notin bound /\ cycle.pod # p
    BY <1>1 DEF Bind
  <2>2. \/ bound' = bound \cup {p} /\ place' = place
        \/ bound' = bound /\ place' = [place EXCEPT ![p] = NoNode]
    BY <1>1 DEF Bind
  <2>3. /\ place' \in [Pods -> Nodes \cup {NoNode}] /\ bound' \subseteq Pods
        /\ \A q \in bound' : place'[q] # NoNode
        /\ \A q \in Pods : place'[q] # NoNode => place'[q] = place[q]
        /\ cycle.at # "idle" => place'[cycle.pod] = place[cycle.pod] /\ (cycle.pod \in bound' => cycle.pod \in bound)
    <3>1. CASE bound' = bound \cup {p} /\ place' = place
      BY <2>1, <3>1, Typed DEF IInv, TypeOK
    <3>2. CASE bound' = bound /\ place' = [place EXCEPT ![p] = NoNode]
      BY <2>1, <3>2, Typed DEF IInv, TypeOK, CycleSound
    <3> QED  BY <2>2, <3>1, <3>2
  <2>4. TypeOK'
    BY <2>1, <2>3 DEF IInv, TypeOK
  <2>5. GoesWhereExpected'
    BY <2>1, <2>3 DEF IInv, GoesWhereExpected, UsesMig
  <2>6. CopiesSound' /\ CycleSound'
    BY <2>1 DEF IInv, CopiesSound, CycleSound, UsesMig
  <2> QED  BY <2>4, <2>5, <2>6 DEF IInv
<1>2. CASE Preprocess(p)
  <2>1. PICK n \in Nodes \cup {NoNode} : label' = [label EXCEPT ![p] = [done |-> TRUE, expected |-> n]]
    BY <1>2 DEF Preprocess
  <2>2. ~label[p].done /\ UNCHANGED <<seen, status, target, place, bound, cycle, asked>>
    BY <1>2 DEF Preprocess
  <2>3. /\ label' \in [Pods -> Labels]
        /\ label'[p].done /\ (\A q \in Pods \ {p} : label'[q] = label[q])
    BY <2>1, Typed DEF Labels
  <2>4. ~seen[p].done /\ (place[p] = NoNode \/ p = cycle.pod)
    BY <2>2 DEF IInv, CopiesSound, GoesWhereExpected
  <2>5. TypeOK'
    BY <2>2, <2>3 DEF IInv, TypeOK, Labels
  <2>6. GoesWhereExpected'
    BY <2>2, <2>3, <2>4 DEF IInv, GoesWhereExpected, UsesMig
  <2>7. CopiesSound' /\ CycleSound'
    BY <2>2, <2>3, <2>4 DEF IInv, CopiesSound, CycleSound, UsesMig
  <2> QED  BY <2>5, <2>6, <2>7 DEF IInv
<1>3. CASE Sync(p)
  <2>1. /\ cycle.pod # p /\ seen' = [seen EXCEPT ![p] = label[p]]
        /\ UNCHANGED <<label, status, target, place, bound, cycle, asked>>
    BY <1>3 DEF Sync
  <2>2. /\ seen' \in [Pods -> Labels]
        /\ seen'[p] = label[p] /\ (\A q \in Pods \ {p} : seen'[q] = seen[q])
    BY <2>1, Typed DEF Labels
  <2>3. TypeOK'
    BY <2>1, <2>2 DEF IInv, TypeOK, Labels
  <2>4. GoesWhereExpected'
    BY <2>1 DEF IInv, GoesWhereExpected, UsesMig
  <2>5. CopiesSound' /\ CycleSound'
    BY <2>1, <2>2 DEF IInv, CopiesSound, CycleSound, UsesMig
  <2> QED  BY <2>3, <2>4, <2>5 DEF IInv
<1> QED  BY <1>1, <1>2, <1>3

\* The status labels are in no part of the invariant but its types.
LEMMA ReportPreserves ==
  ASSUME IInv, NEW n \in Nodes, NEW i \in GpusOf(n), NEW st \in Statuses, ReportStatus(n, i, st)
  PROVE  IInv'
<1>1. /\ status' = [status EXCEPT ![n][i] = st]
      /\ UNCHANGED <<label, seen, target, place, bound, cycle, asked>>
  BY DEF ReportStatus
<1>2. DOMAIN status' = Nodes /\ (\A m \in Nodes : status'[m] \in [GpusOf(m) -> Statuses])
  BY <1>1, Typed
<1>3. TypeOK'
  BY <1>1, <1>2 DEF IInv, TypeOK
<1>4. GoesWhereExpected' /\ CopiesSound' /\ CycleSound'
  BY <1>1 DEF IInv, GoesWhereExpected, CopiesSound, CycleSound, UsesMig
<1> QED  BY <1>3, <1>4 DEF IInv

\* Every step keeps the invariant.
LEMMA NextPreserves == IInv /\ [Next]_vars => IInv'
<1> SUFFICES ASSUME IInv, [Next]_vars PROVE IInv'
  OBVIOUS
<1>1. CASE \E p \in Pods : Schedule(p)
  BY <1>1, SchedulePreserves
<1>2. CASE Crash \/ \E p \in Pods : Panic(p)
  BY <1>2, RestartPreserves DEF Crash, Panic
<1>3. CASE Permit
  BY <1>3, PermitPreserves
<1>4. CASE \E p \in Pods : Bind(p) \/ Preprocess(p) \/ Sync(p)
  BY <1>4, OthersPreserve
<1>5. CASE \E n \in Nodes : \E i \in GpusOf(n), st \in Statuses : ReportStatus(n, i, st)
  BY <1>5, ReportPreserves
<1>6. CASE UNCHANGED vars
  BY <1>6 DEF vars, IInv, TypeOK, GoesWhereExpected, CopiesSound, CycleSound, UsesMig
<1> QED  BY <1>1, <1>2, <1>3, <1>4, <1>5, <1>6 DEF Next

\* The type invariant, for any pods, nodes, requests and strategies.
THEOREM TypeCorrect == Spec => []TypeOK
<1>1. IInv => TypeOK
  BY DEF IInv
<1> QED  BY InitEstablishes, NextPreserves, <1>1, PTL DEF Spec

\* A pod no reconfiguration was asked for goes where the pod controller sent it, and no
\* pod is placed before it is preprocessed (PreFilter and Permit, fit.go), however
\* stale the scheduler's copies are and whatever fails.
THEOREM PodsGoWhereExpected == Spec => []GoesWhereExpected
<1>1. IInv => GoesWhereExpected
  BY DEF IInv
<1> QED  BY InitEstablishes, NextPreserves, <1>1, PTL DEF Spec

\* Permit changes the label of a pod only to a node that names the pod (fit.go).
THEOREM RedirectsAreNamed == Spec => RedirectedToItsNode
<1> DEFINE Named == \A p \in Pods : label[p].done /\ label'[p] # label[p]
                      => target'[label'[p].expected] = p
<1>1. ASSUME IInv, [Next]_vars
      PROVE  [Named]_vars
  <2>1. ASSUME NEW p \in Pods, label[p].done, label'[p] # label[p]
        PROVE  target'[label'[p].expected] = p
    <3>1. CASE PermitPatchPod
      <4>1. /\ label' = [label EXCEPT ![cycle.pod].expected = cycle.node]
            /\ target' = target /\ target[cycle.node] = cycle.pod
        <5>1. label' # label
          BY <2>1
        <5>2. target' = target /\ target[cycle.node] = cycle.pod
          BY <1>1, <3>1 DEF PermitPatchPod, IInv, CycleSound
        <5> QED  BY <3>1, <5>1, <5>2 DEF PermitPatchPod
      <4>2. p = cycle.pod /\ label'[p].expected = cycle.node
        BY <1>1, <2>1, <4>1, Typed DEF Labels
      <4> QED  BY <4>1, <4>2
    <3>2. CASE \E q \in Pods : Preprocess(q)
      <4>1. PICK q \in Pods : Preprocess(q)
        BY <3>2
      <4>2. PICK n \in Nodes \cup {NoNode} : label' = [label EXCEPT ![q] = [done |-> TRUE, expected |-> n]]
        BY <4>1 DEF Preprocess
      <4>3. q # p
        BY <2>1, <4>1 DEF Preprocess
      <4> QED  BY <1>1, <2>1, <4>2, <4>3, Typed
    <3>3. CASE ~PermitPatchPod /\ ~\E q \in Pods : Preprocess(q)
      <4>1. label' = label
        BY <1>1, <3>3 DEF Next, vars, Permit, PermitDirect, PermitLabelNode, Schedule, ScheduleUnchecked,
          Panic, Crash, Restart, Bind, Sync, ReportStatus
      <4> QED  BY <2>1, <4>1
    <3> QED  BY <3>1, <3>2, <3>3
  <2> QED  BY <2>1
<1> QED  BY InitEstablishes, NextPreserves, <1>1, PTL DEF Spec, RedirectedToItsNode

-----------------------------------------------------------------------------
(* Sums over finite sets *)

\* Induction, with a set of numbers in the place of a predicate.
LEMMA NatInSet ==
  ASSUME NEW Q, 0 \in Q, \A n \in Nat : n \in Q => n + 1 \in Q
  PROVE  Nat \subseteq Q
<1> SUFFICES ASSUME ~(Nat \subseteq Q) PROVE FALSE
  OBVIOUS
<1> DEFINE T == Nat \ Q
<1>1. T \in SUBSET Nat /\ T # {}
  OBVIOUS
<1>2. PICK x \in T : \A y \in T : ~(<<y, x>> \in OpToRel(<, Nat))
  <2> HIDE DEF T
  <2> QED  BY <1>1, WFMin, NatLessThanWellFounded
<1>3. \A y \in T : ~(y < x)
  <2> HIDE DEF T
  <2> QED  BY <1>1, <1>2 DEF OpToRel
<1>4. x \in Nat /\ x # 0 /\ x - 1 \in Nat /\ x - 1 \notin T
  BY <1>3
<1> QED  BY <1>4

Pick(s) == CHOOSE x \in s : TRUE

\* What SumFunctionOnSet iterates: the sum over s from those of its subsets.
SumFrom(f, g, s) == IF s = {} THEN 0 ELSE f[Pick(s)] + g[s \ {Pick(s)}]

Iterates(f, g, S) == \A s \in SUBSET S : g[s] = SumFrom(f, g, s)

LEMMA SumUnfold ==
  ASSUME NEW f, NEW S
  PROVE  SumFunctionOnSet(f, S) = (CHOOSE g : g = [s \in SUBSET S |-> SumFrom(f, g, s)])[S]
  BY DEF SumFunctionOnSet, FoldFunctionOnSet, MapThenFoldSet, SumFrom, Pick

\* Facts about the subsets of a finite set.
LEMMA Subsets ==
  ASSUME NEW S, IsFiniteSet(S), NEW s \in SUBSET S
  PROVE  /\ IsFiniteSet(s) /\ Cardinality(s) \in Nat
         /\ Cardinality(s) = 0 <=> s = {}
         /\ s # {} => Pick(s) \in s
         /\ \A x \in s : s \ {x} \in SUBSET S /\ Cardinality(s \ {x}) = Cardinality(s) - 1
<1>1. IsFiniteSet(s)
  BY FS_Subset
<1>2. Cardinality(s) \in Nat /\ (Cardinality(s) = 0 <=> s = {})
  BY <1>1, FS_CardinalityType, FS_EmptySet
<1>3. \A x \in s : Cardinality(s \ {x}) = Cardinality(s) - 1
  BY <1>1, FS_RemoveElement
<1> QED  BY <1>1, <1>2, <1>3 DEF Pick

\* The iteration is defined for a finite set.
LEMMA SumExists ==
  ASSUME NEW f, NEW S, IsFiniteSet(S)
  PROVE  \E g : g = [s \in SUBSET S |-> SumFrom(f, g, s)]
<1> DEFINE Upto(n) == {s \in SUBSET S : Cardinality(s) <= n}
           Q == {n \in Nat : \E g : g = [s \in Upto(n) |-> SumFrom(f, g, s)]}
<1>1. 0 \in Q
  <2> DEFINE g == [s \in Upto(0) |-> 0]
  <2>1. \A s \in Upto(0) : s = {}
    BY Subsets
  <2>2. \A s \in Upto(0) : SumFrom(f, g, s) = 0
    <3> HIDE DEF g
    <3> QED  BY <2>1 DEF SumFrom
  <2>3. g = [s \in Upto(0) |-> SumFrom(f, g, s)]
    BY <2>2
  <2> HIDE DEF g
  <2> QED  BY <2>3
<1>2. ASSUME NEW n \in Nat, n \in Q PROVE n + 1 \in Q
  <2>1. PICK g : g = [s \in Upto(n) |-> SumFrom(f, g, s)]
    BY <1>2
  <2> DEFINE h == [s \in Upto(n + 1) |-> SumFrom(f, g, s)]
  <2>2. Upto(n) \subseteq Upto(n + 1)
    BY Subsets
  <2>3. \A s \in Upto(n) : h[s] = g[s]
    BY <2>1, <2>2
  <2>4. \A s \in Upto(n + 1) : s # {} => s \ {Pick(s)} \in Upto(n)
    <3> SUFFICES ASSUME NEW s \in Upto(n + 1), s # {} PROVE s \ {Pick(s)} \in Upto(n)
      OBVIOUS
    <3>1. Pick(s) \in s /\ s \ {Pick(s)} \in SUBSET S /\ Cardinality(s) \in Nat
          /\ Cardinality(s \ {Pick(s)}) = Cardinality(s) - 1 /\ Cardinality(s) <= n + 1
      BY Subsets
    <3> QED  BY <3>1
  <2>5. \A s \in Upto(n + 1) : SumFrom(f, g, s) = SumFrom(f, h, s)
    <3> HIDE DEF h, Upto
    <3> QED  BY <2>3, <2>4 DEF SumFrom
  <2>6. h = [s \in Upto(n + 1) |-> SumFrom(f, h, s)]
    BY <2>5
  <2>7. \E k : k = [s \in Upto(n + 1) |-> SumFrom(f, k, s)]
    <3> HIDE DEF h, Upto
    <3> QED  BY <2>6
  <2> HIDE DEF h, Upto
  <2> QED  BY <2>7
<1>3. Nat \subseteq Q
  <2> HIDE DEF Q
  <2> QED  BY <1>1, <1>2, NatInSet
<1>4. Cardinality(S) \in Nat /\ Upto(Cardinality(S)) = SUBSET S
  <2>1. \A s \in SUBSET S : Cardinality(s) <= Cardinality(S)
    BY FS_Subset
  <2>2. Cardinality(S) \in Nat
    BY FS_CardinalityType
  <2> QED  BY <2>1, <2>2
<1>5. Cardinality(S) \in Q
  <2> HIDE DEF Q
  <2> QED  BY <1>3, <1>4
<1>6. \E g : g = [s \in Upto(Cardinality(S)) |-> SumFrom(f, g, s)]
  BY <1>5
<1> HIDE DEF Upto
<1> QED  BY <1>4, <1>6

\* Two of these iterations agree on the sets both are about.
LEMMA SumUnique ==
  ASSUME NEW f, NEW S, IsFiniteSet(S), NEW T, T \subseteq S, NEW g, NEW h,
         Iterates(f, g, S), Iterates(f, h, T)
  PROVE  g[T] = h[T]
<1> DEFINE Q == {n \in Nat : \A s \in SUBSET T : Cardinality(s) = n => g[s] = h[s]}
<1>0. IsFiniteSet(T) /\ \A s \in SUBSET T : s \in SUBSET S
  BY FS_Subset
<1>1. 0 \in Q
  <2>1. \A s \in SUBSET T : Cardinality(s) = 0 => s = {}
    BY <1>0, Subsets
  <2>2. g[{}] = 0 /\ h[{}] = 0
    BY DEF SumFrom, Iterates
  <2> QED  BY <2>1, <2>2
<1>2. ASSUME NEW n \in Nat, n \in Q PROVE n + 1 \in Q
  <2>0. ASSUME NEW s \in SUBSET T, Cardinality(s) = n + 1 PROVE g[s] = h[s]
    <3>1. s # {} /\ Pick(s) \in s /\ s \ {Pick(s)} \in SUBSET T /\ Cardinality(s \ {Pick(s)}) = n
      BY <1>0, <2>0, Subsets
    <3>2. g[s \ {Pick(s)}] = h[s \ {Pick(s)}]
      BY <1>2, <3>1
    <3>3. g[s] = SumFrom(f, g, s) /\ h[s] = SumFrom(f, h, s)
      BY <1>0 DEF Iterates
    <3> QED  BY <3>1, <3>2, <3>3 DEF SumFrom
  <2> QED  BY <2>0
<1>3. Nat \subseteq Q
  <2> HIDE DEF Q
  <2> QED  BY <1>1, <1>2, NatInSet
<1>4. Cardinality(T) \in Nat
  BY <1>0, FS_CardinalityType
<1> QED  BY <1>3, <1>4

\* The recursion of SumFunctionOnSet.
LEMMA SumRecursive ==
  ASSUME NEW f, NEW S, IsFiniteSet(S)
  PROVE  /\ SumFunctionOnSet(f, {}) = 0
         /\ S # {} => SumFunctionOnSet(f, S) = f[Pick(S)] + SumFunctionOnSet(f, S \ {Pick(S)})
<1> DEFINE Iter(T) == CHOOSE g : g = [s \in SUBSET T |-> SumFrom(f, g, s)]
<1>1. ASSUME NEW T \in SUBSET S
      PROVE  /\ Iter(T) = [s \in SUBSET T |-> SumFrom(f, Iter(T), s)]
             /\ SumFunctionOnSet(f, T) = Iter(T)[T]
             /\ Iter(S)[T] = Iter(T)[T]
  <2>1. IsFiniteSet(T)
    BY FS_Subset
  <2>2. \E g : g = [s \in SUBSET T |-> SumFrom(f, g, s)]
    BY <2>1, SumExists
  <2>3. \E g : g = [s \in SUBSET S |-> SumFrom(f, g, s)]
    BY SumExists
  <2>4. Iter(T) = [s \in SUBSET T |-> SumFrom(f, Iter(T), s)]
    BY <2>2
  <2>5. Iter(S) = [s \in SUBSET S |-> SumFrom(f, Iter(S), s)]
    BY <2>3
  <2>6. SumFunctionOnSet(f, T) = Iter(T)[T]
    BY SumUnfold
  <2> HIDE DEF Iter
  <2> DEFINE g == Iter(S)
             h == Iter(T)
  <2>7. Iterates(f, g, S) /\ Iterates(f, h, T)
    BY <2>4, <2>5 DEF Iterates
  <2>8. g[T] = h[T]
    <3> HIDE DEF g, h
    <3> QED  BY <2>7, SumUnique
  <2> QED  BY <2>4, <2>6, <2>8
<1>2. Iter(S) = [s \in SUBSET S |-> SumFrom(f, Iter(S), s)]
  BY <1>1
<1>3. \A T \in SUBSET S : SumFunctionOnSet(f, T) = Iter(S)[T]
  <2> HIDE DEF Iter
  <2> QED  BY <1>1
<1> HIDE DEF Iter
<1>4. \A T \in SUBSET S : SumFunctionOnSet(f, T) = SumFrom(f, Iter(S), T)
  BY <1>2, <1>3
<1>5. SumFunctionOnSet(f, {}) = 0
  BY <1>4 DEF SumFrom
<1>6. S # {} => SumFunctionOnSet(f, S) = f[Pick(S)] + SumFunctionOnSet(f, S \ {Pick(S)})
  BY <1>3, <1>4 DEF SumFrom
<1> QED  BY <1>5, <1>6

\* The sum of naturals over a finite set, whichever element is taken first.
LEMMA SumFacts ==
  ASSUME NEW D, NEW f \in [D -> Nat], NEW S \in SUBSET D, IsFiniteSet(S)
  PROVE  /\ SumFunctionOnSet(f, S) \in Nat
         /\ \A x \in S : SumFunctionOnSet(f, S) = f[x] + SumFunctionOnSet(f, S \ {x})
<1> DEFINE Sum(s) == SumFunctionOnSet(f, s)
           Right(s) == Sum(s) \in Nat /\ \A x \in s : Sum(s) = f[x] + Sum(s \ {x})
           Q == {n \in Nat : \A s \in SUBSET S : Cardinality(s) <= n => Right(s)}
<1>0. Sum({}) = 0 /\ \A s \in SUBSET S : s # {} => Sum(s) = f[Pick(s)] + Sum(s \ {Pick(s)})
  BY Subsets, SumRecursive
<1> HIDE DEF Sum
<1>1. 0 \in Q
  <2>1. \A s \in SUBSET S : Cardinality(s) <= 0 => s = {}
    BY Subsets
  <2> QED  BY <1>0, <2>1
<1>2. ASSUME NEW n \in Nat, n \in Q PROVE n + 1 \in Q
  <2>0. \A s \in SUBSET S : Cardinality(s) <= n => Right(s)
    BY <1>2
  <2>1. ASSUME NEW s \in SUBSET S, Cardinality(s) <= n + 1, s # {} PROVE Right(s)
    <3> DEFINE p == Pick(s)
    <3>1. p \in s /\ \A x \in s : s \ {x} \in SUBSET S /\ Cardinality(s \ {x}) <= n
      <4>1. Cardinality(s) \in Nat /\ p \in s
            /\ \A x \in s : s \ {x} \in SUBSET S /\ Cardinality(s \ {x}) = Cardinality(s) - 1
        BY <2>1, Subsets
      <4> HIDE DEF p
      <4> QED  BY <2>1, <4>1
    <3>2. \A x \in s : f[x] \in Nat /\ Sum(s \ {x}) \in Nat
      BY <2>0, <3>1
    <3>3. Sum(s) = f[p] + Sum(s \ {p})
      BY <1>0, <2>1
    <3> HIDE DEF p
    <3>4. Sum(s) \in Nat
      BY <3>1, <3>2, <3>3
    <3>5. ASSUME NEW x \in s, x # p PROVE Sum(s) = f[x] + Sum(s \ {x})
      <4> DEFINE r == Sum((s \ {x}) \ {p})
      <4>1. x \in s \ {p} /\ p \in s \ {x} /\ (s \ {p}) \ {x} = (s \ {x}) \ {p}
        BY <3>1, <3>5
      <4>2. Sum(s \ {p}) = f[x] + Sum((s \ {p}) \ {x})
        BY <2>0, <3>1, <4>1
      <4>3. Sum(s \ {p}) = f[x] + r
        BY <4>1, <4>2
      <4>4. Sum(s \ {x}) = f[p] + r
        BY <2>0, <3>1, <4>1
      <4>5. r \in Nat
        <5>1. (s \ {x}) \ {p} \in SUBSET S /\ Cardinality((s \ {x}) \ {p}) = Cardinality(s \ {x}) - 1
              /\ Cardinality(s \ {x}) \in Nat /\ Cardinality(s \ {x}) <= n
          BY <3>1, <4>1, Subsets
        <5>2. Cardinality((s \ {x}) \ {p}) <= n
          BY <5>1
        <5> QED  BY <2>0, <5>1, <5>2
      <4> HIDE DEF r
      <4> QED  BY <3>1, <3>2, <3>3, <4>3, <4>4, <4>5
    <3>6. \A x \in s : Sum(s) = f[x] + Sum(s \ {x})
      BY <3>3, <3>5
    <3> QED  BY <3>4, <3>6
  <2>2. Right({})
    BY <1>0
  <2>3. \A s \in SUBSET S : Cardinality(s) <= n + 1 => Right(s)
    <3> HIDE DEF Right
    <3> QED  BY <2>1, <2>2
  <2> HIDE DEF Right
  <2> QED  BY <2>3
<1>3. Nat \subseteq Q
  <2> HIDE DEF Q
  <2> QED  BY <1>1, <1>2, NatInSet
<1>4. Cardinality(S) \in Nat
  BY FS_CardinalityType
<1>5. Right(S)
  <2> HIDE DEF Right
  <2> QED  BY <1>3, <1>4
<1> QED  BY <1>5 DEF Sum

\* A part sums up to no more than the whole.
LEMMA SumMonotone ==
  ASSUME NEW D, NEW f \in [D -> Nat], NEW S \in SUBSET D, IsFiniteSet(S), NEW s \in SUBSET S
  PROVE  SumFunctionOnSet(f, s) <= SumFunctionOnSet(f, S)
<1> DEFINE Sum(T) == SumFunctionOnSet(f, T)
           Q == {n \in Nat : \A T \in SUBSET S : s \subseteq T /\ Cardinality(T) <= n => Sum(s) <= Sum(T)}
<1>0. \A T \in SUBSET S : Sum(T) \in Nat /\ \A x \in T : Sum(T) = f[x] + Sum(T \ {x})
  <2> SUFFICES ASSUME NEW T \in SUBSET S PROVE Sum(T) \in Nat /\ \A x \in T : Sum(T) = f[x] + Sum(T \ {x})
    OBVIOUS
  <2>1. IsFiniteSet(T) /\ T \in SUBSET D
    BY FS_Subset
  <2> QED  BY <2>1, SumFacts
<1>00. \A x \in S : f[x] \in Nat
  OBVIOUS
<1> HIDE DEF Sum
<1>1. 0 \in Q
  <2>1. \A T \in SUBSET S : Cardinality(T) <= 0 => T = {}
    BY Subsets
  <2>2. \A T \in SUBSET S : s \subseteq T /\ Cardinality(T) <= 0 => s = T
    BY <2>1
  <2> QED  BY <1>0, <2>2
<1>2. ASSUME NEW n \in Nat, n \in Q PROVE n + 1 \in Q
  <2>1. ASSUME NEW T \in SUBSET S, s \subseteq T, Cardinality(T) <= n + 1 PROVE Sum(s) <= Sum(T)
    <3>1. CASE T = s
      BY <1>0, <3>1
    <3>2. CASE T # s
      <4>1. PICK x \in T : x \notin s
        BY <2>1, <3>2
      <4>2. T \ {x} \in SUBSET S /\ s \subseteq T \ {x} /\ Cardinality(T) \in Nat
            /\ Cardinality(T \ {x}) = Cardinality(T) - 1
        BY <2>1, <4>1, Subsets
      <4>3. Cardinality(T \ {x}) <= n
        BY <2>1, <4>2
      <4>4. Sum(s) <= Sum(T \ {x})
        BY <1>2, <4>2, <4>3
      <4>5. Sum(T) = f[x] + Sum(T \ {x}) /\ Sum(T) \in Nat /\ Sum(T \ {x}) \in Nat /\ Sum(s) \in Nat /\ f[x] \in Nat
        BY <1>0, <1>00, <4>1, <4>2
      <4> QED  BY <4>4, <4>5
    <3> QED  BY <3>1, <3>2
  <2> QED  BY <2>1
<1>3. Nat \subseteq Q
  <2> HIDE DEF Q
  <2> QED  BY <1>1, <1>2, NatInSet
<1>4. Cardinality(S) \in Q
  <2>1. Cardinality(S) \in Nat
    BY FS_CardinalityType
  <2> HIDE DEF Q
  <2> QED  BY <1>3, <2>1
<1>5. Sum(s) <= Sum(S)
  <2>1. Cardinality(S) \in Nat /\ S \in SUBSET S
    BY FS_CardinalityType
  <2> QED  BY <1>4, <2>1
<1> QED  BY <1>5 DEF Sum

-----------------------------------------------------------------------------
(* NoOvercommit *)

\* Where no pod comes to a node, the node stays within what it has.
LEMMA FewerFit ==
  ASSUME NoOvercommit, \A n \in Nodes : On(n)' \subseteq On(n)
  PROVE  NoOvercommit'
<1> SUFFICES ASSUME NEW n \in Nodes
             PROVE  /\ Cardinality(On(n)') <= AllowedPods[n]
                    /\ SumFunctionOnSet(CpuRequest, On(n)') <= Allocatable[n]
  BY DEF NoOvercommit
<1>1. On(n) \in SUBSET Pods /\ IsFiniteSet(On(n)) /\ On(n)' \in SUBSET On(n) /\ IsFiniteSet(On(n)')
      /\ On(n)' \in SUBSET Pods
  BY PodsAssumption, FS_Subset DEF On
<1>2. /\ Cardinality(On(n)) <= AllowedPods[n] /\ SumFunctionOnSet(CpuRequest, On(n)) <= Allocatable[n]
      /\ AllowedPods[n] \in Nat /\ Allocatable[n] \in Nat /\ CpuRequest \in [Pods -> Nat]
  BY CapacityAssumption DEF NoOvercommit
<1> DEFINE old == On(n)
           new == On(n)'
<1>3. /\ Cardinality(new) <= Cardinality(old) /\ Cardinality(new) \in Nat /\ Cardinality(old) \in Nat
      /\ SumFunctionOnSet(CpuRequest, new) <= SumFunctionOnSet(CpuRequest, old)
      /\ SumFunctionOnSet(CpuRequest, new) \in Nat /\ SumFunctionOnSet(CpuRequest, old) \in Nat
  <2> HIDE DEF old, new
  <2>1. old \in SUBSET Pods /\ IsFiniteSet(old) /\ new \in SUBSET old /\ IsFiniteSet(new) /\ new \in SUBSET Pods
    BY <1>1 DEF old, new
  <2>2. Cardinality(new) <= Cardinality(old) /\ Cardinality(new) \in Nat /\ Cardinality(old) \in Nat
    BY <2>1, FS_Subset, FS_CardinalityType
  <2>3. /\ SumFunctionOnSet(CpuRequest, new) <= SumFunctionOnSet(CpuRequest, old)
        /\ SumFunctionOnSet(CpuRequest, new) \in Nat /\ SumFunctionOnSet(CpuRequest, old) \in Nat
    BY <1>2, <2>1, SumFacts, SumMonotone
  <2> QED  BY <2>2, <2>3
<1> QED  BY <1>2, <1>3

\* A cycle assumes its pod on a node Filter has found room on (fitsRequest, fit.go).
LEMMA ScheduleFits ==
  ASSUME place \in [Pods -> Nodes \cup {NoNode}], NoOvercommit, NEW p \in Pods, Schedule(p)
  PROVE  NoOvercommit'
<1>1. PICK m \in Nodes : place' = [place EXCEPT ![p] = m] /\ FitsNode(p, m)
  BY DEF Schedule, ScheduleUnchecked, Filter
<1>2. place[p] = NoNode /\ place \in [Pods -> Nodes \cup {NoNode}]
  BY DEF Schedule, ScheduleUnchecked
<1>3. \A n \in Nodes : On(n)' = IF n = m THEN On(n) \cup {p} ELSE On(n)
  BY <1>1, <1>2, NamesAssumption DEF On
<1>4. ASSUME NEW n \in Nodes
      PROVE  /\ Cardinality(On(n)') <= AllowedPods[n]
             /\ SumFunctionOnSet(CpuRequest, On(n)') <= Allocatable[n]
  <2>1. CASE n # m
    BY <1>3, <2>1 DEF NoOvercommit
  <2>2. CASE n = m
    <3> DEFINE old == On(n)
               new == old \cup {p}
    <3>1. /\ On(n)' = new /\ p \notin old /\ old \in SUBSET Pods
          /\ AllowedPods[n] \in Nat /\ Allocatable[n] \in Nat /\ CpuRequest \in [Pods -> Nat]
      BY <1>2, <1>3, <2>2, NamesAssumption, CapacityAssumption DEF On
    <3>2. /\ Cardinality(old) + 1 <= AllowedPods[n]
          /\ CpuRequest[p] > 0 => CpuRequest[p] <= Allocatable[n] - SumFunctionOnSet(CpuRequest, old)
          /\ SumFunctionOnSet(CpuRequest, old) <= Allocatable[n]
      BY <1>1, <2>2 DEF FitsNode, NoOvercommit
    <3> HIDE DEF old
    <3>3. IsFiniteSet(old) /\ IsFiniteSet(new) /\ Cardinality(new) = Cardinality(old) + 1
      BY <3>1, PodsAssumption, FS_Subset, FS_AddElement
    <3>4. new \ {p} = old /\ p \in new /\ new \in SUBSET Pods
      BY <3>1
    <3> HIDE DEF new
    <3>5. SumFunctionOnSet(CpuRequest, new) = CpuRequest[p] + SumFunctionOnSet(CpuRequest, old)
          /\ SumFunctionOnSet(CpuRequest, old) \in Nat
      BY <3>1, <3>3, <3>4, SumFacts
    <3>6. SumFunctionOnSet(CpuRequest, new) <= Allocatable[n]
      <4> DEFINE a == SumFunctionOnSet(CpuRequest, old)
      <4> HIDE DEF a
      <4>1. CpuRequest[p] \in Nat /\ a \in Nat /\ Allocatable[n] \in Nat /\ a <= Allocatable[n]
            /\ (CpuRequest[p] > 0 => CpuRequest[p] <= Allocatable[n] - a)
        BY <3>1, <3>2, <3>5 DEF a
      <4>2. CpuRequest[p] + a <= Allocatable[n]
        BY <4>1
      <4> QED  BY <3>5, <4>2 DEF a
    <3> QED  BY <3>1, <3>2, <3>3, <3>6
  <2> QED  BY <2>1, <2>2
<1> QED  BY <1>4 DEF NoOvercommit

\* No other step brings a pod to a node.
LEMMA OthersLeave ==
  ASSUME IInv, [Next]_vars, ~\E p \in Pods : Schedule(p), NEW n \in Nodes
  PROVE  On(n)' \subseteq On(n)
<1>1. place \in [Pods -> Nodes \cup {NoNode}]
  BY Typed
<1>2. \A q \in Pods : place'[q] \in {place[q], NoNode}
  <2>1. CASE (\E q \in Pods : Panic(q)) \/ Crash
    BY <2>1 DEF Panic, Crash, Restart
  <2>2. CASE PermitDirect \/ PermitPatchPod
    BY <1>1, <2>2 DEF PermitDirect, PermitPatchPod, Refuse
  <2>3. CASE PermitLabelNode
    BY <1>1, <2>3 DEF PermitLabelNode, Refuse
  <2>4. CASE \E q \in Pods : Bind(q)
    BY <1>1, <2>4 DEF Bind
  <2>5. CASE place' = place
    BY <1>1, <2>5
  <2>6. (\E q \in Pods : Preprocess(q) \/ Sync(q)) => place' = place
    BY DEF Preprocess, Sync
  <2>7. (\E m \in Nodes : \E i \in GpusOf(m), st \in Statuses : ReportStatus(m, i, st)) => place' = place
    BY DEF ReportStatus
  <2>8. UNCHANGED vars => place' = place
    BY DEF vars
  <2> QED  BY <2>1, <2>2, <2>3, <2>4, <2>5, <2>6, <2>7, <2>8 DEF Next, Permit
<1> QED  BY <1>2, NamesAssumption DEF On

\* No node is given more pods than it allows or more of a resource than it has, for any
\* pods, nodes and capacities and whatever ends or fails (fitsRequest, fit.go).
THEOREM NeverOvercommits == Spec => []NoOvercommit
<1>1. Init => NoOvercommit
  <2> SUFFICES ASSUME Init, NEW n \in Nodes
               PROVE  /\ Cardinality(On(n)) <= AllowedPods[n]
                      /\ SumFunctionOnSet(CpuRequest, On(n)) <= Allocatable[n]
    BY DEF NoOvercommit
  <2>1. On(n) = {}
    BY NamesAssumption DEF Init, On
  <2>2. Cardinality({}) = 0 /\ SumFunctionOnSet(CpuRequest, {}) = 0
    BY FS_EmptySet, SumRecursive
  <2>3. AllowedPods[n] \in Nat /\ Allocatable[n] \in Nat
    BY CapacityAssumption
  <2> QED  BY <2>1, <2>2, <2>3
<1>2. IInv /\ NoOvercommit /\ [Next]_vars => NoOvercommit'
  <2> SUFFICES ASSUME IInv, NoOvercommit, [Next]_vars PROVE NoOvercommit'
    OBVIOUS
  <2>1. CASE \E p \in Pods : Schedule(p)
    BY <2>1, ScheduleFits, Typed
  <2>2. CASE ~\E p \in Pods : Schedule(p)
    BY <2>2, OthersLeave, FewerFit
  <2> QED  BY <2>1, <2>2
<1> QED  BY InitEstablishes, NextPreserves, <1>1, <1>2, PTL DEF Spec

-----------------------------------------------------------------------------
(* NormalizeScore keeps the order of the scores *)

\* A nonempty set of naturals has a least element.
LEMMA LeastExists ==
  ASSUME NEW T \in SUBSET Nat, T # {}
  PROVE  \E x \in T : \A y \in T : x <= y
<1>1. PICK x \in T : \A y \in T : ~(<<y, x>> \in OpToRel(<, Nat))
  BY WFMin, NatLessThanWellFounded
<1>2. \A y \in T : ~(y < x)
  BY <1>1 DEF OpToRel
<1> QED  BY <1>2

\* A nonempty bounded one has a greatest element.
LEMMA GreatestExists ==
  ASSUME NEW B \in Nat, NEW T \in SUBSET (0..B), T # {}
  PROVE  \E x \in T : \A y \in T : y <= x
<1> DEFINE D == {B - x : x \in T}
<1>1. D \in SUBSET Nat /\ D # {}
  <2>1. \A x \in T : B - x \in Nat
    OBVIOUS
  <2>2. PICK x \in T : TRUE
    OBVIOUS
  <2>3. B - x \in D
    OBVIOUS
  <2> QED  BY <2>1, <2>3
<1>2. PICK d \in D : \A e \in D : d <= e
  <2> HIDE DEF D
  <2> QED  BY <1>1, LeastExists
<1>3. PICK x \in T : d = B - x
  BY <1>2
<1>4. \A y \in T : B - x <= B - y
  BY <1>2, <1>3
<1> QED  BY <1>3, <1>4

\* The two steps of the normalisation are monotone.
LEMMA DivMonotone ==
  ASSUME NEW a \in Nat, NEW b \in Nat, NEW c \in Nat \ {0}, a <= b
  PROVE  (a \div c) <= (b \div c)
  OBVIOUS

LEMMA TimesMonotone ==
  ASSUME NEW a \in Nat, NEW b \in Nat, NEW c \in Nat, a <= b
  PROVE  c * a <= c * b
  OBVIOUS

\* The loop of MinMax finds the bounds of the scores (MinMax, fit.go).
LEMMA Extremes ==
  ASSUME NEW B \in Nat, NEW S, S # {}, NEW scores \in [S -> 0..B]
  PROVE  /\ Lowest(scores) \in Nat /\ Highest(scores) \in Nat
         /\ \A n \in S : Lowest(scores) <= scores[n] /\ scores[n] <= Highest(scores)
<1> DEFINE T == Range(scores)
<1>1. T \in SUBSET (0..B) /\ T # {} /\ (\A n \in S : scores[n] \in T)
  BY DEF Range
<1>2. T \in SUBSET Nat
  BY <1>1
<1> HIDE DEF T
<1>3. \E x \in T : \A y \in T : x <= y
  BY <1>1, <1>2, LeastExists
<1>4. \E x \in T : \A y \in T : y <= x
  BY <1>1, GreatestExists
<1>5. Lowest(scores) \in T /\ \A y \in T : Lowest(scores) <= y
  BY <1>3 DEF Lowest, T
<1>6. Highest(scores) \in T /\ \A y \in T : y <= Highest(scores)
  BY <1>4 DEF Highest, T
<1> QED  BY <1>1, <1>2, <1>5, <1>6

\* Of two nodes the one with the higher score is not behind after the normalisation,
\* for any nodes and any bound of their scores (NormalizeScore, fit.go).
THEOREM NormalizeKeepsOrder ==
  ASSUME NEW B \in Nat, NEW S, NEW scores \in [S -> 0..B],
         NEW m \in S, NEW n \in S, scores[n] <= scores[m]
  PROVE  NormalizeScore(scores)[n] <= NormalizeScore(scores)[m]
<1> DEFINE lo == Lowest(scores)
           hi == Highest(scores)
<1>1. /\ lo \in Nat /\ hi \in Nat /\ scores[m] \in Nat /\ scores[n] \in Nat
      /\ lo <= scores[n] /\ lo <= scores[m] /\ scores[n] <= hi
  BY Extremes
<1> HIDE DEF lo, hi
<1>2. CASE lo = 0 /\ hi = 0
  BY <1>2 DEF NormalizeScore, lo, hi
<1>3. CASE ~(lo = 0 /\ hi = 0)
  <2>1. \A x \in S : NormalizeScore(scores)[x] =
           IF hi = lo THEN 0 ELSE (MaxNodeScore * (scores[x] - lo)) \div (hi - lo)
    BY <1>3 DEF NormalizeScore, lo, hi
  <2>2. CASE hi = lo
    BY <2>1, <2>2
  <2>3. CASE hi # lo
    <3> DEFINE a == scores[n] - lo
               b == scores[m] - lo
               c == hi - lo
    <3>1. a \in Nat /\ b \in Nat /\ c \in Nat \ {0} /\ a <= b
      BY <1>1, <2>3
    <3>2. NormalizeScore(scores)[n] = (MaxNodeScore * a) \div c /\ NormalizeScore(scores)[m] = (MaxNodeScore * b) \div c
      BY <2>1, <2>3
    <3> HIDE DEF a, b, c
    <3>3. MaxNodeScore * a \in Nat /\ MaxNodeScore * b \in Nat /\ MaxNodeScore * a <= MaxNodeScore * b
      BY <3>1, MaxScoreAssumption, TimesMonotone
    <3> QED  BY <3>1, <3>2, <3>3, DivMonotone
  <2> QED  BY <2>2, <2>3
<1> QED  BY <1>2, <1>3

\* A normalised score is a number.
LEMMA NormalizeType ==
  ASSUME NEW B \in Nat, NEW S, NEW scores \in [S -> 0..B], NEW n \in S
  PROVE  NormalizeScore(scores)[n] \in Int
<1> DEFINE lo == Lowest(scores)
           hi == Highest(scores)
<1>1. lo \in Nat /\ hi \in Nat /\ scores[n] \in Nat /\ lo <= scores[n] /\ scores[n] <= hi
  BY Extremes
<1> HIDE DEF lo, hi
<1>2. NormalizeScore(scores)[n] \in {scores[n], 0, (MaxNodeScore * (scores[n] - lo)) \div (hi - lo)}
      /\ (NormalizeScore(scores)[n] \in {scores[n], 0} \/ hi # lo)
  BY DEF NormalizeScore, lo, hi
<1>3. hi # lo => (MaxNodeScore * (scores[n] - lo)) \div (hi - lo) \in Int
  BY <1>1, MaxScoreAssumption
<1> QED  BY <1>1, <1>2, <1>3

-----------------------------------------------------------------------------
(* The resource scores are in their range *)

\* A quotient is below a bound its dividend is below the multiple of.
LEMMA QuotientBelow ==
  ASSUME NEW x \in Nat, NEW b \in Nat, NEW c \in Nat \ {0}, x < (b + 1) * c
  PROVE  x \div c \in 0..b
<1> DEFINE q == x \div c
<1>1. q \in Nat /\ q * c <= x
  OBVIOUS
<1> HIDE DEF q
<1>2. ASSUME q >= b + 1 PROVE FALSE
  <2>1. (b + 1) * c <= q * c
    <3>1. c * (b + 1) <= c * q
      BY <1>1, <1>2, TimesMonotone
    <3> QED  BY <1>1, <3>1
  <2>2. (b + 1) * c \in Nat /\ q * c \in Nat
    BY <1>1
  <2> QED  BY <1>1, <2>1, <2>2
<1>3. q \in 0..b
  BY <1>1, <1>2
<1> QED  BY <1>3 DEF q

\* A part of a whole, of a bound.
LEMMA PartBelow ==
  ASSUME NEW a \in Nat, NEW b \in Nat, NEW c \in Nat \ {0}, a <= c
  PROVE  (a * b) \div c \in 0..b
<1>1. b * a <= b * c
  BY TimesMonotone
<1>2. a * b \in Nat /\ a * b = b * a /\ (b + 1) * c = b * c + c /\ b * c \in Nat /\ b * a \in Nat
  OBVIOUS
<1>3. a * b < (b + 1) * c
  BY <1>1, <1>2
<1> QED  BY <1>2, <1>3, QuotientBelow

\* Between two points the function is between their scores.
LEMMA BetweenPoints ==
  ASSUME NEW b \in Nat, NEW s \in 0..b, NEW t \in 0..b, NEW d \in Nat, NEW w \in Nat \ {0}, d <= w
  PROVE  s + Quotient((t - s) * d, w) \in 0..b
<1>1. CASE s <= t
  <2> DEFINE k == t - s
  <2>1. k \in Nat /\ s + k = t
    BY <1>1
  <2> HIDE DEF k
  <2>2. (d * k) \div w \in 0..k
    BY <2>1, PartBelow
  <2>3. k * d = d * k /\ k * d >= 0
    BY <2>1
  <2>4. Quotient(k * d, w) \in 0..k
    BY <2>2, <2>3 DEF Quotient
  <2>5. s + Quotient(k * d, w) \in 0..b
    BY <2>1, <2>4
  <2> QED  BY <2>5 DEF k
<1>2. CASE t < s
  <2> DEFINE k == s - t
  <2>1. k \in Nat /\ s = t + k /\ t - s = -k
    BY <1>2
  <2> HIDE DEF k
  <2>2. (d * k) \div w \in 0..k
    BY <2>1, PartBelow
  <2>3. -((-k) * d) = d * k /\ (-k) * d \in Int /\ d * k \in Nat
    BY <2>1
  <2>4. (-k) * d >= 0 => d * k = 0 /\ (-k) * d = 0
    BY <2>3
  <2>5. 0 \div w = 0
    OBVIOUS
  <2>6. Quotient((-k) * d, w) \in {-((d * k) \div w), 0}
    BY <2>3, <2>4, <2>5 DEF Quotient
  <2>7. s + Quotient((-k) * d, w) \in 0..b
    BY <2>1, <2>2, <2>6
  <2> QED  BY <2>1, <2>7
<1> QED  BY <1>1, <1>2

\* The function through the points stays in the range of their scores.
LEMMA BrokenLinearInRange ==
  ASSUME ValidShape, NEW u \in 0..maxUtilization
  PROVE  BrokenLinear(u) \in 0..MaxNodeScore
<1> DEFINE n == Cardinality(DOMAIN Shape)
           right == {i \in 1..n : u <= Shape[i].utilization}
<1>1. /\ n \in Nat \ {0}
      /\ \A i \in 1..n : Shape[i].utilization \in Nat /\ Shape[i].score \in 0..MaxNodeScore
      /\ \A i \in 2..n : Shape[i - 1].utilization < Shape[i].utilization
  <2>1. /\ n \in Nat \ {0} /\ Shape \in [1..n -> [utilization : 0..maxUtilization, score : 0..MaxNodeScore]]
        /\ \A i \in 2..n : Shape[i - 1].utilization < Shape[i].utilization
    BY DEF ValidShape
  <2>2. \A i \in 1..n : Shape[i] \in [utilization : 0..maxUtilization, score : 0..MaxNodeScore]
    <3> HIDE DEF n
    <3> QED  BY <2>1
  <2>3. 0..maxUtilization \subseteq Nat
    BY DEF maxUtilization
  <2> HIDE DEF n
  <2> QED  BY <2>1, <2>2, <2>3
<1>2. CASE right = {}
  <2>1. BrokenLinear(u) = Shape[n].score
    BY <1>2 DEF BrokenLinear
  <2> HIDE DEF n
  <2> QED  BY <1>1, <2>1
<1>3. CASE right # {}
  <2> DEFINE i == CHOOSE i \in right : \A j \in right : i <= j
  <2>1. BrokenLinear(u) = IF i = 1 THEN Shape[1].score
                          ELSE Shape[i - 1].score
                               + Quotient((Shape[i].score - Shape[i - 1].score) * (u - Shape[i - 1].utilization),
                                          Shape[i].utilization - Shape[i - 1].utilization)
    BY <1>3 DEF BrokenLinear
  <2>2. \E x \in right : \A j \in right : x <= j
    <3>1. right \in SUBSET Nat
      BY <1>1
    <3> HIDE DEF right
    <3> QED  BY <1>3, <3>1, LeastExists
  <2>3. i \in right /\ \A j \in right : i <= j
    BY <2>2
  <2> HIDE DEF i
  <2>4. CASE i = 1
    BY <1>1, <2>1, <2>3, <2>4
  <2>5. CASE i # 1
    <3> DEFINE d == u - Shape[i - 1].utilization
               w == Shape[i].utilization - Shape[i - 1].utilization
    <3>1. i \in 2..n /\ i \in 1..n /\ i - 1 \in 1..n /\ i - 1 \notin right /\ u <= Shape[i].utilization
      <4>1. i \in 1..n /\ u <= Shape[i].utilization
        BY <2>3
      <4> HIDE DEF n, right
      <4>2. i - 1 \notin right
        BY <2>3, <4>1
      <4> QED  BY <1>1, <2>5, <4>1, <4>2
    <3>2. Shape[i - 1].utilization < u
      BY <1>1, <3>1 DEF maxUtilization
    <3>3. d \in Nat /\ w \in Nat \ {0} /\ d <= w
      BY <1>1, <3>1, <3>2 DEF maxUtilization
    <3>4. MaxNodeScore \in Nat /\ Shape[i].score \in 0..MaxNodeScore /\ Shape[i - 1].score \in 0..MaxNodeScore
      BY <1>1, <3>1, MaxScoreAssumption
    <3> HIDE DEF d, w, n, right
    <3>5. Shape[i - 1].score + Quotient((Shape[i].score - Shape[i - 1].score) * d, w) \in 0..MaxNodeScore
      BY <3>3, <3>4, BetweenPoints
    <3> QED  BY <2>1, <2>5, <3>5 DEF d, w
  <2> QED  BY <2>4, <2>5
<1> QED  BY <1>2, <1>3

\* What is asked of a resource and what there is of it, scored.
LEMMA ResourceScoresInRange ==
  ASSUME NEW r \in Nat, NEW c \in Nat
  PROVE  /\ leastRequestedScore(r, c) \in 0..MaxNodeScore
         /\ mostRequestedScore(r, c) \in 0..MaxNodeScore
         /\ ValidShape => ratioScore(r, c) \in 0..MaxNodeScore
<1>1. MaxNodeScore \in Nat /\ 0 \in 0..MaxNodeScore
  BY MaxScoreAssumption
<1>2. leastRequestedScore(r, c) \in 0..MaxNodeScore
  <2>1. CASE c = 0 \/ r > c
    BY <1>1, <2>1 DEF leastRequestedScore
  <2>2. CASE ~(c = 0 \/ r > c)
    <3>1. c - r \in Nat /\ c \in Nat \ {0} /\ c - r <= c
      BY <2>2
    <3>2. ((c - r) * MaxNodeScore) \div c \in 0..MaxNodeScore
      BY <1>1, <3>1, PartBelow
    <3> QED  BY <2>2, <3>2 DEF leastRequestedScore
  <2> QED  BY <2>1, <2>2
<1>3. mostRequestedScore(r, c) \in 0..MaxNodeScore
  <2>1. CASE c = 0
    BY <1>1, <2>1 DEF mostRequestedScore
  <2>2. CASE c # 0
    <3> DEFINE a == IF r > c THEN c ELSE r
    <3>1. a \in Nat /\ c \in Nat \ {0} /\ a <= c
      BY <2>2
    <3>2. mostRequestedScore(r, c) = (a * MaxNodeScore) \div c
      BY <2>2 DEF mostRequestedScore
    <3> HIDE DEF a
    <3> QED  BY <1>1, <3>1, <3>2, PartBelow
  <2> QED  BY <2>1, <2>2
<1>4. ASSUME ValidShape PROVE ratioScore(r, c) \in 0..MaxNodeScore
  <2>1. CASE c = 0 \/ r > c
    <3>1. maxUtilization \in 0..maxUtilization
      BY DEF maxUtilization
    <3> QED  BY <1>4, <2>1, <3>1, BrokenLinearInRange DEF ratioScore
  <2>2. CASE ~(c = 0 \/ r > c)
    <3>1. maxUtilization \in Nat /\ c \in Nat \ {0} /\ r <= c
      BY <2>2 DEF maxUtilization
    <3>2. (r * maxUtilization) \div c \in 0..maxUtilization
      BY <3>1, PartBelow
    <3>3. ratioScore(r, c) = BrokenLinear((r * maxUtilization) \div c)
      BY <2>2 DEF ratioScore
    <3> QED  BY <1>4, <3>2, <3>3, BrokenLinearInRange
  <2> QED  BY <2>1, <2>2
<1> QED  BY <1>2, <1>3, <1>4

\* A sum of multiples is at most the largest multiple of the sum.
LEMMA WeightedSumBelow ==
  ASSUME NEW b \in Nat, NEW D, NEW g \in [D -> Nat], NEW S \in SUBSET D, IsFiniteSet(S),
         NEW f \in [S -> Nat], \A x \in S : f[x] <= b * g[x]
  PROVE  SumFunctionOnSet(f, S) <= b * SumFunctionOnSet(g, S)
<1> DEFINE F(T) == SumFunctionOnSet(f, T)
           G(T) == SumFunctionOnSet(g, T)
           Q == {n \in Nat : \A T \in SUBSET S : Cardinality(T) <= n => F(T) <= b * G(T)}
<1>0. ASSUME NEW T \in SUBSET S
      PROVE  /\ F(T) \in Nat /\ \A x \in T : F(T) = f[x] + F(T \ {x})
             /\ G(T) \in Nat /\ \A x \in T : G(T) = g[x] + G(T \ {x})
  <2>1. IsFiniteSet(T) /\ T \in SUBSET D
    BY FS_Subset
  <2>2. F(T) \in Nat /\ \A x \in T : F(T) = f[x] + F(T \ {x})
    BY <2>1, SumFacts
  <2>3. G(T) \in Nat /\ \A x \in T : G(T) = g[x] + G(T \ {x})
    BY <2>1, SumFacts
  <2> QED  BY <2>2, <2>3
<1>00. F({}) = 0 /\ G({}) = 0 /\ b * 0 = 0
  <2>1. F({}) = 0 /\ G({}) = 0
    BY FS_EmptySet, SumRecursive
  <2> HIDE DEF F, G
  <2> QED  BY <2>1
<1> HIDE DEF F, G
<1>1. 0 \in Q
  <2>1. \A T \in SUBSET S : Cardinality(T) <= 0 => T = {}
    BY Subsets
  <2>2. F({}) <= b * G({})
    BY <1>00
  <2> QED  BY <2>1, <2>2
<1>2. ASSUME NEW n \in Nat, n \in Q PROVE n + 1 \in Q
  <2>1. ASSUME NEW T \in SUBSET S, Cardinality(T) <= n + 1 PROVE F(T) <= b * G(T)
    <3>1. CASE T = {}
      BY <1>00, <3>1
    <3>2. CASE T # {}
      <4>1. PICK x \in T : TRUE
        BY <3>2
      <4>2. T \ {x} \in SUBSET S /\ Cardinality(T) \in Nat /\ Cardinality(T \ {x}) = Cardinality(T) - 1
        BY <4>1, Subsets
      <4>3. F(T \ {x}) <= b * G(T \ {x})
        BY <1>2, <2>1, <4>2
      <4> DEFINE p == F(T \ {x})
                 q == G(T \ {x})
      <4>4. p \in Nat /\ q \in Nat /\ F(T) = f[x] + p /\ G(T) = g[x] + q /\ f[x] \in Nat /\ g[x] \in Nat
            /\ f[x] <= b * g[x]
        BY <1>0, <4>2
      <4>5. p <= b * q
        BY <4>3
      <4> HIDE DEF p, q
      <4>6. b * (g[x] + q) = b * g[x] + b * q /\ b * g[x] \in Nat /\ b * q \in Nat
        BY <4>4
      <4> QED  BY <4>4, <4>5, <4>6
    <3> QED  BY <3>1, <3>2
  <2> QED  BY <2>1
<1>3. Nat \subseteq Q
  <2> HIDE DEF Q
  <2> QED  BY <1>1, <1>2, NatInSet
<1>4. Cardinality(S) \in Q
  <2>1. Cardinality(S) \in Nat
    BY FS_CardinalityType
  <2> HIDE DEF Q
  <2> QED  BY <1>3, <2>1
<1>5. F(S) <= b * G(S)
  <2>1. Cardinality(S) \in Nat /\ S \in SUBSET S
    BY FS_CardinalityType
  <2> QED  BY <1>4, <2>1
<1> QED  BY <1>5 DEF F, G

\* The sums of a weighted mean.
LEMMA MeanSums ==
  ASSUME NEW D, IsFiniteSet(D), NEW weight \in [D -> Nat], NEW score \in [D -> 0..MaxNodeScore],
         NEW S \in SUBSET D
  PROVE  /\ WeightSum(weight, S) \in Nat /\ WeightedSum(score, weight, S) \in Nat
         /\ WeightedSum(score, weight, S) <= MaxNodeScore * WeightSum(weight, S)
<1> DEFINE f == [i \in S |-> score[i] * weight[i]]
<1>1. IsFiniteSet(S)
  BY FS_Subset
<1>2. \A i \in S : /\ weight[i] \in Nat /\ score[i] \in Nat /\ score[i] <= MaxNodeScore
  BY MaxScoreAssumption
<1>3. \A i \in S : score[i] * weight[i] \in Nat /\ score[i] * weight[i] <= MaxNodeScore * weight[i]
  <2> SUFFICES ASSUME NEW i \in S
               PROVE  score[i] * weight[i] \in Nat /\ score[i] * weight[i] <= MaxNodeScore * weight[i]
    OBVIOUS
  <2>1. weight[i] * score[i] <= weight[i] * MaxNodeScore
    BY <1>2, MaxScoreAssumption, TimesMonotone
  <2> QED  BY <1>2, <2>1, MaxScoreAssumption
<1>4. f \in [S -> Nat] /\ \A i \in S : f[i] <= MaxNodeScore * weight[i]
  BY <1>3
<1> HIDE DEF f
<1>5. SumFunctionOnSet(f, S) \in Nat /\ SumFunctionOnSet(weight, S) \in Nat
  BY <1>1, <1>4, SumFacts
<1>6. SumFunctionOnSet(f, S) <= MaxNodeScore * SumFunctionOnSet(weight, S)
  BY <1>1, <1>4, MaxScoreAssumption, WeightedSumBelow
<1> QED  BY <1>5, <1>6 DEF WeightSum, WeightedSum, f

\* A score of a node is a mean of scores of its resources, cut off or rounded, for any
\* number of resources and any weights (resource_allocation.go and the strategies).
THEOREM NodeScoreInRange ==
  ASSUME NEW strategy \in Strategies, NEW D, IsFiniteSet(D), NEW requested \in [D -> Nat],
         NEW allocable \in [D -> Nat], NEW weight \in [D -> Nat]
  PROVE  NodeScore(strategy, requested, allocable, weight) \in 0..MaxNodeScore
<1>0. MaxNodeScore \in Nat /\ 0 \in 0..MaxNodeScore /\ HasResource(allocable) \in SUBSET D
  BY MaxScoreAssumption DEF HasResource
<1>1. ASSUME NEW score \in [D -> 0..MaxNodeScore]
      PROVE  CutMean(score, weight, HasResource(allocable)) \in 0..MaxNodeScore
  <2> DEFINE a == WeightedSum(score, weight, HasResource(allocable))
             b == WeightSum(weight, HasResource(allocable))
  <2>1. a \in Nat /\ b \in Nat /\ a <= MaxNodeScore * b
    <3> HIDE DEF a, b
    <3> QED  BY <1>0, MeanSums DEF a, b
  <2> HIDE DEF a, b
  <2>2. b # 0 => a \div b \in 0..MaxNodeScore
    <3> SUFFICES ASSUME b # 0 PROVE a \div b \in 0..MaxNodeScore
      OBVIOUS
    <3>1. (MaxNodeScore + 1) * b = MaxNodeScore * b + b /\ MaxNodeScore * b \in Nat
      BY <1>0, <2>1
    <3>2. a < (MaxNodeScore + 1) * b /\ b \in Nat \ {0}
      BY <2>1, <3>1
    <3> QED  BY <1>0, <2>1, <3>2, QuotientBelow
  <2> QED  BY <1>0, <2>2 DEF CutMean, a, b
<1>2. CASE strategy = "LeastAllocated"
  <2> DEFINE score == [i \in DOMAIN allocable |-> leastRequestedScore(requested[i], allocable[i])]
  <2>1. score \in [D -> 0..MaxNodeScore]
    BY ResourceScoresInRange
  <2> HIDE DEF score
  <2>2. CutMean(score, weight, HasResource(allocable)) \in 0..MaxNodeScore
    BY <1>1, <2>1
  <2> QED  BY <1>2, <2>2 DEF NodeScore, leastResourceScorer, score
<1>3. CASE strategy = "MostAllocated"
  <2> DEFINE score == [i \in DOMAIN allocable |-> mostRequestedScore(requested[i], allocable[i])]
  <2>1. score \in [D -> 0..MaxNodeScore]
    BY ResourceScoresInRange
  <2> HIDE DEF score
  <2>2. CutMean(score, weight, HasResource(allocable)) \in 0..MaxNodeScore
    BY <1>1, <2>1
  <2> QED  BY <1>3, <2>2 DEF NodeScore, mostResourceScorer, score
<1>4. CASE strategy = "RequestedToCapacityRatio"
  <2> DEFINE score == [i \in DOMAIN allocable |-> ratioScore(requested[i], allocable[i])]
             S == {i \in HasResource(allocable) : score[i] > 0}
             a == WeightedSum(score, weight, S)
             b == WeightSum(weight, S)
  <2>1. score \in [D -> 0..MaxNodeScore]
    BY <1>4, ShapeAssumption, ResourceScoresInRange
  <2>2. requestedToCapacityRatioScorer(requested, allocable, weight) =
           IF b = 0 THEN 0 ELSE (2 * a + b) \div (2 * b)
    BY DEF requestedToCapacityRatioScorer
  <2>3. S \in SUBSET D
    BY <1>0
  <2> HIDE DEF score, S
  <2>4. a \in Nat /\ b \in Nat /\ a <= MaxNodeScore * b
    BY <2>1, <2>3, MeanSums
  <2> HIDE DEF a, b
  <2>5. b # 0 => (2 * a + b) \div (2 * b) \in 0..MaxNodeScore
    <3> SUFFICES ASSUME b # 0 PROVE (2 * a + b) \div (2 * b) \in 0..MaxNodeScore
      OBVIOUS
    <3>1. (MaxNodeScore + 1) * (2 * b) = 2 * (MaxNodeScore * b) + 2 * b /\ MaxNodeScore * b \in Nat
      BY <1>0, <2>4
    <3>2. 2 * a + b < (MaxNodeScore + 1) * (2 * b) /\ 2 * b \in Nat \ {0} /\ 2 * a + b \in Nat
      BY <2>4, <3>1
    <3> QED  BY <1>0, <3>2, QuotientBelow
  <2>6. NodeScore(strategy, requested, allocable, weight)
           = requestedToCapacityRatioScorer(requested, allocable, weight)
    BY <1>4 DEF NodeScore
  <2> QED  BY <1>0, <2>2, <2>5, <2>6
<1> QED  BY <1>2, <1>3, <1>4, StrategiesAssumption

\* So kube-scheduler gets what it expects of a score plugin.
LEMMA BasesInRange == BaseInRange
<1> SUFFICES ASSUME NEW strategy \in Strategies, NEW p \in Pods, NEW n \in Nodes
             PROVE  BaseScore(strategy, p, n) \in 0..MaxNodeScore
  BY DEF BaseInRange
<1> DEFINE f == [q \in Pods |-> NonZeroRequest(q)]
           S == On(n) \cup {p}
           r == SumFunctionOnSet(f, S)
<1>1. f \in [Pods -> Nat]
  BY CapacityAssumption DEF NonZeroRequest
<1>2. S \in SUBSET Pods /\ IsFiniteSet(S)
  BY PodsAssumption, FS_Subset DEF On
<1> HIDE DEF f, S
<1>3. r \in Nat
  BY <1>1, <1>2, SumFacts
<1> HIDE DEF r
<1>4. Allocatable[n] \in Nat
  BY CapacityAssumption
<1>5. <<r>> \in [{1} -> Nat] /\ <<Allocatable[n]>> \in [{1} -> Nat] /\ <<1>> \in [{1} -> Nat]
  BY <1>3, <1>4
<1>6. IsFiniteSet({1})
  BY FS_Singleton
<1>7. NodeScore(strategy, <<r>>, <<Allocatable[n]>>, <<1>>) \in 0..MaxNodeScore
  BY <1>5, <1>6, NodeScoreInRange
<1> QED  BY <1>7 DEF BaseScore, f, S, r

\* A cycle begins with scores in which no node to be reconfigured is ahead of one
\* with a free slice (Score, fit.go).
LEMMA ScheduleRanks ==
  ASSUME NEW p \in Pods, Schedule(p)
  PROVE  FreeSliceOutranks'
<1>1. PICK passed \in SUBSET {n \in Nodes : ~Panics(p, n)} :
         LET feasible == {n \in passed : Filter(p, n)}
             reconfig == {n \in feasible : UsesMig(p) /\ ToReconfig(p, n)}
         IN  \E n \in feasible, strategy \in Strategies :
               /\ place' = [place EXCEPT ![p] = n]
               /\ cycle' = [at |-> "permit", pod |-> p, node |-> n, reconfig |-> reconfig,
                            direct |-> IF UsesMig(p) THEN feasible \ reconfig ELSE {},
                            score |-> Scores(p, [m \in feasible |-> BaseScore(strategy, p, m)], reconfig)]
  BY DEF Schedule, ScheduleUnchecked
<1> DEFINE feasible == {n \in passed : Filter(p, n)}
           reconfig == {n \in feasible : UsesMig(p) /\ ToReconfig(p, n)}
<1>2. PICK strategy \in Strategies :
         /\ cycle'.reconfig = reconfig
         /\ cycle'.direct = IF UsesMig(p) THEN feasible \ reconfig ELSE {}
         /\ cycle'.score = Scores(p, [m \in feasible |-> BaseScore(strategy, p, m)], reconfig)
  <2>1. PICK n \in feasible, strategy \in Strategies :
           cycle' = [at |-> "permit", pod |-> p, node |-> n, reconfig |-> reconfig,
                     direct |-> IF UsesMig(p) THEN feasible \ reconfig ELSE {},
                     score |-> Scores(p, [m \in feasible |-> BaseScore(strategy, p, m)], reconfig)]
    BY <1>1
  <2> HIDE DEF feasible, reconfig
  <2> QED  BY <2>1
<1> SUFFICES ASSUME NEW m \in cycle'.direct, NEW n \in cycle'.reconfig
             PROVE  cycle'.score[m] >= cycle'.score[n]
  BY DEF FreeSliceOutranks
<1>3. UsesMig(p) /\ feasible \in SUBSET Nodes /\ m \in feasible /\ n \in feasible /\ m \notin reconfig /\ n \in reconfig
  BY <1>2
<1> DEFINE base == [k \in feasible |-> BaseScore(strategy, p, k)]
           score == [k \in DOMAIN base |-> IF UsesMig(p) THEN Score(base[k], k \in reconfig) ELSE base[k]]
<1> HIDE DEF feasible, reconfig
<1>4. Cardinality(feasible) # 1
  <2>1. IsFiniteSet(feasible)
    BY <1>3, NodesAssumption, FS_Subset
  <2> QED  BY <1>3, <2>1, FS_Singleton
<1>5. cycle'.score = NormalizeScore(score)
  BY <1>2, <1>4 DEF Scores
<1>6. \A k \in feasible : base[k] \in 0..MaxNodeScore
  BY <1>3, BasesInRange DEF BaseInRange
<1>7. score \in [feasible -> 0..MaxNodeScore + MaxNodeScore]
  <2>1. \A k \in feasible : score[k] \in {base[k], base[k] + MaxNodeScore}
    BY DEF Score
  <2>2. DOMAIN score = feasible /\ score = [k \in feasible |-> score[k]]
    OBVIOUS
  <2> HIDE DEF base, score
  <2>3. \A k \in feasible : score[k] \in 0..MaxNodeScore + MaxNodeScore
    BY <1>6, <2>1, MaxScoreAssumption
  <2> QED  BY <2>2, <2>3
<1>8. score[n] <= score[m]
  <2>1. score[n] = base[n] /\ score[m] = base[m] + MaxNodeScore
    BY <1>3 DEF Score
  <2> HIDE DEF base, score
  <2> QED  BY <1>3, <1>6, <2>1, MaxScoreAssumption
<1> HIDE DEF base, score
<1>9. NormalizeScore(score)[n] <= NormalizeScore(score)[m]
  BY <1>3, <1>7, <1>8, MaxScoreAssumption, NormalizeKeepsOrder
<1>10. NormalizeScore(score)[n] \in Int /\ NormalizeScore(score)[m] \in Int
  BY <1>3, <1>7, MaxScoreAssumption, NormalizeType
<1> QED  BY <1>5, <1>9, <1>10

\* The ranking respects the free slices, for any nodes, pods, requests and strategies
\* (Score and NormalizeScore, fit.go).
THEOREM FreeSlicesRankFirst == Spec => []FreeSliceOutranks
<1>1. Init => FreeSliceOutranks
  BY DEF Init, IdleCycle, FreeSliceOutranks
<1>2. FreeSliceOutranks /\ [Next]_vars => FreeSliceOutranks'
  <2> SUFFICES ASSUME FreeSliceOutranks, [Next]_vars PROVE FreeSliceOutranks'
    OBVIOUS
  <2>1. CASE \E p \in Pods : Schedule(p)
    BY <2>1, ScheduleRanks
  <2>2. CASE ~\E p \in Pods : Schedule(p)
    <3>1. cycle' = cycle \/ cycle' = IdleCycle \/ (PermitLabelNode /\ cycle'.direct = {})
      <4>1. CASE \E p \in Pods : Panic(p) \/ Bind(p) \/ Preprocess(p) \/ Sync(p)
        BY <4>1 DEF Panic, Restart, Bind, Preprocess, Sync
      <4>2. CASE Crash
        BY <4>2 DEF Crash, Restart
      <4>3. CASE PermitDirect \/ PermitPatchPod
        BY <4>3 DEF PermitDirect, PermitPatchPod, Refuse
      <4>4. CASE PermitLabelNode
        BY <4>4 DEF PermitLabelNode, Refuse, IdleCycle
      <4>5. CASE \E n \in Nodes : \E i \in GpusOf(n), st \in Statuses : ReportStatus(n, i, st)
        BY <4>5 DEF ReportStatus
      <4>6. CASE UNCHANGED vars
        BY <4>6 DEF vars
      <4> QED  BY <2>2, <4>1, <4>2, <4>3, <4>4, <4>5, <4>6 DEF Next, Permit
    <3>2. cycle' = cycle \/ cycle'.direct = {}
      BY <3>1 DEF IdleCycle
    <3> QED  BY <3>2 DEF FreeSliceOutranks
  <2> QED  BY <2>1, <2>2
<1> QED  BY <1>1, <1>2, PTL DEF Spec

-----------------------------------------------------------------------------
(* The system *)

\* The typed part of the state, as the steps need it.
LEMMA SysTyped ==
  ASSUME SysIInv
  PROVE  /\ label \in [Pods -> Labels] /\ seen \in [Pods -> Labels]
         /\ target \in [Nodes -> Pods \cup {NoPod}]
         /\ place \in [Pods -> Nodes \cup {NoNode}]
         /\ bound \subseteq Pods /\ (\A p \in bound : place[p] # NoNode)
         /\ cycle.at \in {"idle", "permit", "patch"}
         /\ stoppedOn \in [P!Keys -> SUBSET Nodes]
         /\ sentTo \in [Pods -> Nodes \cup {NoNode}]
         /\ named \subseteq Pods \X Nodes
  BY DEF SysIInv, SysTypeOK, Labels

\* What a label names is a node, once its pod was sent back.
LEMMA NamesNode ==
  ASSUME SysIInv, NEW p \in Pods, NEW l, sentTo[p] # NoNode, NamesItsNode(p, l)
  PROVE  l.expected # NoNode
  BY SysTyped, NamesAssumption DEF NamesItsNode

\* The programs start in the invariant.
LEMMA SysInitEstablishes == SysInit => SysIInv
<1> SUFFICES ASSUME SysInit PROVE SysIInv
  OBVIOUS
<1>1. /\ label = [p \in Pods |-> [done |-> p \in Running, expected |-> NoNode]] /\ seen = label
      /\ \A p \in Pods : label[p].done <=> Home[p] # NoNode
  BY DEF SysInit, Running
<1>2. cycle.at = "idle" /\ cycle.pod = NoPod
  BY DEF SysInit, IdleCycle
<1>3. \A p \in Pods : sentTo[p] = NoNode
  BY DEF SysInit
<1>4. label \in [Pods -> [done : BOOLEAN, expected : Nodes \cup {NoNode}]]
  BY <1>1
<1>5. SysTypeOK
  BY <1>1, <1>2, <1>4, HomeAssumption DEF SysInit, SysTypeOK, Running
<1>6. OwedSound
  BY EmptySeq DEF SysInit, OwedSound
<1>7. BackWhereStopped /\ SentSound /\ SysCopiesSound /\ SysCycleSound
  BY <1>1, <1>2, <1>3 DEF SysInit, BackWhereStopped, SentSound, SysCopiesSound, SysCycleSound
<1> QED  BY <1>5, <1>6, <1>7 DEF SysIInv

-----------------------------------------------------------------------------
(* The steps of the scheduler *)

\* A cycle begins with the pod assumed on the node of the cycle.
LEMMA SysSchedulePreserves ==
  ASSUME SysIInv, NEW p \in Pods, ScheduleOne(p)
  PROVE  SysIInv'
<1>0. UNCHANGED <<label, seen, target, bound, promiseVars, sysVars>>
  BY DEF ScheduleOne, PromiseStays, Schedule, ScheduleUnchecked
<1>1. cycle.at = "idle" /\ cycle.pod = NoPod /\ place[p] = NoNode /\ seen[p].done
  BY DEF ScheduleOne, Schedule, ScheduleUnchecked, SysIInv, SysCycleSound
<1>2. PICK n \in Nodes : /\ place' = [place EXCEPT ![p] = n]
                         /\ cycle'.at = "permit" /\ cycle'.pod = p /\ cycle'.node = n
                         /\ UsesMig(p) => n \in cycle'.reconfig \cup cycle'.direct
  <2>1. PICK passed \in SUBSET {n \in Nodes : ~Panics(p, n)} :
           LET feasible == {n \in passed : Filter(p, n)}
               reconfig == {n \in feasible : UsesMig(p) /\ ToReconfig(p, n)}
           IN  \E n \in feasible, strategy \in Strategies :
                 /\ place' = [place EXCEPT ![p] = n]
                 /\ cycle' = [at |-> "permit", pod |-> p, node |-> n, reconfig |-> reconfig,
                              direct |-> IF UsesMig(p) THEN feasible \ reconfig ELSE {},
                              score |-> Scores(p, [m \in feasible |-> BaseScore(strategy, p, m)], reconfig)]
    BY DEF ScheduleOne, Schedule, ScheduleUnchecked
  <2> DEFINE feasible == {n \in passed : Filter(p, n)}
             reconfig == {n \in feasible : UsesMig(p) /\ ToReconfig(p, n)}
  <2>2. PICK n \in feasible, strategy \in Strategies :
           /\ place' = [place EXCEPT ![p] = n]
           /\ cycle' = [at |-> "permit", pod |-> p, node |-> n, reconfig |-> reconfig,
                        direct |-> IF UsesMig(p) THEN feasible \ reconfig ELSE {},
                        score |-> Scores(p, [m \in feasible |-> BaseScore(strategy, p, m)], reconfig)]
    BY <2>1
  <2>3. n \in Nodes
    OBVIOUS
  <2> HIDE DEF feasible, reconfig
  <2> QED  BY <2>2, <2>3
<1>3. /\ place' \in [Pods -> Nodes \cup {NoNode}] /\ place'[p] = n
      /\ \A q \in Pods \ {p} : place'[q] = place[q]
  BY <1>2, SysTyped
<1>4. p \notin bound /\ p # NoPod
  BY <1>1, SysTyped, NamesAssumption
<1>5. SysTypeOK'
  BY <1>0, <1>2, <1>3, <1>4 DEF SysIInv, SysTypeOK, promiseVars, sysVars, histVars
<1>6. BackWhereStopped'
  <2> SUFFICES ASSUME NEW q \in Pods, UsesMig(q), place'[q] # NoNode, q # p, sentTo[q] # NoNode
               PROVE  \/ place'[q] = sentTo[q] /\ place'[q] \in stoppedOn[Hash[q]]
                      \/ <<q, place'[q]>> \in named
    BY <1>0, <1>2 DEF BackWhereStopped, promiseVars, sysVars, histVars, UsesMig
  <2>1. place'[q] = place[q] /\ q # cycle.pod
    BY <1>1, <1>3, NamesAssumption
  <2> QED  BY <2>1 DEF SysIInv, BackWhereStopped
<1>7. SentSound' /\ OwedSound'
  BY <1>0 DEF SysIInv, SentSound, OwedSound, NamesItsNode, promiseVars, sysVars, histVars, P!Keys
<1>8. SysCopiesSound'
  BY <1>0, <1>1, <1>3 DEF SysIInv, SysCopiesSound, NamesItsNode, sysVars, histVars
<1>9. SysCycleSound'
  BY <1>0, <1>1, <1>2, <1>3, <1>4 DEF SysCycleSound, UsesMig
<1> QED  BY <1>5, <1>6, <1>7, <1>8, <1>9 DEF SysIInv

\* The steps that bring no pod anywhere: whatever loses its place is looked after by
\* nobody.
LEMMA LeavingPreserves ==
  ASSUME SysIInv, UNCHANGED <<label, seen, target, named, sentTo, stoppedOn, owed, stopping>>,
         place' \in [Pods -> Nodes \cup {NoNode}], \A q \in Pods : place'[q] \in {place[q], NoNode},
         bound' \subseteq Pods, \A q \in bound' : place'[q] # NoNode,
         \/ cycle' = cycle /\ (cycle.at # "idle" => cycle.pod \notin bound')
         \/ /\ cycle' = IdleCycle
            /\ cycle.pod \in Pods => place'[cycle.pod] = NoNode
  PROVE  SysIInv'
<1>0. IdleCycle.at = "idle" /\ IdleCycle.pod = NoPod
  BY DEF IdleCycle
<1>1. SysTypeOK'
  BY <1>0 DEF SysIInv, SysTypeOK
<1>2. BackWhereStopped'
  BY DEF SysIInv, BackWhereStopped, UsesMig
<1>3. SentSound' /\ OwedSound' /\ SysCopiesSound'
  BY DEF SysIInv, SentSound, OwedSound, SysCopiesSound, NamesItsNode, P!Keys
<1>4. SysCycleSound'
  <2>1. CASE cycle' = cycle /\ (cycle.at # "idle" => cycle.pod \notin bound')
    BY <2>1 DEF SysIInv, SysCycleSound, UsesMig
  <2>2. CASE cycle' = IdleCycle
    BY <1>0, <2>2 DEF SysCycleSound
  <2> QED  BY <2>1, <2>2
<1> QED  BY <1>1, <1>2, <1>3, <1>4 DEF SysIInv

\* Permit without a reconfiguration lets a pod with a verdict pass on its node only.
LEMMA PermitDirectPreserves ==
  ASSUME SysIInv, PermitNothing
  PROVE  SysIInv'
<1>0. UNCHANGED <<label, seen, target, bound, promiseVars, sysVars>>
  BY DEF PermitNothing, PromiseStays, PermitDirect
<1>1. /\ cycle.at = "permit" /\ cycle.node \notin cycle.reconfig
      /\ cycle.pod \in Pods \ bound /\ cycle.node \in Nodes /\ seen[cycle.pod].done
      /\ place[cycle.pod] \in {cycle.node, NoNode}
      /\ UsesMig(cycle.pod) => cycle.node \in cycle.direct
  BY DEF PermitNothing, PermitDirect, SysIInv, SysCycleSound
<1>2. CASE Refuse
  <2>1. place' = [place EXCEPT ![cycle.pod] = NoNode] /\ cycle' = IdleCycle
    BY <1>2 DEF Refuse
  <2>2. UNCHANGED <<named, sentTo, stoppedOn, owed, stopping>>
    BY <1>0 DEF promiseVars, sysVars, histVars
  <2> QED  BY <1>0, <1>1, <2>1, <2>2, SysTyped, LeavingPreserves
<1>3. CASE /\ ~(cycle.node \in cycle.direct /\ seen[cycle.pod].expected \notin {NoNode, cycle.node})
           /\ cycle' = IdleCycle /\ place' = place
  <2>0. cycle'.at = "idle" /\ cycle'.pod = NoPod
    BY <1>3 DEF IdleCycle
  <2>1. SysTypeOK'
    BY <1>0, <1>3, <2>0 DEF SysIInv, SysTypeOK, promiseVars, sysVars, histVars
  <2>2. ASSUME NEW p \in Pods, UsesMig(p), place[p] # NoNode, sentTo[p] # NoNode
        PROVE  \/ place[p] = sentTo[p] /\ place[p] \in stoppedOn[Hash[p]]
               \/ <<p, place[p]>> \in named
    <3>1. CASE p # cycle.pod
      BY <2>2, <3>1 DEF SysIInv, BackWhereStopped
    <3>2. CASE p = cycle.pod
      <4>1. place[p] = cycle.node /\ seen[p].expected \in {NoNode, cycle.node}
        BY <1>1, <1>3, <2>2, <3>2
      <4>2. NamesItsNode(p, seen[p]) /\ sentTo[p] \in stoppedOn[Hash[p]]
        BY <1>1, <2>2, <3>2 DEF SysIInv, SysCopiesSound, SentSound
      <4>3. seen[p].expected # NoNode
        BY <2>2, <4>2, NamesNode
      <4> QED  BY <4>1, <4>2, <4>3 DEF NamesItsNode
    <3> QED  BY <3>1, <3>2
  <2>3. BackWhereStopped'
    BY <1>0, <1>3, <2>2 DEF BackWhereStopped, promiseVars, sysVars, histVars, UsesMig
  <2>4. SentSound' /\ OwedSound' /\ SysCopiesSound'
    BY <1>0, <1>3 DEF SysIInv, SentSound, OwedSound, SysCopiesSound, NamesItsNode, promiseVars, sysVars, histVars, P!Keys
  <2>5. SysCycleSound'
    BY <2>0 DEF SysCycleSound
  <2> QED  BY <2>1, <2>3, <2>4, <2>5 DEF SysIInv
<1> QED  BY <1>2, <1>3 DEF PermitNothing, PermitDirect

\* Permit labels the node with the pod.
LEMMA PermitNodePreserves ==
  ASSUME SysIInv, PermitNode
  PROVE  SysIInv'
<1>0. /\ UNCHANGED <<label, seen, bound, promiseVars, sentTo>>
      /\ named' = named \cup {<<target'[n], n>> : n \in {m \in Nodes : target'[m] # NoPod}}
  BY DEF PermitNode, PermitLabelNode
<1>1. /\ cycle.at = "permit" /\ cycle.pod \in Pods \ bound /\ cycle.node \in Nodes
      /\ seen[cycle.pod].done /\ place[cycle.pod] \in {cycle.node, NoNode}
  BY DEF PermitNode, PermitLabelNode, SysIInv, SysCycleSound
<1>2. target' \in [Nodes -> Pods \cup {NoPod}]
  <2>1. target' = target \/ target' = [target EXCEPT ![cycle.node] = cycle.pod]
    BY DEF PermitNode, PermitLabelNode
  <2> QED  BY <1>1, <2>1, SysTyped
<1>3. named' \subseteq Pods \X Nodes /\ named \subseteq named'
  BY <1>0, <1>2, SysTyped
<1>4. SentSound' /\ OwedSound'
  BY <1>0, <1>3 DEF SysIInv, SentSound, OwedSound, NamesItsNode, promiseVars, P!Keys
<1>5. CASE /\ target' = [target EXCEPT ![cycle.node] = cycle.pod]
           /\ cycle' = [IdleCycle EXCEPT !.at = "patch", !.pod = cycle.pod, !.node = cycle.node]
           /\ place' = place
  <2>1. cycle'.at = "patch" /\ cycle'.pod = cycle.pod /\ cycle'.node = cycle.node
    BY <1>5 DEF IdleCycle
  <2>2. target'[cycle.node] = cycle.pod /\ <<cycle.pod, cycle.node>> \in named'
    BY <1>0, <1>1, <1>5, SysTyped, NamesAssumption
  <2>3. SysTypeOK'
    BY <1>0, <1>2, <1>3, <1>5, <2>1 DEF SysIInv, SysTypeOK, promiseVars
  <2>4. BackWhereStopped'
    BY <1>0, <1>3, <1>5, <2>1 DEF SysIInv, BackWhereStopped, promiseVars, UsesMig
  <2>5. SysCopiesSound' /\ SysCycleSound'
    BY <1>0, <1>1, <1>3, <1>5, <2>1, <2>2 DEF SysIInv, SysCopiesSound, SysCycleSound, NamesItsNode
  <2> QED  BY <1>4, <2>3, <2>4, <2>5 DEF SysIInv
<1>6. CASE Refuse /\ UNCHANGED target
  <2>1. place' = [place EXCEPT ![cycle.pod] = NoNode] /\ cycle' = IdleCycle
        /\ cycle'.at = "idle" /\ cycle'.pod = NoPod
    BY <1>6 DEF Refuse, IdleCycle
  <2>2. /\ place' \in [Pods -> Nodes \cup {NoNode}] /\ \A q \in Pods : place'[q] \in {place[q], NoNode}
        /\ place'[cycle.pod] = NoNode /\ \A q \in bound : place'[q] # NoNode
    BY <1>1, <2>1, SysTyped
  <2>3. SysTypeOK'
    BY <1>0, <1>2, <1>3, <2>1, <2>2 DEF SysIInv, SysTypeOK, promiseVars
  <2>4. BackWhereStopped'
    BY <1>0, <1>3, <2>2 DEF SysIInv, BackWhereStopped, promiseVars, UsesMig
  <2>5. SysCopiesSound' /\ SysCycleSound'
    BY <1>0, <1>3, <2>1, <2>2 DEF SysIInv, SysCopiesSound, SysCycleSound, NamesItsNode
  <2> QED  BY <1>4, <2>3, <2>4, <2>5 DEF SysIInv
<1> QED  BY <1>5, <1>6 DEF PermitNode, PermitLabelNode

\* Permit replaces the label of the pod: by then the node names it.
LEMMA PermitPodPreserves ==
  ASSUME SysIInv, PermitPod
  PROVE  SysIInv'
<1>0. UNCHANGED <<seen, target, bound, promiseVars, sysVars>>
  BY DEF PermitPod, PromiseStays, PermitPatchPod
<1>1. /\ cycle.at = "patch" /\ cycle.pod \in Pods \ bound /\ cycle.node \in Nodes
      /\ <<cycle.pod, cycle.node>> \in named
  BY DEF PermitPod, PermitPatchPod, SysIInv, SysCycleSound
<1>2. place' = [place EXCEPT ![cycle.pod] = NoNode] /\ cycle' = IdleCycle
      /\ cycle'.at = "idle" /\ cycle'.pod = NoPod
  BY DEF PermitPod, PermitPatchPod, Refuse, IdleCycle
<1>3. /\ place' \in [Pods -> Nodes \cup {NoNode}] /\ \A q \in Pods : place'[q] \in {place[q], NoNode}
      /\ place'[cycle.pod] = NoNode /\ \A q \in bound : place'[q] # NoNode
  BY <1>1, <1>2, SysTyped
<1>4. label' = label \/ label' = [label EXCEPT ![cycle.pod].expected = cycle.node]
  BY DEF PermitPod, PermitPatchPod
<1>5. /\ label' \in [Pods -> Labels] /\ \A q \in Pods : label'[q].done = label[q].done
      /\ \A q \in Pods : label'[q] = label[q] \/ (q = cycle.pod /\ label'[q].expected = cycle.node)
  <2>1. CASE label' = label
    BY <2>1, SysTyped
  <2>2. CASE label' = [label EXCEPT ![cycle.pod].expected = cycle.node]
    <3>1. label[cycle.pod] \in Labels /\ cycle.node \in Nodes \cup {NoNode}
      BY <1>1, SysTyped
    <3>2. /\ label' = [label EXCEPT ![cycle.pod] = [label[cycle.pod] EXCEPT !.expected = cycle.node]]
          /\ [label[cycle.pod] EXCEPT !.expected = cycle.node] \in Labels
          /\ [label[cycle.pod] EXCEPT !.expected = cycle.node].done = label[cycle.pod].done
          /\ [label[cycle.pod] EXCEPT !.expected = cycle.node].expected = cycle.node
      BY <2>2, <3>1 DEF Labels
    <3> DEFINE l == [label[cycle.pod] EXCEPT !.expected = cycle.node]
    <3> HIDE DEF l
    <3> QED  BY <1>1, <3>2, SysTyped DEF l
  <2> QED  BY <1>4, <2>1, <2>2
<1>6. SysTypeOK'
  BY <1>0, <1>2, <1>3, <1>5 DEF SysIInv, SysTypeOK, Labels, promiseVars, sysVars, histVars
<1>7. BackWhereStopped'
  BY <1>0, <1>3 DEF SysIInv, BackWhereStopped, promiseVars, sysVars, histVars, UsesMig
<1>8. SentSound'
  BY <1>0, <1>1, <1>5 DEF SysIInv, SentSound, NamesItsNode, promiseVars, sysVars, histVars
<1>9. OwedSound'
  BY <1>0 DEF SysIInv, OwedSound, promiseVars, P!Keys
<1>10. SysCopiesSound' /\ SysCycleSound'
  BY <1>0, <1>2, <1>3, <1>5 DEF SysIInv, SysCopiesSound, SysCycleSound, NamesItsNode, sysVars, histVars
<1> QED  BY <1>6, <1>7, <1>8, <1>9, <1>10 DEF SysIInv

\* The other steps of the scheduler: what ends is forgotten, and copies are made.
LEMMA SchedulerPreserves ==
  ASSUME SysIInv, SchedulerCrash \/ \E p \in Pods : BindOne(p) \/ SyncOne(p)
  PROVE  SysIInv'
<1>1. CASE SchedulerCrash
  <2>1. /\ UNCHANGED <<label, target, bound, promiseVars, sysVars>> /\ seen' = label
        /\ place' = [q \in Pods |-> IF q \in bound THEN place[q] ELSE NoNode]
        /\ cycle' = IdleCycle /\ cycle'.at = "idle" /\ cycle'.pod = NoPod
    BY <1>1 DEF SchedulerCrash, PromiseStays, Crash, Restart, IdleCycle
  <2>2. cycle.pod \notin bound
    BY SysTyped, NamesAssumption DEF SysIInv, SysCycleSound
  <2>4. SysTypeOK'
    BY <2>1 DEF SysIInv, SysTypeOK, promiseVars, sysVars, histVars
  <2>5. BackWhereStopped'
    BY <2>1, <2>2 DEF SysIInv, BackWhereStopped, promiseVars, sysVars, histVars, UsesMig
  <2>6. SentSound' /\ OwedSound'
    BY <2>1 DEF SysIInv, SentSound, OwedSound, NamesItsNode, promiseVars, sysVars, histVars, P!Keys
  <2>7. SysCopiesSound' /\ SysCycleSound'
    BY <2>1 DEF SysIInv, SysCopiesSound, SentSound, SysCycleSound, NamesItsNode, sysVars, histVars
  <2> QED  BY <2>4, <2>5, <2>6, <2>7 DEF SysIInv
<1>2. ASSUME NEW p \in Pods, BindOne(p) PROVE SysIInv'
  <2>1. /\ UNCHANGED <<label, seen, target, cycle, named, sentTo, stoppedOn, owed, stopping>>
        /\ place[p] # NoNode /\ p \notin bound /\ cycle.pod # p
        /\ \/ bound' = bound \cup {p} /\ place' = place
           \/ bound' = bound /\ place' = [place EXCEPT ![p] = NoNode]
    BY <1>2 DEF BindOne, PromiseStays, Bind, promiseVars, sysVars, histVars
  <2>2. cycle.at # "idle" => cycle.pod \notin bound
    BY DEF SysIInv, SysCycleSound
  <2>3. /\ place' \in [Pods -> Nodes \cup {NoNode}] /\ \A q \in Pods : place'[q] \in {place[q], NoNode}
        /\ bound' \subseteq Pods /\ \A q \in bound' : place'[q] # NoNode
    BY <2>1, SysTyped
  <2> QED  BY <2>1, <2>2, <2>3, LeavingPreserves
<1>3. ASSUME NEW p \in Pods, SyncOne(p) PROVE SysIInv'
  <2>1. /\ UNCHANGED <<label, target, place, bound, cycle, promiseVars, sysVars>>
        /\ seen' = [seen EXCEPT ![p] = label[p]] /\ cycle.pod # p
    BY <1>3 DEF SyncOne, PromiseStays, Sync
  <2>2. /\ seen' \in [Pods -> Labels]
        /\ seen'[p] = label[p] /\ (\A q \in Pods \ {p} : seen'[q] = seen[q])
    BY <2>1, SysTyped
  <2>3. SysTypeOK'
    BY <2>1, <2>2 DEF SysIInv, SysTypeOK, Labels, promiseVars, sysVars, histVars
  <2>4. BackWhereStopped' /\ SentSound' /\ OwedSound'
    BY <2>1 DEF SysIInv, BackWhereStopped, SentSound, OwedSound, NamesItsNode, promiseVars, sysVars, histVars,
       P!Keys, UsesMig
  <2>5. SysCopiesSound' /\ SysCycleSound'
    BY <2>1, <2>2 DEF SysIInv, SysCopiesSound, SentSound, SysCycleSound, NamesItsNode, sysVars, histVars, UsesMig
  <2> QED  BY <2>3, <2>4, <2>5 DEF SysIInv
<1> QED  BY <1>1, <1>2, <1>3

-----------------------------------------------------------------------------
(* The steps of the controllers *)

\* A pod that is released was nowhere before.
LEMMA ReleasePreserves ==
  ASSUME SysIInv, NEW p \in Pods, ReleasePod(p)
  PROVE  SysIInv'
<1>1. /\ UNCHANGED <<seen, target, place, bound, cycle, sentTo, named, stoppedOn, owed, stopping>>
      /\ label' = [label EXCEPT ![p].done = TRUE] /\ ~label[p].done
  BY DEF ReleasePod, P!Release, done, schedVars, sysVars, histVars
<1>2. /\ label' \in [Pods -> Labels] /\ label'[p].done /\ label'[p].expected = label[p].expected
      /\ \A q \in Pods \ {p} : label'[q] = label[q]
  BY <1>1, SysTyped DEF Labels
<1>3. SysTypeOK'
  BY <1>1, <1>2 DEF SysIInv, SysTypeOK, Labels
<1>4. BackWhereStopped' /\ OwedSound' /\ SysCycleSound'
  BY <1>1 DEF SysIInv, BackWhereStopped, OwedSound, SysCycleSound, P!Keys, UsesMig
<1>5. SentSound' /\ SysCopiesSound'
  BY <1>1, <1>2 DEF SysIInv, SentSound, SysCopiesSound, NamesItsNode
<1> QED  BY <1>3, <1>4, <1>5 DEF SysIInv

\* So was one that is sent back, and the node it is sent to is one of those owed.
LEMMA SendBackPreserves ==
  ASSUME SysIInv, NEW p \in Pods, NEW n \in Nodes, SendPodBack(p, n)
  PROVE  SysIInv'
<1> DEFINE k == Hash[p]
<1>0. k \in P!Keys
  BY HashAssumption DEF P!Keys
<1>1. /\ UNCHANGED <<seen, target, place, bound, cycle, named, stoppedOn, stopping>>
      /\ label' = [label EXCEPT ![p] = [done |-> TRUE, expected |-> n]] /\ ~label[p].done
      /\ sentTo' = [sentTo EXCEPT ![p] = n]
      /\ owed' = [owed EXCEPT ![k] = IF @ = <<>> THEN @ ELSE Tail(@)]
      /\ n \in stoppedOn[k] \/ (owed[k] # <<>> /\ n = Head(owed[k]))
  <2>1. P!SendBack(p, n) /\ UNCHANGED <<schedVars, named>> /\ sentTo' = [sentTo EXCEPT ![p] = n]
        /\ label' = [label EXCEPT ![p] = [done |-> TRUE, expected |-> n]]
    BY DEF SendPodBack
  <2>2. UNCHANGED <<seen, target, place, bound, cycle, named>>
    BY <2>1 DEF schedVars
  <2>3. UNCHANGED <<stopping, stoppedOn>> /\ owed' = [owed EXCEPT ![k] = IF @ = <<>> THEN @ ELSE Tail(@)]
    BY <2>1 DEF P!SendBack
  <2>4. ~label[p].done
    BY <2>1 DEF P!SendBack, done
  <2>5. n \in stoppedOn[k] \/ (owed[k] # <<>> /\ n = Head(owed[k]))
    BY <2>1 DEF P!SendBack
  <2> QED  BY <2>1, <2>2, <2>3, <2>4, <2>5
<1>2. owed[k] \in Seq(stoppedOn[k])
  BY <1>0 DEF SysIInv, OwedSound
<1>3. n \in stoppedOn[k]
  BY <1>1, <1>2, HeadTailProperties
<1>4. /\ label' \in [Pods -> Labels] /\ label'[p].done /\ label'[p].expected = n
      /\ \A q \in Pods \ {p} : label'[q] = label[q]
      /\ sentTo' \in [Pods -> Nodes \cup {NoNode}] /\ sentTo'[p] = n
      /\ \A q \in Pods \ {p} : sentTo'[q] = sentTo[q]
  BY <1>1, SysTyped DEF Labels
<1>5. SysTypeOK'
  BY <1>1, <1>4 DEF SysIInv, SysTypeOK, Labels
<1>6. place[p] = NoNode /\ ~seen[p].done
  BY <1>1 DEF SysIInv, SysCopiesSound
<1>7. BackWhereStopped'
  BY <1>1, <1>4, <1>6 DEF SysIInv, BackWhereStopped, UsesMig
<1>8. SentSound'
  BY <1>1, <1>3, <1>4 DEF SysIInv, SentSound, NamesItsNode
<1>9. OwedSound'
  <2> SUFFICES ASSUME NEW h \in P!Keys PROVE owed'[h] \in Seq(stoppedOn[h])
    BY <1>1 DEF SysIInv, OwedSound, P!Keys
  <2>1. owed[h] \in Seq(stoppedOn[h])
    BY DEF SysIInv, OwedSound
  <2>2. owed[h] # <<>> => Tail(owed[h]) \in Seq(stoppedOn[h])
    BY <2>1, HeadTailProperties
  <2>3. owed'[h] \in {owed[h], IF owed[h] = <<>> THEN owed[h] ELSE Tail(owed[h])}
    <3>1. h \in DOMAIN owed => owed'[h] \in {owed[h], IF owed[h] = <<>> THEN owed[h] ELSE Tail(owed[h])}
      BY <1>1
    <3>2. DOMAIN owed = P!Keys
      BY DEF SysIInv, OwedSound
    <3> QED  BY <3>1, <3>2
  <2> QED  BY <2>1, <2>2, <2>3
<1>10. SysCopiesSound' /\ SysCycleSound'
  BY <1>1, <1>4, <1>6 DEF SysIInv, SysCopiesSound, SysCycleSound, NamesItsNode, UsesMig
<1> QED  BY <1>5, <1>7, <1>8, <1>9, <1>10 DEF SysIInv

\* The steps of the promise that are about what is owed only.
LEMMA OwingPreserves ==
  ASSUME SysIInv, UNCHANGED <<label, seen, target, place, bound, cycle, sentTo, named>>,
         stoppedOn' \in [P!Keys -> SUBSET Nodes], \A k \in P!Keys : stoppedOn[k] \subseteq stoppedOn'[k],
         OwedSound'
  PROVE  SysIInv'
<1>1. SysTypeOK'
  BY DEF SysIInv, SysTypeOK
<1>2. \A p \in Pods : Hash[p] \in P!Keys
  BY HashAssumption DEF P!Keys
<1>3. BackWhereStopped' /\ SentSound'
  BY <1>2 DEF SysIInv, BackWhereStopped, SentSound, NamesItsNode, UsesMig
<1>4. SysCopiesSound' /\ SysCycleSound'
  BY DEF SysIInv, SysCopiesSound, SysCycleSound, NamesItsNode, UsesMig
<1> QED  BY <1>1, <1>3, <1>4 DEF SysIInv

\* The node controller stops a pod, and then owes its node; a template or the whole map
\* is forgotten.
LEMMA PromisePreserves ==
  ASSUME SysIInv,
         \/ \E p \in Pods, n \in Nodes : StopPod(p, n)
         \/ \E k \in P!Keys : ForgetTemplate(k) \/ \E n \in Nodes : OweNode(k, n)
         \/ LoseMemory
  PROVE  SysIInv'
<1>0. /\ OwedSound /\ DOMAIN owed = P!Keys /\ stoppedOn \in [P!Keys -> SUBSET Nodes]
      /\ P!Keys' = P!Keys
  BY DEF SysIInv, SysTypeOK, OwedSound, P!Keys
<1>1. ASSUME NEW p \in Pods, NEW n \in Nodes, StopPod(p, n) PROVE SysIInv'
  <2>1. PICK k \in P!Keys : P!Stop(p, n, k)
    BY <1>1 DEF StopPod
  <2>2. /\ UNCHANGED <<label, seen, target, place, bound, cycle, sentTo, named, owed>>
        /\ stopping' = {<<k, n>>} /\ stoppedOn' = [stoppedOn EXCEPT ![k] = @ \cup {n}]
    BY <1>1, <2>1 DEF StopPod, P!Stop, schedVars, histVars
  <2>3. /\ stoppedOn' \in [P!Keys -> SUBSET Nodes] /\ n \in stoppedOn'[k]
        /\ \A h \in P!Keys : stoppedOn[h] \subseteq stoppedOn'[h]
    BY <1>0, <2>2
  <2>4. \A h \in P!Keys : owed[h] \in Seq(stoppedOn'[h])
    <3> SUFFICES ASSUME NEW h \in P!Keys PROVE owed[h] \in Seq(stoppedOn'[h])
      OBVIOUS
    <3>1. owed[h] \in Seq(stoppedOn[h]) /\ stoppedOn[h] \subseteq stoppedOn'[h]
      BY <1>0, <2>3 DEF OwedSound
    <3>2. Seq(stoppedOn[h]) \subseteq Seq(stoppedOn'[h])
      BY <3>1, SeqMonotonic
    <3> QED  BY <3>1, <3>2
  <2>5. OwedSound'
    BY <1>0, <2>2, <2>3, <2>4 DEF OwedSound
  <2> QED  BY <1>0, <2>2, <2>3, <2>5, OwingPreserves
<1>2. ASSUME NEW k \in P!Keys, ForgetTemplate(k) PROVE SysIInv'
  <2>1. /\ UNCHANGED <<label, seen, target, place, bound, cycle, sentTo, named, stoppedOn, stopping>>
        /\ owed' = [owed EXCEPT ![k] = <<>>]
    BY <1>2 DEF ForgetTemplate, P!Forget, schedVars, sysVars, histVars
  <2>2. \A h \in P!Keys : owed'[h] \in {owed[h], <<>>}
    BY <1>0, <2>1
  <2>3. OwedSound'
    BY <1>0, <2>1, <2>2, EmptySeq DEF OwedSound
  <2> QED  BY <1>0, <2>1, <2>3, OwingPreserves
<1>3. ASSUME NEW k \in P!Keys, NEW n \in Nodes, OweNode(k, n) PROVE SysIInv'
  <2>1. /\ UNCHANGED <<label, seen, target, place, bound, cycle, sentTo, named, stoppedOn>>
        /\ stopping = {<<k, n>>} /\ stopping' = {} /\ owed' = [owed EXCEPT ![k] = Append(@, n)]
    BY <1>3 DEF OweNode, P!Owe, schedVars, sysVars, histVars
  <2>2. n \in stoppedOn[k] /\ owed[k] \in Seq(stoppedOn[k])
    BY <1>0, <2>1 DEF OwedSound
  <2>3. Append(owed[k], n) \in Seq(stoppedOn[k])
    BY <2>2, AppendProperties
  <2>4. \A h \in P!Keys : owed'[h] \in Seq(stoppedOn[h])
    BY <1>0, <2>1, <2>3 DEF OwedSound
  <2>5. OwedSound'
    BY <1>0, <2>1, <2>4 DEF OwedSound
  <2> QED  BY <1>0, <2>1, <2>5, OwingPreserves
<1>4. CASE LoseMemory
  <2>1. /\ UNCHANGED <<label, seen, target, place, bound, cycle, sentTo, named, stoppedOn>>
        /\ stopping' = {} /\ owed' = [k \in P!Keys |-> <<>>]
    BY <1>4 DEF LoseMemory, P!Lose, schedVars, histVars
  <2>2. OwedSound'
    BY <1>0, <2>1, EmptySeq DEF OwedSound
  <2> QED  BY <1>0, <2>1, <2>2, OwingPreserves
<1> QED  BY <1>1, <1>2, <1>3, <1>4

\* A pod that is gone has no place.
LEMMA GonePreserves ==
  ASSUME SysIInv, NEW p \in Pods, PodGone(p)
  PROVE  SysIInv'
<1>1. /\ UNCHANGED <<label, seen, target, cycle, named, sentTo, stoppedOn, owed, stopping>>
      /\ place' = [place EXCEPT ![p] = NoNode] /\ bound' = bound \ {p}
  BY DEF PodGone, P!Vanish, sysVars, histVars
<1>2. cycle.at # "idle" => cycle.pod \notin bound'
  BY <1>1 DEF SysIInv, SysCycleSound
<1>3. /\ place' \in [Pods -> Nodes \cup {NoNode}] /\ \A q \in Pods : place'[q] \in {place[q], NoNode}
      /\ bound' \subseteq Pods /\ \A q \in bound' : place'[q] # NoNode
  BY <1>1, SysTyped
<1> QED  BY <1>1, <1>2, <1>3, LeavingPreserves

\* The steps that change nothing of this.
LEMMA QuietPreserves ==
  ASSUME SysIInv, UNCHANGED <<label, seen, target, place, bound, cycle, named, sentTo, stoppedOn, owed, stopping>>
  PROVE  SysIInv'
  BY DEF SysIInv, SysTypeOK, BackWhereStopped, SentSound, OwedSound, SysCopiesSound, SysCycleSound, NamesItsNode,
     P!Keys, UsesMig

\* Every step keeps the invariant.
LEMMA SysNextPreserves == SysIInv /\ [SysNext]_systemVars => SysIInv'
<1> SUFFICES ASSUME SysIInv, [SysNext]_systemVars PROVE SysIInv'
  OBVIOUS
<1>1. CASE \E p \in Pods : ScheduleOne(p)
  BY <1>1, SysSchedulePreserves
<1>2. CASE PermitNothing \/ PermitNode \/ PermitPod
  BY <1>2, PermitDirectPreserves, PermitNodePreserves, PermitPodPreserves
<1>3. CASE SchedulerCrash \/ \E p \in Pods : BindOne(p) \/ SyncOne(p)
  BY <1>3, SchedulerPreserves
<1>4. CASE \E p \in Pods : ReleasePod(p) \/ PodGone(p)
  BY <1>4, ReleasePreserves, GonePreserves
<1>5. CASE \E p \in Pods, n \in Nodes : SendPodBack(p, n)
  BY <1>5, SendBackPreserves
<1>6. CASE \/ \E p \in Pods, n \in Nodes : StopPod(p, n)
           \/ \E k \in P!Keys : ForgetTemplate(k) \/ \E n \in Nodes : OweNode(k, n)
           \/ LoseMemory
  BY <1>6, PromisePreserves
<1>7. CASE \E p \in Pods : CreatePod(p)
  <2>1. UNCHANGED <<label, seen, target, place, bound, cycle, named, sentTo, stoppedOn, owed, stopping>>
    BY <1>7 DEF CreatePod, P!Appear, schedVars, sysVars, histVars
  <2> QED  BY <2>1, QuietPreserves
<1>8. CASE \E n \in Nodes : \E i \in GpusOf(n), st \in Statuses : ReportGpu(n, i, st)
  <2>1. UNCHANGED <<label, seen, target, place, bound, cycle, named, sentTo, stoppedOn, owed, stopping>>
    BY <1>8 DEF ReportGpu, ReportStatus, PromiseStays, promiseVars, sysVars, histVars
  <2> QED  BY <2>1, QuietPreserves
<1>9. CASE UNCHANGED systemVars
  <2>1. UNCHANGED <<label, seen, target, place, bound, cycle, named, sentTo, stoppedOn, owed, stopping>>
    BY <1>9 DEF systemVars, promiseVars, schedVars, sysVars, histVars
  <2> QED  BY <2>1, QuietPreserves
<1> QED  BY <1>1, <1>2, <1>3, <1>4, <1>5, <1>6, <1>7, <1>8, <1>9 DEF SysNext

\* A pod with slices that replaces a stopped one runs where a pod of its template was
\* stopped or on a node that was labelled with it (pod_controller.go and Permit, fit.go),
\* whatever is stale, fails or starts again.
THEOREM RunsWhereStopped == SysSpec => []BackWhereStopped
<1>1. SysIInv => BackWhereStopped
  BY DEF SysIInv
<1> QED  BY SysInitEstablishes, SysNextPreserves, <1>1, PTL DEF SysSpec

\* The pod controller and Permit do not overwrite each other's labels: Permit alone
\* changes the label of a released pod, from a node to one that names the pod.
THEOREM LabelsAreNotUndone == SysSpec => OnlyPermitRedirects
<1> DEFINE Redirects == \A p \in done : /\ p \in done'
                                        /\ expected'[p] # expected[p] =>
                                              expected[p] # NoNode /\ target[expected'[p]] = p
<1>1. ASSUME SysIInv, [SysNext]_systemVars
      PROVE  [Redirects]_systemVars
  <2>0. label \in [Pods -> Labels]
    BY <1>1, SysTyped
  <2>1. ASSUME NEW p \in Pods, label[p].done
        PROVE  /\ label'[p].done
               /\ label'[p].expected # label[p].expected =>
                     label[p].expected # NoNode /\ target[label'[p].expected] = p
    <3>1. CASE PermitPod
      <4>1. \/ label' = label
            \/ /\ label' = [label EXCEPT ![cycle.pod].expected = cycle.node]
               /\ label[cycle.pod].expected # NoNode
        BY <3>1 DEF PermitPod, PermitPatchPod
      <4>2. target[cycle.node] = cycle.pod
        BY <1>1, <3>1 DEF PermitPod, PermitPatchPod, SysIInv, SysCycleSound
      <4> QED  BY <2>0, <2>1, <4>1, <4>2 DEF Labels
    <3>2. CASE \E q \in Pods : ReleasePod(q)
      <4>1. PICK q \in Pods : label' = [label EXCEPT ![q].done = TRUE]
        BY <3>2 DEF ReleasePod
      <4> QED  BY <2>0, <2>1, <4>1 DEF Labels
    <3>3. CASE \E q \in Pods, n \in Nodes : SendPodBack(q, n)
      <4>1. PICK q \in Pods, n \in Nodes :
               label' = [label EXCEPT ![q] = [done |-> TRUE, expected |-> n]] /\ ~label[q].done
        BY <3>3 DEF SendPodBack, P!SendBack, done
      <4>2. p # q
        BY <2>1, <4>1
      <4> QED  BY <2>0, <2>1, <4>1, <4>2
    <3>4. CASE UNCHANGED label
      BY <2>1, <3>4
    <3>5. \/ PermitPod \/ UNCHANGED label
          \/ \E q \in Pods : ReleasePod(q)
          \/ \E q \in Pods, n \in Nodes : SendPodBack(q, n)
      <4>1. CASE \E q \in Pods : ScheduleOne(q) \/ BindOne(q) \/ SyncOne(q) \/ CreatePod(q) \/ PodGone(q)
        BY <4>1 DEF ScheduleOne, Schedule, ScheduleUnchecked, BindOne, Bind, SyncOne, Sync,
           CreatePod, PodGone
      <4>2. CASE PermitNothing \/ PermitNode \/ SchedulerCrash
        BY <4>2 DEF PermitNothing, PermitDirect, PermitNode, PermitLabelNode, SchedulerCrash, Crash,
           Restart
      <4>3. CASE \E n \in Nodes : \E i \in GpusOf(n), st \in Statuses : ReportGpu(n, i, st)
        BY <4>3 DEF ReportGpu, ReportStatus
      <4>4. CASE \/ \E q \in Pods, n \in Nodes : StopPod(q, n)
                 \/ \E k \in P!Keys : ForgetTemplate(k) \/ \E n \in Nodes : OweNode(k, n)
                 \/ LoseMemory
        BY <4>4 DEF StopPod, ForgetTemplate, OweNode, LoseMemory
      <4>5. CASE UNCHANGED systemVars
        BY <4>5 DEF systemVars
      <4> QED  BY <1>1, <4>1, <4>2, <4>3, <4>4, <4>5 DEF SysNext
    <3> QED  BY <3>1, <3>2, <3>3, <3>4, <3>5
  <2> QED  BY <2>1 DEF done, expected
<1> QED  BY SysInitEstablishes, SysNextPreserves, <1>1, PTL DEF SysSpec, OnlyPermitRedirects

-----------------------------------------------------------------------------
(* The scheduler keeps its promises in the composed system *)

\* No other step of the system brings a pod to a node.
LEMMA SysOthersLeave ==
  ASSUME SysIInv, [SysNext]_systemVars, ~\E p \in Pods : ScheduleOne(p), NEW n \in Nodes
  PROVE  On(n)' \subseteq On(n)
<1>1. place \in [Pods -> Nodes \cup {NoNode}]
  BY SysTyped
<1>2. \A q \in Pods : place'[q] \in {place[q], NoNode}
  <2>1. CASE SchedulerCrash
    BY <2>1 DEF SchedulerCrash, Crash, Restart
  <2>2. CASE PermitNothing \/ PermitNode \/ PermitPod
    BY <1>1, <2>2 DEF PermitNothing, PermitDirect, PermitNode, PermitLabelNode, PermitPod, PermitPatchPod, Refuse
  <2>3. CASE \E q \in Pods : BindOne(q) \/ PodGone(q)
    BY <1>1, <2>3 DEF BindOne, Bind, PodGone
  <2>4. CASE \E q \in Pods : SyncOne(q) \/ CreatePod(q) \/ ReleasePod(q)
    BY <2>4 DEF SyncOne, Sync, CreatePod, ReleasePod, schedVars
  <2>5. CASE \E m \in Nodes : \E i \in GpusOf(m), st \in Statuses : ReportGpu(m, i, st)
    BY <2>5 DEF ReportGpu, ReportStatus
  <2>6. CASE \E q \in Pods, m \in Nodes : SendPodBack(q, m) \/ StopPod(q, m)
    BY <2>6 DEF SendPodBack, StopPod, schedVars
  <2>7. CASE \E k \in P!Keys : ForgetTemplate(k) \/ \E m \in Nodes : OweNode(k, m)
    BY <2>7 DEF ForgetTemplate, OweNode, schedVars
  <2>8. CASE LoseMemory
    BY <2>8 DEF LoseMemory, schedVars
  <2>9. CASE UNCHANGED systemVars
    BY <2>9 DEF systemVars, schedVars
  <2> QED  BY <2>1, <2>2, <2>3, <2>4, <2>5, <2>6, <2>7, <2>8, <2>9 DEF SysNext
<1> QED  BY <1>2, NamesAssumption DEF On

\* Where the pods that run at the start fit, no node is given more than it has
\* (fitsRequest, fit.go), also while the node controller stops pods and replicas come.
THEOREM SystemNeverOvercommits == SysSpec => []NoOvercommit
<1>1. SysInit => NoOvercommit
  <2> SUFFICES ASSUME SysInit, NEW n \in Nodes
               PROVE  /\ Cardinality(On(n)) <= AllowedPods[n]
                      /\ SumFunctionOnSet(CpuRequest, On(n)) <= Allocatable[n]
    BY DEF NoOvercommit
  <2>1. On(n) = {p \in Pods : Home[p] = n}
    BY DEF SysInit, On
  <2> QED  BY <2>1, RoomAssumption
<1>2. SysIInv /\ NoOvercommit /\ [SysNext]_systemVars => NoOvercommit'
  <2> SUFFICES ASSUME SysIInv, NoOvercommit, [SysNext]_systemVars PROVE NoOvercommit'
    OBVIOUS
  <2>1. CASE \E p \in Pods : ScheduleOne(p)
    BY <2>1, ScheduleFits, SysTyped DEF ScheduleOne
  <2>2. CASE ~\E p \in Pods : ScheduleOne(p)
    BY <2>2, SysOthersLeave, FewerFit
  <2> QED  BY <2>1, <2>2
<1> QED  BY SysInitEstablishes, SysNextPreserves, <1>1, <1>2, PTL DEF SysSpec

\* What makes GoesWhereExpected inductive in the system, next to SysIInv: as CopiesSound
\* and CycleSound of Scheduler, but the pod of a cycle may have lost its place.
PatchAsked == cycle.at = "patch" => cycle.pod \in asked

Destined == GoesWhereExpected /\ CopiesSound /\ PatchAsked

\* Pods that are released or sent back are new to the scheduler, which has no copy of
\* them that counts and no place for them.
LEMMA FreshLabel ==
  ASSUME SysIInv, Destined, NEW p \in Pods, ~label[p].done,
         UNCHANGED <<seen, place, cycle, asked>>,
         \A q \in Pods \ {p} : label'[q] = label[q]
  PROVE  Destined'
<1>1. place[p] = NoNode /\ ~seen[p].done
  BY DEF SysIInv, SysCopiesSound
<1> QED  BY <1>1 DEF Destined, GoesWhereExpected, CopiesSound, PatchAsked, UsesMig

\* The steps of the scheduler.
LEMMA SchedulerDestined ==
  ASSUME SysIInv, Destined,
         \/ \E p \in Pods : ScheduleOne(p) \/ BindOne(p) \/ SyncOne(p)
         \/ PermitNothing \/ PermitNode \/ PermitPod \/ SchedulerCrash
  PROVE  Destined'
<1>0. /\ place \in [Pods -> Nodes \cup {NoNode}] /\ bound \subseteq Pods
      /\ seen \in [Pods -> Labels] /\ label \in [Pods -> Labels]
      /\ NoPod \notin Pods /\ NoNode \notin Nodes
      /\ GoesWhereExpected /\ CopiesSound /\ PatchAsked /\ SysCycleSound
  BY SysTyped, NamesAssumption DEF Destined, SysIInv
<1>1. ASSUME NEW p \in Pods, ScheduleOne(p) PROVE Destined'
  <2>1. /\ UNCHANGED <<label, seen, asked>> /\ cycle.at = "idle" /\ cycle.pod = NoPod
        /\ cycle'.at = "permit" /\ cycle'.pod = p
    BY <1>0, <1>1 DEF ScheduleOne, Schedule, ScheduleUnchecked, SysCycleSound
  <2>2. \E n \in Nodes : place' = [place EXCEPT ![p] = n]
    BY <1>1 DEF ScheduleOne, Schedule, ScheduleUnchecked
  <2>3. \A q \in Pods \ {p} : place'[q] = place[q] /\ q # cycle.pod
    BY <1>0, <2>1, <2>2
  <2> QED  BY <1>0, <2>1, <2>3 DEF Destined, GoesWhereExpected, CopiesSound, PatchAsked, UsesMig
<1>2. ASSUME NEW p \in Pods, BindOne(p) PROVE Destined'
  <2>1. /\ UNCHANGED <<label, seen, cycle, asked>>
        /\ place' = place \/ place' = [place EXCEPT ![p] = NoNode]
    BY <1>2 DEF BindOne, Bind
  <2>2. \A q \in Pods : place'[q] \in {place[q], NoNode}
    BY <1>0, <2>1
  <2> QED  BY <1>0, <2>1, <2>2 DEF Destined, GoesWhereExpected, CopiesSound, PatchAsked, UsesMig
<1>3. ASSUME NEW p \in Pods, SyncOne(p) PROVE Destined'
  <2>1. UNCHANGED <<label, place, cycle, asked>> /\ seen' = [seen EXCEPT ![p] = label[p]]
    BY <1>3 DEF SyncOne, Sync
  <2>2. seen'[p] = label[p] /\ \A q \in Pods \ {p} : seen'[q] = seen[q]
    BY <1>0, <2>1
  <2> QED  BY <1>0, <2>1, <2>2 DEF Destined, GoesWhereExpected, CopiesSound, PatchAsked, UsesMig
<1>4. CASE PermitNothing
  <2>1. /\ UNCHANGED <<label, seen, asked>> /\ cycle.at = "permit" /\ cycle.node \notin cycle.reconfig
        /\ cycle'.at = "idle" /\ cycle'.pod = NoPod
        /\ cycle.pod \in Pods /\ seen[cycle.pod].done /\ place[cycle.pod] \in {cycle.node, NoNode}
        /\ UsesMig(cycle.pod) => cycle.node \in cycle.direct
    BY <1>0, <1>4 DEF PermitNothing, PermitDirect, Refuse, IdleCycle, SysCycleSound
  <2>2. \/ place' = [place EXCEPT ![cycle.pod] = NoNode]
        \/ /\ place' = place
           /\ UsesMig(cycle.pod) => seen[cycle.pod].expected \in {NoNode, cycle.node}
    BY <1>4, <2>1 DEF PermitNothing, PermitDirect, Refuse
  <2>3. \A q \in Pods : place'[q] \in {place[q], NoNode}
    BY <1>0, <2>2
  <2>4. ASSUME place'[cycle.pod] # NoNode
        PROVE  /\ label[cycle.pod].done
               /\ UsesMig(cycle.pod) /\ cycle.pod \notin asked
                    => label[cycle.pod].expected \in {NoNode, place'[cycle.pod]}
    BY <1>0, <2>1, <2>2, <2>4 DEF CopiesSound
  <2>5. GoesWhereExpected'
    BY <1>0, <2>1, <2>3, <2>4 DEF GoesWhereExpected, UsesMig
  <2> QED  BY <1>0, <2>1, <2>5 DEF Destined, CopiesSound, PatchAsked
<1>5. CASE PermitNode
  <2>1. /\ UNCHANGED <<label, seen>> /\ cycle.at = "permit" /\ cycle.pod \in Pods
        /\ \/ /\ asked' = asked \cup {cycle.pod} /\ place' = place
              /\ cycle'.at = "patch" /\ cycle'.pod = cycle.pod
           \/ /\ asked' = asked /\ place' = [place EXCEPT ![cycle.pod] = NoNode]
              /\ cycle'.at = "idle" /\ cycle'.pod = NoPod
    <3>1. UNCHANGED <<label, seen>> /\ cycle.at = "permit" /\ cycle.pod \in Pods
      BY <1>0, <1>5 DEF PermitNode, PermitLabelNode, SysCycleSound
    <3>2. \/ /\ asked' = asked \cup {cycle.pod} /\ place' = place
             /\ cycle' = [IdleCycle EXCEPT !.at = "patch", !.pod = cycle.pod, !.node = cycle.node]
          \/ /\ asked' = asked /\ place' = [place EXCEPT ![cycle.pod] = NoNode]
             /\ cycle' = IdleCycle
      BY <1>5 DEF PermitNode, PermitLabelNode, Refuse
    <3> DEFINE patching == [IdleCycle EXCEPT !.at = "patch", !.pod = cycle.pod, !.node = cycle.node]
    <3>3. patching.at = "patch" /\ patching.pod = cycle.pod
      BY DEF IdleCycle
    <3>4. IdleCycle.at = "idle" /\ IdleCycle.pod = NoPod
      BY DEF IdleCycle
    <3> HIDE DEF patching
    <3>5. \/ asked' = asked \cup {cycle.pod} /\ place' = place /\ cycle' = patching
          \/ asked' = asked /\ place' = [place EXCEPT ![cycle.pod] = NoNode] /\ cycle' = IdleCycle
      BY <3>2 DEF patching
    <3> QED  BY <3>1, <3>3, <3>4, <3>5
  <2>2. /\ asked \subseteq asked' /\ \A q \in Pods : place'[q] \in {place[q], NoNode}
        /\ \A q \in Pods : place'[q] # NoNode /\ q # cycle'.pod => q # cycle.pod
        /\ cycle'.at = "patch" => cycle'.pod \in asked'
    BY <1>0, <2>1
  <2> QED  BY <1>0, <2>1, <2>2 DEF Destined, GoesWhereExpected, CopiesSound, PatchAsked, UsesMig
<1>6. CASE PermitPod
  <2>1. /\ UNCHANGED <<seen, asked>> /\ cycle.pod \in Pods /\ cycle.pod \in asked
        /\ place' = [place EXCEPT ![cycle.pod] = NoNode] /\ cycle'.at = "idle" /\ cycle'.pod = NoPod
        /\ label' = label \/ label' = [label EXCEPT ![cycle.pod].expected = cycle.node]
    BY <1>0, <1>6 DEF PermitPod, PermitPatchPod, Refuse, IdleCycle, SysCycleSound, PatchAsked
  <2>2. /\ \A q \in Pods \ {cycle.pod} : label'[q] = label[q] /\ place'[q] = place[q]
        /\ place'[cycle.pod] = NoNode
    BY <1>0, <2>1
  <2>3. label'[cycle.pod].done = label[cycle.pod].done
    BY <1>0, <2>1 DEF Labels
  <2>4. GoesWhereExpected'
    BY <1>0, <2>1, <2>2 DEF GoesWhereExpected, UsesMig
  <2>5. CopiesSound'
    BY <1>0, <2>1, <2>2, <2>3 DEF CopiesSound
  <2> QED  BY <2>1, <2>4, <2>5 DEF Destined, PatchAsked
<1>7. CASE SchedulerCrash
  <2>1. /\ UNCHANGED <<label, asked>> /\ seen' = label
        /\ place' = [q \in Pods |-> IF q \in bound THEN place[q] ELSE NoNode]
        /\ cycle'.at = "idle"
    BY <1>7 DEF SchedulerCrash, Crash, Restart, IdleCycle
  <2>2. cycle.pod \notin bound
    BY <1>0 DEF SysCycleSound
  <2> QED  BY <1>0, <2>1, <2>2 DEF Destined, GoesWhereExpected, CopiesSound, PatchAsked, UsesMig
<1> QED  BY <1>1, <1>2, <1>3, <1>4, <1>5, <1>6, <1>7

\* In the composed system too a pod with slices that no reconfiguration was asked for is
\* on the node the pod controller sent it to, and no pod is anywhere before it is
\* released (PreFilter and Permit, fit.go; preprocessHandler, pod_controller.go).
THEOREM SystemGoesWhereExpected == SysSpec => []GoesWhereExpected
<1>1. SysInit => Destined
  <2> SUFFICES ASSUME SysInit PROVE Destined
    OBVIOUS
  <2>1. /\ label = [p \in Pods |-> [done |-> p \in Running, expected |-> NoNode]] /\ seen = label
        /\ place = Home /\ cycle.at = "idle"
    BY DEF SysInit, IdleCycle
  <2>2. \A p \in Pods : label[p].expected = NoNode /\ (label[p].done <=> place[p] # NoNode)
    BY <2>1 DEF Running
  <2> QED  BY <2>1, <2>2 DEF Destined, GoesWhereExpected, CopiesSound, PatchAsked
<1>2. SysIInv /\ Destined /\ [SysNext]_systemVars => Destined'
  <2> SUFFICES ASSUME SysIInv, Destined, [SysNext]_systemVars PROVE Destined'
    OBVIOUS
  <2>0. label \in [Pods -> Labels] /\ place \in [Pods -> Nodes \cup {NoNode}]
    BY SysTyped
  <2>1. CASE \/ \E p \in Pods : ScheduleOne(p) \/ BindOne(p) \/ SyncOne(p)
             \/ PermitNothing \/ PermitNode \/ PermitPod \/ SchedulerCrash
    BY <2>1, SchedulerDestined
  <2>2. ASSUME NEW p \in Pods, ReleasePod(p) PROVE Destined'
    <3>1. /\ UNCHANGED <<seen, place, cycle, asked>> /\ ~label[p].done
          /\ label' = [label EXCEPT ![p].done = TRUE]
      BY <2>2 DEF ReleasePod, P!Release, done, schedVars
    <3>2. \A q \in Pods \ {p} : label'[q] = label[q]
      BY <2>0, <3>1
    <3> QED  BY <3>1, <3>2, FreshLabel
  <2>3. ASSUME NEW p \in Pods, NEW n \in Nodes, SendPodBack(p, n) PROVE Destined'
    <3>1. /\ UNCHANGED <<seen, place, cycle, asked>>
          /\ label' = [label EXCEPT ![p] = [done |-> TRUE, expected |-> n]]
      BY <2>3 DEF SendPodBack, schedVars
    <3>2. ~label[p].done
      <4>1. P!SendBack(p, n)
        BY <2>3 DEF SendPodBack
      <4> QED  BY <4>1 DEF P!SendBack, done
    <3>3. \A q \in Pods \ {p} : label'[q] = label[q]
      BY <2>0, <3>1
    <3> QED  BY <3>1, <3>2, <3>3, FreshLabel
  <2>4. ASSUME NEW p \in Pods, PodGone(p) PROVE Destined'
    <3>1. UNCHANGED <<label, seen, cycle, asked>> /\ place' = [place EXCEPT ![p] = NoNode]
      BY <2>4 DEF PodGone
    <3>2. \A q \in Pods : place'[q] \in {place[q], NoNode}
      BY <2>0, <3>1
    <3> QED  BY <3>1, <3>2 DEF Destined, GoesWhereExpected, CopiesSound, PatchAsked, UsesMig
  <2>5. CASE UNCHANGED <<label, seen, place, cycle, asked>>
    BY <2>5 DEF Destined, GoesWhereExpected, CopiesSound, PatchAsked, UsesMig
  <2>6. CASE \/ \E p \in Pods : CreatePod(p)
             \/ \E n \in Nodes : \E i \in GpusOf(n), st \in Statuses : ReportGpu(n, i, st)
             \/ \E p \in Pods, n \in Nodes : StopPod(p, n)
             \/ \E k \in P!Keys : ForgetTemplate(k) \/ \E n \in Nodes : OweNode(k, n)
             \/ LoseMemory
             \/ UNCHANGED systemVars
    <3>1. UNCHANGED <<label, seen, place, cycle, asked>>
      BY <2>6 DEF CreatePod, ReportGpu, ReportStatus, StopPod, ForgetTemplate, OweNode, LoseMemory,
         systemVars, schedVars
    <3> QED  BY <2>5, <3>1
  <2> QED  BY <2>1, <2>2, <2>3, <2>4, <2>6 DEF SysNext
<1>3. Destined => GoesWhereExpected
  BY DEF Destined
<1> QED  BY SysInitEstablishes, SysNextPreserves, <1>1, <1>2, <1>3, PTL DEF SysSpec
=============================================================================
