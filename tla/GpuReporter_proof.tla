-------------------------- MODULE GpuReporter_proof --------------------------
(***************************************************************************)
(* Proofs about GpuReporter: type correctness and LabelNamesGPUs, from the *)
(* inductive invariant IInv; that no bound pod is forgotten; and           *)
(* MaxLabelCurrent for the files it holds for.                             *)
(***************************************************************************)
EXTENDS GpuReporter, FiniteSetTheorems, WellFoundedInduction, TLAPS

\* The assumptions, in the form the steps need them.
LEMMA Assumed ==
    /\ Kinds \subseteq (0..9) \ {0}
    /\ IsFiniteSet(Pods) /\ Running \subseteq Pods /\ KindOf \in [Pods -> Kinds]
    /\ IsFiniteSet(GPUs) /\ GivenTo \in [Pods -> (SUBSET GPUs) \ {{}}]
    /\ \A p \in Pods : {NotListed, NoLabel} \cap {{}, GivenTo[p]} = {}
    /\ \A c \in DOMAIN MigConfigs :
          /\ MigConfigs[c] \in Seq({MigConfigs[c][i] : i \in DOMAIN MigConfigs[c]})
          /\ \A i \in DOMAIN MigConfigs[c] :
                MigConfigs[c][i].devices \in Nat
                /\ \A k \in DOMAIN MigConfigs[c][i].mig : MigConfigs[c][i].mig[k] \in Nat
    /\ maxRetries \in Nat /\ MaxRestarts \in Nat
  BY KindsAssumption, PodsAssumption, GivenAssumption, FileAssumption, BoundsAssumption DEF None, Range

\* Induction, with a set of numbers in the place of a predicate.
LEMMA NatInSet ==
  ASSUME NEW Q, 0 \in Q, \A n \in Nat : n \in Q => n + 1 \in Q
  PROVE  Nat \subseteq Q
<1> SUFFICES ASSUME ~(Nat \subseteq Q) PROVE FALSE
  OBVIOUS
<1> DEFINE T == Nat \ Q
<1>1. T \in SUBSET Nat /\ T # {}
  OBVIOUS
<1>2. PICK x \in T : \A y \in T : ~(<<y, x>> \in OpToRel(<, Nat))
  <2> HIDE DEF T
  <2> QED  BY <1>1, WFMin, NatLessThanWellFounded
<1>3. \A y \in T : ~(y < x)
  <2> HIDE DEF T
  <2> QED  BY <1>1, <1>2 DEF OpToRel
<1>4. x \in Nat /\ x # 0 /\ x - 1 \in Nat /\ x - 1 \notin T
  BY <1>3
<1> QED  BY <1>4

\* The names isLarger compares, with the empty one.
Labelled == Kinds \cup {0}

\* The maximum of digits is one of them, and as large as any.
LEMMA LargestDigit ==
  ASSUME NEW T \in SUBSET (0..9), T # {}
  PROVE  Max(T) \in T /\ \A y \in T : Max(T) >= y
<1> DEFINE D == {9 - x : x \in T}
<1>1. D \in SUBSET Nat /\ D # {}
  <2>1. \A x \in T : 9 - x \in Nat /\ 9 - x \in D
    OBVIOUS
  <2>2. PICK x \in T : TRUE
    OBVIOUS
  <2> QED  BY <2>1, <2>2
<1>2. PICK d \in D : \A e \in D : ~(<<e, d>> \in OpToRel(<, Nat))
  <2> HIDE DEF D
  <2> QED  BY <1>1, WFMin, NatLessThanWellFounded
<1>3. \A e \in D : d <= e
  <2>1. \A e \in D : ~(e < d)
    BY <1>1, <1>2 DEF OpToRel
  <2> HIDE DEF D
  <2> QED  BY <1>1, <2>1
<1>4. PICK x \in T : d = 9 - x
  OBVIOUS
<1>5. \A y \in T : x >= y
  <2>1. \A y \in T : 9 - x <= 9 - y /\ y \in 0..9
    BY <1>3, <1>4
  <2> QED  BY <2>1
<1> HIDE DEF D
<1> QED  BY <1>5 DEF Max

\* All of them are digits.
LEMMA LabelsAreDigits == Labelled \subseteq 0..9
<1>1. Kinds \subseteq (0..9) \ {0}
  BY Assumed
<1> QED  BY <1>1 DEF Labelled

\* getMaxMigRemain answers with one of the names.
LEMMA AnswerIsLabel ==
  ASSUME NEW res, NEW used, NEW o \in Remains(res, used)
  PROVE  o.max \in Labelled
<1>1. ASSUME NEW r PROVE Largest(r) \in Labelled
  <2> DEFINE T == {0} \cup {k \in Kinds : r[k] > 0}
  <2>1. T \subseteq Labelled /\ T # {}
    BY DEF Labelled
  <2>3. T \in SUBSET (0..9)
    BY <2>1, LabelsAreDigits
  <2>2. Largest(r) = Max(T)
    BY DEF Largest, None
  <2> HIDE DEF T
  <2> QED  BY <2>1, <2>2, <2>3, LargestDigit
<1>2. 0 \in Labelled
  BY DEF Labelled
<1> QED  BY <1>1, <1>2 DEF Remains, None

-----------------------------------------------------------------------------
(* The loop over the device configs of a profile *)

\* What the i-th device config makes of the outcomes of those before it.
Onward(c, used, i, before) ==
    IF i = 0 THEN {[max |-> 0, res |-> Nothing]}
    ELSE UNION {{[max |-> Max({s.max, o.max}), res |-> o.res] :
                    o \in Remains(Overwrite(s.res, MigConfigs[c][i]), used)} : s \in before}

\* g[i]: the outcomes after i device configs.
Iterates(c, used, g, n) == g = [i \in 0..n |-> Onward(c, used, i, g[i - 1])]

\* A profile shows what is left after its last device config.
LEMMA MaximaUnfold ==
  ASSUME NEW c, NEW used
  PROVE  ProfileMaxima(c, used) =
           {s.max : s \in (CHOOSE g : Iterates(c, used, g, Len(MigConfigs[c])))[Len(MigConfigs[c])]}
  BY DEF ProfileMaxima, Iterates, Onward, None

\* The recursion over the device configs defines a function.
LEMMA IterationExists ==
  ASSUME NEW c, NEW used, NEW n \in Nat
  PROVE  \E g : Iterates(c, used, g, n)
<1> DEFINE Q == {k \in Nat : \E g : Iterates(c, used, g, k)}
<1>1. 0 \in Q
  <2> DEFINE g == [i \in 0..0 |-> Onward(c, used, 0, {})]
  <2>1. \A before : Onward(c, used, 0, before) = Onward(c, used, 0, {})
    BY DEF Onward
  <2>2. \A i \in 0..0 : i = 0
    OBVIOUS
  <2>3. g = [i \in 0..0 |-> Onward(c, used, i, g[i - 1])]
    BY <2>1, <2>2
  <2> QED  BY <2>3 DEF Iterates
<1>2. ASSUME NEW k \in Nat, k \in Q PROVE k + 1 \in Q
  <2>1. PICK g : g = [i \in 0..k |-> Onward(c, used, i, g[i - 1])]
    BY <1>2 DEF Iterates
  <2> DEFINE h == [i \in 0..k + 1 |-> IF i = k + 1 THEN Onward(c, used, k + 1, g[k]) ELSE g[i]]
  <2>2. ASSUME NEW i \in 0..k + 1 PROVE h[i] = Onward(c, used, i, h[i - 1])
    <3>1. CASE i = k + 1
      BY <3>1
    <3>2. CASE i = 0
      <4>1. h[i] = Onward(c, used, 0, g[0 - 1])
        BY <2>1, <3>2
      <4> QED  BY <3>2, <4>1 DEF Onward
    <3>3. CASE i # 0 /\ i # k + 1
      <4>1. i \in 0..k /\ i - 1 \in 0..k /\ i - 1 # k + 1 /\ i - 1 \in 0..k + 1
        BY <3>3
      <4>2. g[i] = Onward(c, used, i, g[i - 1]) /\ h[i] = g[i] /\ h[i - 1] = g[i - 1]
        BY <2>1, <3>3, <4>1
      <4> QED  BY <4>2
    <3> QED  BY <3>1, <3>2, <3>3
  <2>3. h = [i \in 0..k + 1 |-> h[i]]
    OBVIOUS
  <2>4. h = [i \in 0..k + 1 |-> Onward(c, used, i, h[i - 1])]
    <3> HIDE DEF h
    <3> QED  BY <2>2, <2>3
  <2> HIDE DEF h
  <2>5. \E f : Iterates(c, used, f, k + 1)
    BY <2>4 DEF Iterates
  <2> QED  BY <2>5
<1> HIDE DEF Q
<1>3. Nat \subseteq Q
  BY <1>1, <1>2, NatInSet
<1> QED  BY <1>3 DEF Q

\* Whatever a profile shows is a kind, or the empty name.
LEMMA MaximaAreLabels ==
  ASSUME NEW c \in DOMAIN MigConfigs, NEW used
  PROVE  ProfileMaxima(c, used) \subseteq Labelled
<1> DEFINE n == Len(MigConfigs[c])
           g == CHOOSE f : Iterates(c, used, f, n)
           Q == {k \in Nat : k <= n => \A s \in g[k] : s.max \in Labelled}
<1>1. n \in Nat
  BY Assumed
<1>2. Iterates(c, used, g, n)
  BY <1>1, IterationExists
<1> HIDE DEF n, g
<1>3. \A i \in 0..n : g[i] = Onward(c, used, i, g[i - 1])
  BY <1>2 DEF Iterates
<1>4. 0 \in Q
  <2>1. g[0] = Onward(c, used, 0, g[0 - 1])
    BY <1>1, <1>3
  <2>2. \A s \in g[0] : s.max = 0
    BY <2>1 DEF Onward
  <2> QED  BY <2>2 DEF Labelled
<1>5. ASSUME NEW k \in Nat, k \in Q PROVE k + 1 \in Q
  <2> SUFFICES ASSUME k + 1 <= n, NEW s \in g[k + 1] PROVE s.max \in Labelled
    OBVIOUS
  <2>1. g[k + 1] = Onward(c, used, k + 1, g[k])
    <3>1. k + 1 \in 0..n /\ (k + 1) - 1 = k
      BY <1>1
    <3> QED  BY <1>3, <3>1
  <2>2. k + 1 # 0
    OBVIOUS
  <2> DEFINE From(t) == {[max |-> Max({t.max, o.max}), res |-> o.res] :
                            o \in Remains(Overwrite(t.res, MigConfigs[c][k + 1]), used)}
  <2>8. Onward(c, used, k + 1, g[k]) = UNION {From(t) : t \in g[k]}
    BY <2>2, Zenon DEF Onward
  <2>9. PICK t \in g[k] : s \in From(t)
    <3> HIDE DEF From
    <3> QED  BY <2>1, <2>8
  <2>4. PICK o \in Remains(Overwrite(t.res, MigConfigs[c][k + 1]), used) :
               s = [max |-> Max({t.max, o.max}), res |-> o.res]
    BY <2>9
  <2>5. o.max \in Labelled /\ t.max \in Labelled
    <3>1. k <= n
      BY <1>1
    <3> QED  BY <1>5, <3>1, AnswerIsLabel
  <2>6. {t.max, o.max} \in SUBSET (0..9) /\ {t.max, o.max} # {} /\ {t.max, o.max} \subseteq Labelled
    BY <2>5, LabelsAreDigits
  <2>7. Max({t.max, o.max}) \in Labelled
    BY <2>6, LargestDigit
  <2> QED  BY <2>4, <2>7
<1>6. Nat \subseteq Q
  <2> HIDE DEF Q
  <2> QED  BY <1>4, <1>5, NatInSet
<1>7. \A s \in g[n] : s.max \in Labelled
  BY <1>1, <1>6
<1>8. ProfileMaxima(c, used) = {s.max : s \in g[n]}
  BY MaximaUnfold DEF g, n
<1> QED  BY <1>7, <1>8

-----------------------------------------------------------------------------
(* The devices the kubelet lists *)

\* Fewer devices than pods and GPUs, of any type.
LEMMA CountBounded ==
  ASSUME TypeOK, NEW type, DOMAIN type = Given
  PROVE  Count(type) \in [Labelled -> 0..Cardinality(Pods \X GPUs)]
<1>1. IsFiniteSet(Pods \X GPUs)
  BY Assumed, FS_Product
<1>2. Given \subseteq Pods \X GPUs
  <2>1. ASSUME NEW p \in Pods, holds[p] # NotListed PROVE {p} \X holds[p] \subseteq Pods \X GPUs
    <3>1. holds[p] \subseteq GPUs
      BY <2>1 DEF TypeOK
    <3> QED  BY <3>1
  <2> QED  BY <2>1 DEF Given
<1>3. ASSUME NEW k \in Labelled PROVE Cardinality({d \in DOMAIN type : type[d] = k}) \in 0..Cardinality(Pods \X GPUs)
  <2> DEFINE T == {d \in DOMAIN type : type[d] = k}
  <2>1. T \subseteq Pods \X GPUs
    BY <1>2
  <2> HIDE DEF T
  <2>2. IsFiniteSet(T) /\ Cardinality(T) <= Cardinality(Pods \X GPUs)
    BY <1>1, <2>1, FS_Subset
  <2>3. Cardinality(T) \in Nat /\ Cardinality(Pods \X GPUs) \in Nat
    BY <1>1, <2>2, FS_CardinalityType
  <2>4. Cardinality(T) \in 0..Cardinality(Pods \X GPUs)
    BY <2>2, <2>3
  <2> QED  BY <2>4 DEF T
<1> DEFINE F(k) == Cardinality({d \in DOMAIN type : type[d] = k})
<1>4. Count(type) = [k \in Labelled |-> F(k)]
  BY DEF Count, Labelled, None
<1> HIDE DEF F
<1>5. [k \in Labelled |-> F(k)] \in [Labelled -> 0..Cardinality(Pods \X GPUs)]
  BY <1>3 DEF F
<1> QED  BY <1>4, <1>5

\* The label of the node is a kind of slice, or empty.
LEMMA NodeLabelTyped ==
  ASSUME TypeOK, NEW used \in RequestMig, NEW m \in MaxMig[used]
  PROVE  m \in Labelled
<1>1. used \in [Labelled -> 0..Cardinality(Pods \X GPUs)]
  <2>1. CASE used = Nothing
    <3>1. Cardinality(Pods \X GPUs) \in Nat
      BY Assumed, FS_Product, FS_CardinalityType
    <3> QED  BY <2>1, <3>1 DEF Nothing, Labelled, None
  <2>2. CASE \E type : DOMAIN type = Given /\ used = Count(type)
    BY <2>2, CountBounded
  <2> QED  BY <2>1, <2>2 DEF RequestMig
<1> DEFINE maxima == [c \in DOMAIN MigConfigs |-> ProfileMaxima(c, used)]
<1>2. MaxMig[used] = {l \in UNION Range(maxima) : \A c \in DOMAIN MigConfigs : \E n \in maxima[c] : n <= l}
  <2>1. used \in [Kinds \cup {None} -> 0..Cardinality(Pods \X GPUs)]
    BY <1>1 DEF Labelled, None
  <2> QED  BY <2>1 DEF MaxMig
<1>3. m \in UNION Range(maxima)
  <2> HIDE DEF maxima
  <2> QED  BY <1>2
<1>4. PICK c \in DOMAIN MigConfigs : m \in ProfileMaxima(c, used)
  BY <1>3 DEF Range
<1> QED  BY <1>4, MaximaAreLabels

-----------------------------------------------------------------------------
(* The invariant of the reporter *)

\* The reporter starts in the invariant, with the pods that ran before it.
LEMMA InitEstablishes == ASSUME Init PROVE IInv
<1>1. /\ api = [p \in Pods |-> IF p \in Running THEN "bound" ELSE "unbound"] /\ cached = api
      /\ label = [p \in Pods |-> NoLabel] /\ maxLabel = 0 /\ fresh = Pods /\ queue = Pods
      /\ holds = [p \in Pods |-> IF p \in Running THEN GivenTo[p] ELSE NotListed]
      /\ worker = [at |-> "node", pod |-> NoLabel, tries |-> 0, ids |-> {}]
      /\ restarts = 0 /\ gaveUp = {} /\ missed = FALSE
  BY DEF Init, Idle, None
<1>2. TypeOK
  <2>1. worker \in Workers
    BY Assumed, <1>1 DEF Workers
  <2>2. Running \subseteq Pods /\ \A p \in Pods : GivenTo[p] \in SUBSET GPUs
    BY Assumed
  <2>3. /\ api \in [Pods -> {"unbound", "bound", "finished", "deleting", "gone"}]
        /\ cached \in [Pods -> {"unbound", "bound", "gone"}]
        /\ label \in [Pods -> {NoLabel} \cup SUBSET GPUs]
    BY <1>1
  <2>4. holds \in [Pods -> {NotListed} \cup SUBSET GPUs]
    BY <1>1, <2>2
  <2>5. restarts \in 0..MaxRestarts
    BY Assumed, <1>1
  <2> QED  BY <1>1, <2>1, <2>3, <2>4, <2>5 DEF TypeOK, None
<1>3. HoldsSound
  BY <1>1 DEF HoldsSound
<1> QED  BY <1>2, <1>3 DEF IInv

\* The record of Reconcile, rewritten.
LEMMA Typed ==
  ASSUME TypeOK
  PROVE  /\ worker.at \in {"idle", "devices", "label", "node"} /\ worker.pod \in Pods \cup {NoLabel}
         /\ worker.tries \in 0..maxRetries /\ worker.ids \in SUBSET GPUs
         /\ maxRetries \in Nat /\ MaxRestarts \in Nat
         /\ \A p \in Pods : GivenTo[p] \in SUBSET GPUs /\ GivenTo[p] # {}
         /\ DOMAIN holds = Pods /\ DOMAIN label = Pods /\ DOMAIN api = Pods
         /\ \A p \in Pods : api[p] \in {"unbound", "bound", "finished", "deleting", "gone"}
         /\ \A p \in Pods : Seen(p) \in {"unbound", "bound", "gone"}
  BY Assumed DEF TypeOK, Workers, Seen

\* Pods, the scheduler and the kubelet: whatever they do to a pod, it does not lose its
\* devices while it is bound.
LEMMA PodsPreserve ==
  ASSUME IInv, NEW p \in Pods,
         \/ Bind(p) \/ KubeletSees(p) \/ Allocate(p) \/ Finish(p)
         \/ Release(p) \/ PodGone(p) \/ WriteStatus(p)
  PROVE  IInv'
<1>0. TypeOK /\ HoldsSound
  BY DEF IInv
<1>1. /\ worker' = worker /\ cached' = cached /\ queue' = queue /\ restarts' = restarts /\ gaveUp' = gaveUp
      /\ maxLabel' = maxLabel
  BY DEF Bind, KubeletSees, Allocate, Finish, Release, PodGone, WriteStatus,
         ReporterUnchanged, cluster
<1>2. /\ missed' \in BOOLEAN /\ fresh' \subseteq Pods
      /\ \E a \in {"unbound", "bound", "finished", "deleting", "gone"} : api' = [api EXCEPT ![p] = a]
      /\ label' \in {label, [label EXCEPT ![p] = NoLabel]}
      /\ holds' \in {holds, [holds EXCEPT ![p] = {}], [holds EXCEPT ![p] = GivenTo[p]], [holds EXCEPT ![p] = NotListed]}
  <2>1. \A x \in {"bound", "finished", "deleting", "gone"} : WritePod(p, x) =>
           /\ fresh' \subseteq Pods
           /\ \E a \in {"unbound", "bound", "finished", "deleting", "gone"} : api' = [api EXCEPT ![p] = a]
    BY <1>0 DEF WritePod, TypeOK
  <2>2. api' = api => \E a \in {"unbound", "bound", "finished", "deleting", "gone"} : api' = [api EXCEPT ![p] = a]
    BY <1>0 DEF TypeOK
  <2>3. CASE Bind(p) \/ Finish(p) \/ PodGone(p)
    BY <1>0, <2>1, <2>3 DEF Bind, Finish, PodGone, TypeOK
  <2>4. CASE KubeletSees(p) \/ Allocate(p) \/ Release(p) \/ WriteStatus(p)
    BY <1>0, <2>2, <2>4 DEF KubeletSees, Allocate, Release, WriteStatus, TypeOK, cluster
  <2> QED  BY <2>3, <2>4
<1>3. TypeOK'
  <2>1. api' \in [Pods -> {"unbound", "bound", "finished", "deleting", "gone"}]
    BY <1>0, <1>2 DEF TypeOK
  <2>2. label' \in [Pods -> {NoLabel} \cup SUBSET GPUs]
    BY <1>0, <1>2 DEF TypeOK
  <2>3. holds' \in [Pods -> {NotListed} \cup SUBSET GPUs]
    BY <1>0, <1>2, Typed DEF TypeOK
  <2> QED  BY <1>0, <1>1, <1>2, <2>1, <2>2, <2>3 DEF TypeOK
<1>4. \A q \in Pods \ {p} : holds'[q] = holds[q] /\ label'[q] = label[q] /\ api'[q] = api[q]
  <2>1. DOMAIN holds = Pods /\ DOMAIN label = Pods /\ DOMAIN api = Pods
    BY <1>0, Typed
  <2>2. \A q \in Pods \ {p} : api'[q] = api[q]
    BY <1>2, <2>1
  <2>3. \A q \in Pods \ {p} : label'[q] = label[q]
    BY <1>2, <2>1
  <2>4. \A q \in Pods \ {p} : holds'[q] = holds[q]
    BY <1>2, <2>1
  <2> QED  BY <2>2, <2>3, <2>4
<1>5. label'[p] \in {label[p], NoLabel}
  BY <1>0, <1>2, Typed
<1>6. holds'[p] \in {NotListed, {}, GivenTo[p]} /\ (Settled(p) => Settled(p)')
  <2>0. GivenTo[p] # {} /\ GivenTo[p] # NotListed
    BY Assumed, <1>0, Typed
  <2>1. holds[p] \in {NotListed, {}, GivenTo[p]}
    BY <1>0 DEF HoldsSound
  <2>2. CASE Bind(p) \/ Finish(p) \/ PodGone(p)
    <3>1. holds' = holds /\ (api[p] = "unbound" => holds[p] # GivenTo[p] \/ api'[p] = "bound")
          /\ (api[p] \notin {"unbound", "bound"} => api'[p] \notin {"unbound", "bound"})
      BY <1>0, <2>2, Typed DEF Bind, Finish, PodGone, WritePod
    <3> QED  BY <2>1, <3>1 DEF Settled
  <2>3. CASE KubeletSees(p)
    BY <1>0, <2>0, <2>3, Typed DEF KubeletSees, Settled
  <2>4. CASE Allocate(p)
    BY <1>0, <2>0, <2>4, Typed DEF Allocate, Settled
  <2>5. CASE Release(p)
    BY <1>0, <2>0, <2>5, Typed DEF Release, Settled
  <2>6. CASE WriteStatus(p)
    BY <2>1, <2>6 DEF WriteStatus, cluster, Settled
  <2> QED  BY <2>2, <2>3, <2>4, <2>5, <2>6
<1>7. \A q \in Pods : Settled(q) => Settled(q)'
  BY <1>4, <1>6 DEF Settled
<1>8. HoldsSound'
  BY <1>0, <1>1, <1>4, <1>5, <1>6, <1>7 DEF HoldsSound
<1> QED  BY <1>3, <1>8 DEF IInv

\* The informer and Reconcile: a label is what the kubelet listed for that pod.
LEMMA LoopPreserves ==
  ASSUME IInv,
         \/ \E p \in Pods : Sync(p) \/ Start(p)
         \/ StartOther \/ Reconcile \/ Restart
  PROVE  IInv'
<1>0. TypeOK /\ HoldsSound
  BY DEF IInv
<1>1. api' = api /\ holds' = holds /\ \A q \in Pods : Settled(q)' <=> Settled(q)
  BY DEF Sync, Start, StartOther, Reconcile, Devices, DevicesFail, LabelPod,
         LabelRefused, UpdateNode, Restart, cluster, Settled
<1>2. CASE \E p \in Pods : Sync(p)
  <2>1. PICK p \in Pods : Sync(p)
    BY <1>2
  <2>2. /\ worker' = worker /\ label' = label /\ maxLabel' = maxLabel /\ restarts' = restarts
        /\ gaveUp' = gaveUp /\ missed' = missed /\ fresh' \subseteq Pods /\ queue' \subseteq Pods
        /\ cached' \in [Pods -> {"unbound", "bound", "gone"}]
    BY <1>0, <2>1, Typed DEF Sync, cluster, TypeOK
  <2> QED  BY <1>0, <1>1, <2>2 DEF IInv, TypeOK, HoldsSound
<1>3. CASE Restart
  <2>1. /\ worker' = [at |-> "node", pod |-> NoLabel, tries |-> 0, ids |-> {}] /\ label' = label
        /\ maxLabel' = maxLabel /\ restarts' \in 0..MaxRestarts /\ gaveUp' = {} /\ missed' = missed
        /\ fresh' = Pods /\ queue' \subseteq Pods /\ cached' = [p \in Pods |-> Seen(p)]
    <3>1. restarts' \in 0..MaxRestarts
      BY <1>0, <1>3, Typed DEF Restart, TypeOK
    <3>2. worker' = [at |-> "node", pod |-> NoLabel, tries |-> 0, ids |-> {}]
      BY <1>3 DEF Restart, Idle
    <3> QED  BY <1>3, <3>1, <3>2 DEF Restart, cluster
  <2>2. worker' \in Workers /\ worker'.at = "node"
    BY <1>0, <2>1, Typed DEF Workers
  <2>3. cached' \in [Pods -> {"unbound", "bound", "gone"}]
    BY <1>0, <2>1, Typed
  <2> QED  BY <1>0, <1>1, <2>1, <2>2, <2>3 DEF IInv, TypeOK, HoldsSound
<1>4. CASE (\E p \in Pods : Start(p)) \/ StartOther
  <2>1. /\ label' = label /\ maxLabel' = maxLabel /\ restarts' = restarts /\ missed' = missed
        /\ fresh' = fresh /\ cached' = cached /\ queue' \subseteq Pods /\ gaveUp' \subseteq Pods
    BY <1>0, <1>4 DEF Start, StartOther, cluster, TypeOK
  <2>2. \E q \in Pods \cup {NoLabel}, a \in {"node", "devices"} :
           /\ worker' = [at |-> a, pod |-> q, tries |-> 0, ids |-> {}]
           /\ a = "devices" => q \in Pods
    BY <1>4 DEF Start, StartOther, Idle
  <2>3. worker' \in Workers /\ worker'.at # "label" /\ (worker'.at = "devices" => worker'.pod \in Pods)
    BY <1>0, <2>2, Typed DEF Workers
  <2> QED  BY <1>0, <1>1, <2>1, <2>3 DEF IInv, TypeOK, HoldsSound
<1>5. CASE Devices
  <2>1. /\ worker.at = "devices" /\ worker.pod \in Pods /\ holds[worker.pod] # NotListed
        /\ worker' = [worker EXCEPT !.at = "label", !.ids = holds[worker.pod]]
        /\ UNCHANGED <<label, maxLabel, cached, fresh, queue, restarts, gaveUp, missed>>
    BY <1>0, <1>5 DEF Devices, cluster, HoldsSound
  <2>2. holds[worker.pod] \in {{}, GivenTo[worker.pod]} /\ holds[worker.pod] \in SUBSET GPUs
    BY <1>0, <2>1 DEF HoldsSound, TypeOK
  <2>3. worker' \in Workers /\ worker'.pod = worker.pod /\ worker'.ids = holds[worker.pod]
    BY <1>0, <2>1, <2>2 DEF TypeOK, Workers
  <2>4. worker'.ids # {} => worker'.ids = GivenTo[worker.pod] /\ Settled(worker.pod)
    BY <2>2, <2>3 DEF Settled
  <2> QED  BY <1>0, <1>1, <2>1, <2>3, <2>4 DEF IInv, TypeOK, HoldsSound
<1>6. CASE DevicesFail
  <2>1. /\ worker.pod \in Pods /\ gaveUp' \subseteq Pods
        /\ UNCHANGED <<label, maxLabel, cached, fresh, queue, restarts, missed>>
    BY <1>0, <1>6 DEF DevicesFail, cluster, HoldsSound, TypeOK
  <2>2. CASE worker.tries < maxRetries
    <3>1. worker' = [worker EXCEPT !.tries = worker.tries + 1] /\ worker.at = "devices"
      BY <1>6, <2>2 DEF DevicesFail
    <3>2. worker.tries + 1 \in 0..maxRetries
      BY <1>0, <2>2, Typed
    <3>3. worker' \in Workers /\ worker'.at = "devices" /\ worker'.pod = worker.pod
      BY <1>0, <3>1, <3>2 DEF TypeOK, Workers
    <3> QED  BY <1>0, <1>1, <2>1, <3>3 DEF IInv, TypeOK, HoldsSound
  <2>3. CASE ~(worker.tries < maxRetries)
    <3>1. worker' = [worker EXCEPT !.at = "node"]
      BY <1>6, <2>3 DEF DevicesFail
    <3>2. worker' \in Workers /\ worker'.at = "node"
      BY <1>0, <3>1 DEF TypeOK, Workers
    <3> QED  BY <1>0, <1>1, <2>1, <3>2 DEF IInv, TypeOK, HoldsSound
  <2> QED  BY <2>2, <2>3
<1>7. CASE LabelPod
  <2>1. /\ worker.at = "label" /\ worker.pod \in Pods /\ label' = [label EXCEPT ![worker.pod] = worker.ids]
        /\ worker' = [worker EXCEPT !.at = "node"] /\ fresh' \subseteq Pods
        /\ UNCHANGED <<maxLabel, cached, queue, restarts, gaveUp, missed>>
    BY <1>0, <1>7 DEF LabelPod, HoldsSound, TypeOK
  <2>2. worker' \in Workers /\ worker'.at = "node"
    BY <1>0, <2>1 DEF TypeOK, Workers
  <2>3. label' \in [Pods -> {NoLabel} \cup SUBSET GPUs]
    BY <1>0, <2>1, Typed DEF TypeOK
  <2>4. \A q \in Pods : label'[q] = IF q = worker.pod THEN worker.ids ELSE label[q]
    BY <1>0, <2>1, Typed
  <2>5. \A q \in Pods : label'[q] \notin {NoLabel, {}} => label'[q] = GivenTo[q] /\ Settled(q)
    BY <1>0, <2>1, <2>4 DEF HoldsSound
  <2> QED  BY <1>0, <1>1, <2>1, <2>2, <2>3, <2>5 DEF IInv, TypeOK, HoldsSound
<1>8. CASE LabelRefused
  <2>1. /\ worker.pod \in Pods /\ worker' = [worker EXCEPT !.at = "node"] /\ queue' \subseteq Pods
        /\ UNCHANGED <<label, maxLabel, cached, fresh, restarts, gaveUp, missed>>
    BY <1>0, <1>8 DEF LabelRefused, HoldsSound, TypeOK, cluster
  <2>2. worker' \in Workers /\ worker'.at = "node"
    BY <1>0, <2>1 DEF TypeOK, Workers
  <2> QED  BY <1>0, <1>1, <2>1, <2>2 DEF IInv, TypeOK, HoldsSound
<1>9. CASE UpdateNode
  <2>1. /\ worker' = [at |-> "idle", pod |-> NoLabel, tries |-> 0, ids |-> {}] /\ missed' \in BOOLEAN
        /\ UNCHANGED <<label, cached, fresh, queue, restarts, gaveUp>>
        /\ maxLabel' = maxLabel \/ \E used \in RequestMig : maxLabel' \in MaxMig[used]
    BY <1>9 DEF UpdateNode, Idle
  <2>2. worker' \in Workers /\ worker'.at = "idle"
    BY <1>0, <2>1, Typed DEF Workers
  <2>3. maxLabel' \in Kinds \cup {None}
    BY <1>0, <2>1, NodeLabelTyped DEF TypeOK, Labelled, None
  <2> QED  BY <1>0, <1>1, <2>1, <2>2, <2>3 DEF IInv, TypeOK, HoldsSound
<1> QED  BY <1>2, <1>3, <1>4, <1>5, <1>6, <1>7, <1>8, <1>9 DEF Reconcile

\* Every step of the reporter and around it keeps the invariant.
LEMMA Invariance == Spec => []IInv
<1>1. Init => IInv
  BY InitEstablishes
<1>2. IInv /\ [Next]_vars => IInv'
  <2> SUFFICES ASSUME IInv, [Next]_vars PROVE IInv'
    OBVIOUS
  <2>1. CASE UNCHANGED vars
    BY <2>1 DEF vars, cluster, IInv, TypeOK, HoldsSound, Settled
  <2> QED  BY <2>1, PodsPreserve, LoopPreserves DEF Next
<1> QED  BY <1>1, <1>2, PTL DEF Spec

\* Every variable of the reporter keeps its type.
THEOREM TypeCorrect == Spec => []TypeOK
<1>1. IInv => TypeOK
  BY DEF IInv
<1> QED  BY <1>1, Invariance, PTL

\* A label that names GPUs names those of its pod, as long as the pod holds any, however late
\* the informer, the kubelet and the Update of Reconcile come: stopPods stops the right pods.
THEOREM LabelsNameGPUs == Spec => []LabelNamesGPUs
<1>1. IInv => LabelNamesGPUs
  BY DEF IInv, HoldsSound, LabelNamesGPUs, Settled
<1> QED  BY <1>1, Invariance, PTL

-----------------------------------------------------------------------------
(* A bound pod is not forgotten *)

\* The kubelet, the scheduler and the other writers: what they do to a pod that the
\* reporter has to know is news of it.
LEMMA PodsNoticed ==
  ASSUME IInv, Noticed, NEW p \in Pods,
         \/ Bind(p) \/ KubeletSees(p) \/ Allocate(p) \/ Finish(p)
         \/ Release(p) \/ PodGone(p) \/ WriteStatus(p)
  PROVE  /\ Noticed'
         /\ \A q \in Pods : News(q) => News(q)'
         /\ \A q \in Pods : api[q] = "deleting" => api'[q] = "deleting" \/ News(q)'
<1>0. TypeOK /\ HoldsSound
  BY DEF IInv
<1>1. worker' = worker /\ cached' = cached /\ queue' = queue /\ gaveUp' = gaveUp /\ fresh' \subseteq fresh
  BY DEF Bind, KubeletSees, Allocate, Finish, Release, PodGone, WriteStatus,
         ReporterUnchanged, cluster, WritePod
<1>2. \A q \in Pods \ {p} : api'[q] = api[q] /\ label'[q] = label[q]
  BY <1>0, Typed DEF Bind, KubeletSees, Allocate, Finish, Release, PodGone,
         WriteStatus, cluster, WritePod
<1>3. \/ api'[p] = api[p] /\ label'[p] = label[p]
      \/ api[p] = "unbound" /\ api'[p] = "bound" /\ p \notin fresh' /\ label'[p] = label[p]
      \/ api[p] \in {"bound", "finished"} /\ api'[p] \in {"finished", "deleting"} /\ label'[p] = label[p]
      \/ api[p] = "deleting" /\ api'[p] = "gone" /\ p \notin fresh'
  BY <1>0, Typed DEF Bind, KubeletSees, Allocate, Finish, Release, PodGone,
         WriteStatus, cluster, WritePod
<1>4. cached[p] \in {"unbound", "bound", "gone"}
  BY <1>0 DEF TypeOK
<1>5. ASSUME NEW q \in Pods, News(q) PROVE News(q)'
  <2>1. CASE q # p
    BY <1>1, <1>2, <1>5, <2>1 DEF News, Passes, Seen
  <2>2. CASE q = p
    BY <1>1, <1>3, <1>4, <1>5, <2>2 DEF News, Passes, Seen, Noticed
  <2> QED  BY <2>1, <2>2
<1>6. api[p] = "deleting" => api'[p] = "deleting" \/ News(p)'
  BY <1>1, <1>3, <1>4 DEF News, Passes, Seen, Noticed
<1>7. ASSUME NEW q \in Pods
      PROVE  /\ api'[q] = "unbound" => cached'[q] = "unbound"
             /\ cached'[q] = "gone" => api'[q] = "gone"
             /\ Passes(q)' => q \notin fresh'
             /\ api'[q] = "bound" /\ label'[q] = NoLabel /\ q \notin gaveUp'
                  => News(q)' \/ (worker'.pod = q /\ worker'.at \in {"devices", "label"})
  <2>1. CASE q # p
    BY <1>1, <1>2, <1>5, <2>1 DEF Noticed, Passes, Seen
  <2>2. CASE q = p
    <3>1. CASE api'[p] = api[p] /\ label'[p] = label[p]
      BY <1>1, <1>5, <2>2, <3>1 DEF Noticed, Passes, Seen
    <3>2. CASE ~(api'[p] = api[p] /\ label'[p] = label[p])
      BY <1>1, <1>3, <1>4, <2>2, <3>2 DEF Noticed, Passes, Seen, News
    <3> QED  BY <3>1, <3>2
  <2> QED  BY <2>1, <2>2
<1>8. Noticed'
  BY <1>7 DEF Noticed
<1> QED  BY <1>2, <1>5, <1>6, <1>8

\* The informer passes on what it learns, a restart lists every pod, and Reconcile comes to
\* rest by an update of the node only.
LEMMA LoopNoticed ==
  ASSUME IInv, Noticed,
         \/ \E p \in Pods : Sync(p) \/ Start(p)
         \/ StartOther \/ Reconcile \/ Restart
  PROVE  /\ Noticed'
         /\ worker'.at = "idle" => UpdateNode \/ (worker' = worker /\ \A q \in Pods : News(q) => News(q)')
<1>0. TypeOK /\ HoldsSound
  BY DEF IInv
<1>1. api' = api
  BY DEF Sync, Start, StartOther, Reconcile, Devices, DevicesFail, LabelPod,
         LabelRefused, UpdateNode, Restart, cluster
<1>2. ASSUME NEW p \in Pods, Sync(p)
      PROVE  Noticed' /\ worker' = worker /\ \A q \in Pods : News(q) => News(q)'
  <2>1. /\ worker' = worker /\ label' = label /\ gaveUp' = gaveUp /\ fresh' = fresh \cup {p}
        /\ queue' = IF Passes(p) THEN queue \cup {p} ELSE queue
        /\ cached'[p] = Seen(p) /\ \A q \in Pods \ {p} : cached'[q] = cached[q]
    BY <1>0, <1>2 DEF Sync, cluster, TypeOK
  <2>2. \A q \in Pods : News(q) => News(q)'
    BY <1>1, <2>1 DEF News, Passes, Seen
  <2>3. Noticed'
    BY <1>0, <1>1, <2>1, <2>2 DEF Noticed, Passes, Seen, TypeOK
  <2> QED  BY <2>1, <2>2, <2>3
<1>3. CASE Restart
  <2>1. /\ worker'.at = "node" /\ cached' = [p \in Pods |-> Seen(p)] /\ fresh' = Pods
        /\ queue' = {p \in Pods : api[p] # "gone"} /\ label' = label /\ gaveUp' = {}
    BY <1>3 DEF Restart, Idle, cluster
  <2>2. Noticed'
    BY <1>0, <1>1, <2>1, Typed DEF Noticed, Passes, Seen, News
  <2> QED  BY <2>1, <2>2
<1>4. ASSUME NEW p \in Pods, Start(p) PROVE Noticed' /\ worker'.at # "idle"
  <2>1. /\ worker.at = "idle" /\ queue' = queue \ {p} /\ gaveUp' = gaveUp \ {p} /\ worker'.pod = p
        /\ worker'.at = IF cached[p] # "bound" THEN "node" ELSE "devices"
        /\ cached' = cached /\ fresh' = fresh /\ label' = label
    BY <1>4 DEF Start, Idle, cluster
  <2> QED  BY <1>1, <2>1 DEF Noticed, News, Passes, Seen
<1>5. CASE StartOther
  <2>1. /\ worker.at = "idle" /\ worker'.at = "node" /\ queue' = queue /\ gaveUp' = gaveUp
        /\ cached' = cached /\ fresh' = fresh /\ label' = label
    BY <1>5 DEF StartOther, Idle, cluster
  <2> QED  BY <1>1, <2>1 DEF Noticed, News, Passes, Seen
<1>6. CASE Devices
  <2>1. /\ worker'.at = "label" /\ worker'.pod = worker.pod /\ queue' = queue /\ gaveUp' = gaveUp
        /\ cached' = cached /\ fresh' = fresh /\ label' = label
    BY <1>0, <1>6 DEF Devices, cluster, TypeOK, Workers
  <2> QED  BY <1>1, <2>1 DEF Noticed, News, Passes, Seen
<1>7. CASE DevicesFail
  <2>1. /\ worker'.pod = worker.pod /\ queue' = queue /\ cached' = cached /\ fresh' = fresh /\ label' = label
        /\ \/ worker'.at = "devices" /\ gaveUp' = gaveUp
           \/ worker'.at = "node" /\ gaveUp' = gaveUp \cup {worker.pod}
    BY <1>0, <1>7 DEF DevicesFail, cluster, TypeOK, Workers
  <2> QED  BY <1>1, <2>1 DEF Noticed, News, Passes, Seen
<1>8. CASE LabelPod
  <2>1. /\ worker'.at = "node" /\ worker.pod \in Pods /\ queue' = queue /\ gaveUp' = gaveUp
        /\ cached' = cached /\ fresh' = fresh \ {worker.pod}
        /\ label' = [label EXCEPT ![worker.pod] = worker.ids] /\ worker.at = "label"
    BY <1>0, <1>8 DEF LabelPod, TypeOK, Workers, HoldsSound
  <2>2. worker.ids # NoLabel /\ label'[worker.pod] = worker.ids
    BY Assumed, <1>0, <2>1, Typed DEF HoldsSound
  <2> QED  BY <1>0, <1>1, <2>1, <2>2, Typed DEF Noticed, News, Passes, Seen
<1>9. CASE LabelRefused
  <2>1. /\ worker'.at = "node" /\ queue' = queue \cup {worker.pod} /\ gaveUp' = gaveUp
        /\ cached' = cached /\ fresh' = fresh /\ label' = label
    BY <1>0, <1>9 DEF LabelRefused, cluster, TypeOK, Workers
  <2> QED  BY <1>1, <2>1 DEF Noticed, News, Passes, Seen
<1>10. CASE UpdateNode
  <2>1. /\ worker.at = "node" /\ queue' = queue /\ gaveUp' = gaveUp
        /\ cached' = cached /\ fresh' = fresh /\ label' = label
    BY <1>10 DEF UpdateNode
  <2> QED  BY <1>1, <1>10, <2>1 DEF Noticed, News, Passes, Seen
<1> QED
  BY <1>2, <1>3, <1>4, <1>5, <1>6, <1>7, <1>8, <1>9, <1>10 DEF Reconcile

\* So no step loses one.
LEMMA NoticedStep ==
  ASSUME IInv, Noticed, [Next]_vars
  PROVE  Noticed'
<1>1. CASE UNCHANGED vars
  BY <1>1 DEF vars, cluster, Noticed, News, Passes, Seen
<1> QED  BY <1>1, PodsNoticed, LoopNoticed DEF Next

\* Every creation is in the queue from the start.
LEMMA InitNoticed == ASSUME Init PROVE Noticed
  BY DEF Init, Noticed, Passes, Seen, News

\* A bound pod without a label has an event in the queue or to come, or Reconcile is at it,
\* unless its retries ran out: no conflict of two writers, no event that the filter of
\* SetupWithManager drops and no restart makes the reporter forget it.
THEOREM BoundPodsAreNoticed == Spec => []Noticed
<1>1. Init => Noticed
  BY InitNoticed
<1>2. IInv /\ Noticed /\ [Next]_vars => Noticed'
  BY NoticedStep
<1> QED  BY <1>1, <1>2, Invariance, PTL DEF Spec
-----------------------------------------------------------------------------
(* The label of the node *)

\* The deployed file: at most one device config with MIG enabled per profile.
OneConfigEach == \A c \in DOMAIN MigConfigs : Len(MigConfigs[c]) <= 1

\* What there is of each kind under a device config.
Supply(c, i) == Overwrite(Nothing, MigConfigs[c][i])

\* The kinds of which a profile has one more.
OneMore(c, used) ==
    {k \in Kinds : \E i \in DOMAIN MigConfigs[c] : Fits(Supply(c, i), [used EXCEPT ![k] = @ + 1])}

\* It is a number of each kind.
LEMMA SupplyTyped ==
  ASSUME NEW c \in DOMAIN MigConfigs, NEW i \in DOMAIN MigConfigs[c]
  PROVE  Supply(c, i) \in [Kinds -> Nat]
<1> DEFINE dc == MigConfigs[c][i]
<1>1. dc.devices \in Nat /\ \A k \in DOMAIN dc.mig : dc.mig[k] \in Nat
  BY Assumed
<1>2. \A k \in DOMAIN dc.mig : dc.mig[k] * dc.devices \in Nat
  <2> HIDE DEF dc
  <2>1. \A x, y \in Nat : x * y \in Nat
    OBVIOUS
  <2> QED  BY <1>1, <2>1
<1>3. Supply(c, i) = [k \in Kinds |-> IF k \in DOMAIN dc.mig THEN dc.mig[k] * dc.devices ELSE 0]
  BY DEF Supply, Overwrite, Nothing
<1> HIDE DEF dc
<1> QED  BY <1>2, <1>3

\* One device config: it answers with the largest kind of which there is one more.
LEMMA AnswerIsLargest ==
  ASSUME NEW res \in [Kinds -> Nat], NEW used \in [Labelled -> Nat],
         NEW o \in Remains(res, used)
  PROVE  o.max = Max({0} \cup {k \in Kinds : Fits(res, [used EXCEPT ![k] = @ + 1])})
<1> DEFINE More == {k \in Kinds : Fits(res, [used EXCEPT ![k] = @ + 1])}
<1>1. Kinds \subseteq Labelled /\ 0 \in Labelled /\ 0 \notin Kinds
  BY Assumed DEF Labelled
<1>2. ASSUME NEW k \in Kinds
      PROVE  Fits(res, [used EXCEPT ![k] = @ + 1]) <=> (Fits(res, used) /\ res[k] - used[k] > 0)
  <2>0. \A j \in Labelled : [used EXCEPT ![k] = @ + 1][j] = IF j = k THEN used[j] + 1 ELSE used[j]
    BY <1>1
  <2>1. \A j \in Kinds : used[j] \in Nat /\ res[j] \in Nat
    BY <1>1
  <2>2. (\A j \in Kinds : [used EXCEPT ![k] = @ + 1][j] <= res[j])
          <=> ((\A j \in Kinds : used[j] <= res[j]) /\ res[k] - used[k] > 0)
    <3>1. used[k] + 1 <= res[k] <=> (used[k] <= res[k] /\ res[k] - used[k] > 0)
      BY <2>1
    <3>2. \A j \in Kinds : j # k => [used EXCEPT ![k] = @ + 1][j] = used[j]
      BY <2>0, <1>1
    <3>3. [used EXCEPT ![k] = @ + 1][k] = used[k] + 1
      BY <2>0, <1>1
    <3> QED  BY <3>1, <3>2, <3>3
  <2>3. [used EXCEPT ![k] = @ + 1][0] = used[0]
    BY <1>1, <2>0
  <2> QED  BY <2>2, <2>3 DEF Fits, None
<1>3. CASE Fits(res, used)
  <2> DEFINE left == Deduct(res, used, Kinds)
  <2>1. o.max = Largest(left)
    BY <1>3 DEF Remains
  <2>2. \A k \in Kinds : left[k] = res[k] - used[k]
    BY DEF Deduct
  <2>3. {k \in Kinds : left[k] > 0} = More
    <3> HIDE DEF left
    <3> QED  BY <1>2, <1>3, <2>2
  <2> HIDE DEF left, More
  <2>4. Largest(left) = Max({0} \cup {k \in Kinds : left[k] > 0})
    BY DEF Largest, None
  <2>5. o.max = Max({0} \cup More)
    BY <2>1, <2>3, <2>4
  <2> QED  BY <2>5 DEF More
<1>4. CASE ~Fits(res, used)
  <2>1. o.max = 0
    BY <1>4 DEF Remains, None
  <2>2. More = {}
    BY <1>2, <1>4
  <2>3. Max({0}) = 0
    <3>1. {0} \in SUBSET (0..9) /\ {0} # {}
      OBVIOUS
    <3> QED  BY <3>1, LargestDigit
  <2> HIDE DEF More
  <2>4. o.max = Max({0} \cup More)
    BY <2>1, <2>2, <2>3
  <2> QED  BY <2>4 DEF More
<1> QED  BY <1>3, <1>4

\* A profile of at most one device config shows the largest kind of which it has one more.
LEMMA MaximumOfOne ==
  ASSUME OneConfigEach, NEW c \in DOMAIN MigConfigs, NEW used \in [Labelled -> Nat],
         NEW m \in ProfileMaxima(c, used)
  PROVE  m = Max({0} \cup OneMore(c, used))
<1> DEFINE n == Len(MigConfigs[c])
           g == CHOOSE f : Iterates(c, used, f, n)
<1>1. n \in Nat /\ n <= 1 /\ DOMAIN MigConfigs[c] = 1..n
  BY Assumed DEF OneConfigEach
<1>2. Iterates(c, used, g, n)
  BY <1>1, IterationExists
<1>3. ProfileMaxima(c, used) = {s.max : s \in g[n]}
  BY MaximaUnfold
<1> HIDE DEF n, g
<1>4. \A i \in 0..n : g[i] = Onward(c, used, i, g[i - 1])
  BY <1>2 DEF Iterates
<1>5. g[0] = {[max |-> 0, res |-> Nothing]}
  <2>1. g[0] = Onward(c, used, 0, g[0 - 1])
    BY <1>1, <1>4
  <2> QED  BY <2>1 DEF Onward
<1>6. CASE n = 0
  <2>1. m = 0
    BY <1>3, <1>5, <1>6
  <2>2. OneMore(c, used) = {}
    BY <1>1, <1>6 DEF OneMore
  <2>3. {0} \in SUBSET (0..9) /\ {0} # {}
    OBVIOUS
  <2>4. Max({0}) = 0
    BY <2>3, LargestDigit
  <2>5. {0} \cup OneMore(c, used) = {0}
    BY <2>2
  <2> QED  BY <2>1, <2>4, <2>5
<1>7. CASE n = 1
  <2> DEFINE From(t) == {[max |-> Max({t.max, o.max}), res |-> o.res] :
                            o \in Remains(Overwrite(t.res, MigConfigs[c][1]), used)}
             first == [max |-> 0, res |-> Nothing]
  <2>1. g[1] = Onward(c, used, 1, g[0])
    <3>1. 1 \in 0..n /\ 1 - 1 = 0
      BY <1>7
    <3> QED  BY <1>4, <3>1
  <2>2. Onward(c, used, 1, g[0]) = UNION {From(t) : t \in g[0]}
    <3>1. \A i : i # 0 => Onward(c, used, i, g[0]) =
            UNION {{[max |-> Max({s.max, o.max}), res |-> o.res] :
                      o \in Remains(Overwrite(s.res, MigConfigs[c][i]), used)} : s \in g[0]}
      BY Zenon DEF Onward
    <3>2. 1 # 0
      OBVIOUS
    <3> QED  BY <3>1, <3>2, Zenon
  <2>3. PICK s \in From(first) : m = s.max
    <3> HIDE DEF From, first
    <3>0. g[0] = {first}
      BY <1>5 DEF first
    <3>1. g[1] = From(first)
      BY <3>0, <2>1, <2>2
    <3> QED  BY <1>3, <1>7, <3>1
  <2>4. PICK o \in Remains(Supply(c, 1), used) : s = [max |-> Max({0, o.max}), res |-> o.res]
    BY <2>3 DEF Supply
  <2>5. 1 \in DOMAIN MigConfigs[c] /\ \A i \in DOMAIN MigConfigs[c] : i = 1
    BY <1>1, <1>7
  <2>6. Supply(c, 1) \in [Kinds -> Nat]
    BY <2>5, SupplyTyped
  <2>7. OneMore(c, used) = {k \in Kinds : Fits(Supply(c, 1), [used EXCEPT ![k] = @ + 1])}
    BY <2>5 DEF OneMore
  <2>8. o.max = Max({0} \cup OneMore(c, used))
    BY <2>6, <2>7, AnswerIsLargest
  <2>9. o.max \in 0..9
    BY LabelsAreDigits, AnswerIsLabel
  <2>10. Max({0, o.max}) = o.max
    <3>1. {0, o.max} \in SUBSET (0..9) /\ {0, o.max} # {}
      BY <2>9
    <3>2. Max({0, o.max}) \in {0, o.max} /\ Max({0, o.max}) >= o.max
      BY <3>1, LargestDigit
    <3> QED  BY <2>9, <3>2
  <2> QED  BY <2>3, <2>4, <2>8, <2>10
<1> QED  BY <1>1, <1>6, <1>7

\* The type of what is in use.
LEMMA UsedTyped ==
  ASSUME TypeOK
  PROVE  Used \in [Labelled -> 0..Cardinality(Pods \X GPUs)] /\ Used \in [Labelled -> Nat]
<1>1. Used \in [Labelled -> 0..Cardinality(Pods \X GPUs)]
  BY CountBounded DEF Used
<1>2. Cardinality(Pods \X GPUs) \in Nat
  BY Assumed, FS_Product, FS_CardinalityType
<1>3. 0..Cardinality(Pods \X GPUs) \subseteq Nat
  BY <1>2
<1> QED  BY <1>1, <1>3

\* An update that heard of every device leaves the label that is right.
LEMMA UpdateIsRight ==
  ASSUME OneConfigEach, TypeOK, NEW m \in MaxMig[Used]
  PROVE  m = LargestLeft
<1> DEFINE maxima == [c \in DOMAIN MigConfigs |-> ProfileMaxima(c, Used)]
           T == {0} \cup UNION {OneMore(c, Used) : c \in DOMAIN MigConfigs}
<1>1. MaxMig[Used] = {l \in UNION Range(maxima) : \A c \in DOMAIN MigConfigs : \E n \in maxima[c] : n <= l}
  <2>1. Used \in [Kinds \cup {None} -> 0..Cardinality(Pods \X GPUs)]
    BY UsedTyped DEF Labelled, None
  <2> QED  BY <2>1 DEF MaxMig
<1>2. m \in UNION Range(maxima) /\ \A c \in DOMAIN MigConfigs : \E n \in maxima[c] : n <= m
  <2> HIDE DEF maxima
  <2> QED  BY <1>1
<1>3. ASSUME NEW c \in DOMAIN MigConfigs, NEW n \in maxima[c]
      PROVE  n \in {0} \cup OneMore(c, Used) /\ \A k \in {0} \cup OneMore(c, Used) : n >= k
  <2>1. n = Max({0} \cup OneMore(c, Used))
    BY <1>3, UsedTyped, MaximumOfOne
  <2>2. {0} \cup OneMore(c, Used) \in SUBSET (0..9)
    BY LabelsAreDigits DEF OneMore, Labelled
  <2>3. {0} \cup OneMore(c, Used) # {}
    OBVIOUS
  <2> QED  BY <2>1, <2>2, <2>3, LargestDigit
<1>4. T \in SUBSET (0..9) /\ T # {}
  BY LabelsAreDigits DEF OneMore, Labelled
<1>5. m \in T
  <2>1. PICK c \in DOMAIN MigConfigs : m \in maxima[c]
    BY <1>2 DEF Range
  <2> HIDE DEF maxima
  <2> QED  BY <1>3, <2>1
<1>6. \A k \in T : m >= k
  <2> SUFFICES ASSUME NEW k \in T PROVE m >= k
    OBVIOUS
  <2>1. m \in 0..9 /\ k \in 0..9
    BY <1>4, <1>5
  <2>2. CASE k = 0
    BY <2>1, <2>2
  <2>3. CASE k # 0
    <3>1. PICK c \in DOMAIN MigConfigs : k \in OneMore(c, Used)
      BY <2>3
    <3>2. PICK n \in maxima[c] : n <= m
      BY <1>2, <3>1
    <3> HIDE DEF maxima
    <3>3. n >= k /\ n \in {0} \cup OneMore(c, Used)
      BY <1>3, <3>1
    <3>4. n \in 0..9
      BY <1>4, <3>3
    <3> QED  BY <2>1, <3>2, <3>3, <3>4
  <2> QED  BY <2>2, <2>3
<1>7. LargestLeft = Max(T)
  <2>1. T = {0} \cup {k \in Kinds : \E c \in DOMAIN MigConfigs : \E i \in DOMAIN MigConfigs[c] :
               Fits(Supply(c, i), [Used EXCEPT ![k] = @ + 1])}
    BY DEF OneMore
  <2> HIDE DEF T
  <2> QED  BY <2>1, Zenon DEF LargestLeft, None, Supply
<1> HIDE DEF T
<1>8. Max(T) \in T /\ \A y \in T : Max(T) >= y
  BY <1>4, LargestDigit
<1>9. \A x, y \in 0..9 : x >= y /\ y >= x => x = y
  OBVIOUS
<1> QED  BY <1>4, <1>5, <1>6, <1>7, <1>8, <1>9
\* What is in use, and so the label that is right, changes with the kubelet's devices only.
LEMMA SameDevices ==
  ASSUME Given' = Given
  PROVE  LargestLeft' = LargestLeft
<1>1. Used' = Used
  BY DEF Used, Count
<1> QED  BY <1>1 DEF LargestLeft, Fits, Overwrite, Nothing

\* Devices that come or go without an event to come are missed; the others have news.
LEMMA PodsBehind ==
  ASSUME IInv, Noticed, BehindHasNews, NEW p \in Pods,
         \/ Bind(p) \/ KubeletSees(p) \/ Allocate(p) \/ Finish(p)
         \/ Release(p) \/ PodGone(p) \/ WriteStatus(p)
  PROVE  BehindHasNews'
<1>0. TypeOK /\ HoldsSound
  BY DEF IInv
<1> SUFFICES ASSUME ~missed', worker'.at = "idle", maxLabel' # LargestLeft'
             PROVE  \E q \in Pods : api'[q] = "deleting" \/ News(q)'
  BY DEF BehindHasNews
<1>1. worker' = worker /\ maxLabel' = maxLabel /\ worker.at = "idle"
  BY DEF Bind, KubeletSees, Allocate, Finish, Release, PodGone, WriteStatus,
         ReporterUnchanged, cluster
<1>2. /\ \A q \in Pods : News(q) => News(q)'
      /\ \A q \in Pods : api[q] = "deleting" => api'[q] = "deleting" \/ News(q)'
  BY PodsNoticed
<1>3. ASSUME Given' = Given, missed' = missed
      PROVE  \E q \in Pods : api'[q] = "deleting" \/ News(q)'
  <2>1. LargestLeft' = LargestLeft
    BY <1>3, SameDevices
  <2>2. PICK q \in Pods : api[q] = "deleting" \/ News(q)
    BY <1>1, <1>3, <2>1 DEF BehindHasNews
  <2> QED  BY <1>2, <2>2
<1>4. CASE Bind(p) \/ Finish(p) \/ PodGone(p) \/ WriteStatus(p)
  <2>1. holds' = holds /\ missed' = missed
    BY <1>4 DEF Bind, Finish, PodGone, WriteStatus, cluster
  <2>2. Given' = Given
    BY <2>1 DEF Given
  <2> QED  BY <1>3, <2>1, <2>2
<1>5. CASE KubeletSees(p)
  <2>1. holds[p] = NotListed /\ holds' = [holds EXCEPT ![p] = {}] /\ missed' = missed
    BY <1>5 DEF KubeletSees
  <2>2. \A q \in Pods : holds'[q] = IF q = p THEN {} ELSE holds[q]
    BY <1>0, <2>1, Typed
  <2>3. ASSUME NEW d PROVE d \in Given' <=> d \in Given
    <3>1. d \in Given <=> \E q \in Pods : holds[q] # NotListed /\ d \in {q} \X holds[q]
      BY DEF Given
    <3>2. d \in Given' <=> \E q \in Pods : holds'[q] # NotListed /\ d \in {q} \X holds'[q]
      BY DEF Given
    <3>3. d \notin {p} \X {}
      OBVIOUS
    <3> QED  BY <2>1, <2>2, <3>1, <3>2, <3>3
  <2>4. Given' = Given
    BY <2>3
  <2> QED  BY <1>3, <2>1, <2>4
<1>6. CASE Allocate(p)
  <2>1. api[p] = "bound" /\ holds[p] = {} /\ label[p] # {} /\ p \notin gaveUp
    BY <1>6 DEF Allocate
  <2>2. label[p] = NoLabel
    BY Assumed, <1>0, <2>1, Typed DEF HoldsSound, Settled
  <2>3. News(p)
    BY <1>1, <2>1, <2>2 DEF Noticed
  <2> QED  BY <1>2, <2>3
<1>7. CASE Release(p)
  <2>1. api'[p] = "deleting"
    BY <1>7 DEF Release
  <2> QED  BY <2>1
<1> QED  BY <1>4, <1>5, <1>6, <1>7

\* An update of the node that hears of every device leaves it right; the others say so.
LEMMA UpdateBehind ==
  ASSUME OneConfigEach, IInv, UpdateNode
  PROVE  BehindHasNews'
<1> SUFFICES ASSUME ~missed' PROVE maxLabel' = LargestLeft'
  BY DEF BehindHasNews
<1>1. TypeOK /\ holds' = holds /\ Given' = Given
  BY DEF IInv, UpdateNode, Given
<1>2. maxLabel' \in MaxMig[Used]
  BY DEF UpdateNode
<1> QED  BY <1>1, <1>2, SameDevices, UpdateIsRight

\* The other steps of the loop come to rest where they were, with the news there was.
LEMMA LoopBehind ==
  ASSUME OneConfigEach, IInv, Noticed, BehindHasNews,
         \/ \E p \in Pods : Sync(p) \/ Start(p)
         \/ StartOther \/ Reconcile \/ Restart
  PROVE  BehindHasNews'
<1>1. CASE UpdateNode
  BY <1>1, UpdateBehind
<1>2. CASE ~UpdateNode
  <2> SUFFICES ASSUME ~missed', worker'.at = "idle", maxLabel' # LargestLeft'
               PROVE  \E q \in Pods : api'[q] = "deleting" \/ News(q)'
    BY DEF BehindHasNews
  <2>1. worker' = worker /\ \A q \in Pods : News(q) => News(q)'
    BY <1>2, LoopNoticed
  <2>2. api' = api /\ holds' = holds /\ (maxLabel' = maxLabel /\ missed' = missed)
    BY <1>2 DEF Sync, Start, StartOther, Reconcile, Devices, DevicesFail, LabelPod,
                LabelRefused, Restart, cluster
  <2>3. Given' = Given
    BY <2>2 DEF Given
  <2>4. LargestLeft' = LargestLeft
    BY <2>3, SameDevices
  <2>5. PICK q \in Pods : api[q] = "deleting" \/ News(q)
    BY <2>1, <2>2, <2>4 DEF BehindHasNews
  <2> QED  BY <2>1, <2>2, <2>5
<1> QED  BY <1>1, <1>2

\* At rest the label of the node is the largest slice left (updateNodeMaxMigLabel), if no
\* profile of the file has more than one device config, which the deployed one has not.
THEOREM NodeLabelCurrent == ASSUME OneConfigEach PROVE Spec => []MaxLabelCurrent
<1>1. Init => BehindHasNews
  BY DEF Init, BehindHasNews, Idle
<1>2. IInv /\ Noticed /\ BehindHasNews /\ [Next]_vars => BehindHasNews'
  <2> SUFFICES ASSUME IInv, Noticed, BehindHasNews, [Next]_vars PROVE BehindHasNews'
    OBVIOUS
  <2>1. CASE UNCHANGED vars
    <3>1. /\ UNCHANGED <<api, missed, worker, maxLabel, queue, fresh, cached>> /\ Given' = Given
      BY <2>1 DEF vars, cluster, Given
    <3>2. LargestLeft' = LargestLeft
      BY <3>1, SameDevices
    <3> QED  BY <3>1, <3>2 DEF BehindHasNews, News, Passes, Seen
  <2> QED  BY <2>1, PodsBehind, LoopBehind DEF Next
<1>3. IInv /\ Noticed /\ BehindHasNews => MaxLabelCurrent
  BY DEF BehindHasNews, MaxLabelCurrent, AtRest, News
<1> QED  BY <1>1, <1>2, <1>3, Invariance, BoundPodsAreNoticed, PTL DEF Spec
=============================================================================
