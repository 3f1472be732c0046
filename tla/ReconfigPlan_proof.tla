------------------------- MODULE ReconfigPlan_proof -------------------------
(***************************************************************************)
(* Proofs about ReconfigPlan: for every file whose profiles leave no named *)
(* GPU empty and whose layouts are not contained in one another, and for   *)
(* any pods and GPUs, a reconfiguration never takes a slice from under a   *)
(* running pod; and for every file that names a GPU once in a profile, it  *)
(* makes room for those it stops, and stops nobody in vain.                *)
(***************************************************************************)
EXTENDS ReconfigPlan, FiniteSetTheorems, TLAPS

\* A function on an initial segment of the naturals is a sequence.
LEMMA FunctionIsSeq ==
    ASSUME NEW S, NEW n \in Nat, NEW f \in [1..n -> S]
    PROVE  f \in Seq(S)
  OBVIOUS

\* The number of slices a configuration gives a GPU is a natural number.
LEMMA SlicesOfType ==
    ASSUME NEW c \in ConfigNames, NEW d, NEW s \in Slices
    PROVE  SlicesOf(c, d, s) \in Nat
  BY FileAssumption DEF SlicesOf, getConfig, CountsAreNatural

\* The slices pods hold form a finite set, and fewer pods hold fewer slices.
LEMMA HeldFinite ==
    ASSUME NEW pods \in SUBSET Pods, NEW ids, NEW d, NEW s
    PROVE  IsFiniteSet(Held(pods, ids, d, s)) /\ Cardinality(Held(pods, ids, d, s)) \in Nat
<1>1. IsFiniteSet(1..MaxQuantity)
  BY PodsAssumption, FS_Interval
<1>2. IsFiniteSet(Pods \X (1..MaxQuantity))
  BY <1>1, PodsAssumption, FS_Product
<1>3. Held(pods, ids, d, s) \subseteq Pods \X (1..MaxQuantity)
  BY DEF Held
<1>. QED  BY <1>2, <1>3, FS_Subset, FS_CardinalityType

LEMMA HeldShrinks ==
    ASSUME NEW pods \in SUBSET Pods, NEW ids, NEW pods2, NEW ids2, NEW d, NEW s,
           Held(pods2, ids2, d, s) \subseteq Held(pods, ids, d, s)
    PROVE  Cardinality(Held(pods2, ids2, d, s)) <= Cardinality(Held(pods, ids, d, s))
  BY HeldFinite, FS_Subset

-----------------------------------------------------------------------------
\* The exactness of getReconfigGPU: of the GPUs the new profile names, those it
\* leaves out keep the very same slices.
LEMMA ReconfigExact ==
    ASSUME NEW old \in ConfigNames, NEW new \in Profiles,
           NEW d \in DOMAIN getConfig(new), d \notin getReconfigGPU(old, new),
           NEW s \in Slices
    PROVE  d \in DOMAIN getConfig(old) /\ SlicesOf(new, d, s) = SlicesOf(old, d, s)
<1>1. \A k \in DOMAIN getConfig(new)[d] : getConfig(new)[d][k] = SlicesOf(old, d, k)
  BY DEF getReconfigGPU
<1>2. PICK k \in DOMAIN getConfig(new)[d] : getConfig(new)[d][k] # 0
  BY FileAssumption DEF NoEmptyLayout
<1>3. d \in DOMAIN getConfig(old)
  BY <1>1, <1>2 DEF SlicesOf
<1>. QED  BY <1>1, <1>3, FileAssumption DEF NoLayoutContained

\* A configuration chosen for a target is one of the profiles.
LEMMA ChosenIsProfile ==
    ASSUME TypeOK, NEW target \in Pods,
           NEW c \in getBestConfig(Request(target), podLocation, config)
    PROVE  c \in Profiles
<1> USE PodsAssumption
<1>1. c \in ConfigNames /\ \A s \in DOMAIN Request(target) : Capacities[c][s] >= Request(target)[s]
  BY DEF getBestConfig, getBestConfigFilter
<1>2. Kind[target] \in DOMAIN Request(target) /\ Kind[target] \in Slices
  BY DEF Request
<1>3. IsFiniteSet(Wanted(Running, Kind[target]))
  <2>1. IsFiniteSet(1..MaxQuantity)
    BY FS_Interval
  <2>2. IsFiniteSet(Pods \X (1..MaxQuantity))
    BY <2>1, FS_Product
  <2>3. Wanted(Running, Kind[target]) \subseteq Pods \X (1..MaxQuantity)
    BY DEF Wanted, Running
  <2>. QED  BY <2>2, <2>3, FS_Subset
<1>4. Request(target)[Kind[target]] > 0 /\ Request(target)[Kind[target]] \in Nat
  <2>1. Cardinality(Wanted(Running, Kind[target])) \in Nat
    BY <1>3, FS_CardinalityType
  <2>. QED  BY <2>1, <1>2 DEF Request
<1>5. Capacities[c][Kind[target]] >= Request(target)[Kind[target]]
  BY <1>1, <1>2
<1>6. Capacities[c][Kind[target]] > 0
  <2>1. Capacities[c][Kind[target]] \in Nat
    BY <1>1, <1>2, FileAssumption DEF CountsAreNatural
  <2>. QED  BY <1>4, <1>5, <2>1
<1>. QED  BY <1>1, <1>2, <1>6 DEF Profiles

-----------------------------------------------------------------------------

\* Every step keeps every variable within its type.
LEMMA TypeStep ==
    ASSUME TypeOK, [Next]_vars
    PROVE  TypeOK'
<1> USE PodsAssumption DEF TypeOK
<1>1. ASSUME NEW p \in Pods, Run(p) PROVE TypeOK'
  <2>1. PICK ids \in [1..Quantity[p] -> GPUs] : gpuIDs' = [gpuIDs EXCEPT ![p] = ids]
    BY <1>1 DEF Run
  <2>2. ids \in Seq(GPUs)
    <3>1. Quantity[p] \in Nat
      OBVIOUS
    <3>. HIDE PodsAssumption DEF TypeOK
    <3>. QED  BY <3>1, <2>1, FunctionIsSeq
  <2>3. gpuIDs' \in [Pods -> Seq(GPUs)]
    BY <2>1, <2>2
  <2>. QED  BY <1>1, <2>1, <2>3 DEF Run
<1>2. <<>> \in Seq(GPUs) /\ DOMAIN <<>> = {}
  OBVIOUS
<1>3. ASSUME NEW p \in Pods, Finish(p) PROVE TypeOK'
  BY <1>3 DEF Finish
<1>4. ASSUME NEW p \in Pods, Collect(p) PROVE TypeOK'
  <2>1. gpuIDs' \in [Pods -> Seq(GPUs)]
    BY <1>2, <1>4 DEF Collect
  <2>. QED  BY <1>2, <1>4, <2>1 DEF Collect
<1>5. ASSUME NEW p \in Pods, Reconcile(p) PROVE TypeOK'
  <2>1. PICK c \in getBestConfig(Request(p), podLocation, config) :
           /\ stopped' = StopPods(c) \cap Running
           /\ stage' = [q \in Pods |-> IF q \notin StopPods(c) THEN stage[q]
                                      ELSE IF q \in Running THEN "pending" ELSE "gone"]
           /\ gpuIDs' = [q \in Pods |-> IF q \in StopPods(c) THEN <<>> ELSE gpuIDs[q]]
           /\ config' = c
           /\ layout' = Apply(c)
    BY <1>5 DEF Reconcile
  <2>2. c \in ConfigNames
    BY DEF getBestConfig, getBestConfigFilter
  <2>3. layout' \in [GPUs -> [Slices -> Nat]]
    BY <2>1, <2>2, SlicesOfType DEF Apply
  <2>4. gpuIDs' \in [Pods -> Seq(GPUs)]
    BY <1>2, <2>1
  <2>5. stage' \in [Pods -> {"pending", "running", "finished", "gone"}]
    BY <2>1
  <2>6. ASSUME NEW q \in Pods
        PROVE  DOMAIN gpuIDs'[q] = IF stage'[q] \in {"running", "finished"} THEN 1..Quantity[q] ELSE {}
    BY <1>2, <2>1
  <2>. QED  BY <2>1, <2>2, <2>3, <2>4, <2>5, <2>6 DEF Running
<1>6. CASE UNCHANGED vars
  BY <1>6 DEF vars
<1>. QED  BY <1>1, <1>3, <1>4, <1>5, <1>6 DEF Next

\* Every step keeps the label true of the GPUs its configuration names.
LEMMA LabelStep ==
    ASSUME TypeOK, LabelTruthful, [Next]_vars
    PROVE  LabelTruthful'
<1>1. CASE UNCHANGED <<config, layout>>
  BY <1>1 DEF LabelTruthful
<1>2. ASSUME NEW p \in Pods, Reconcile(p) PROVE LabelTruthful'
  <2>1. PICK c \in getBestConfig(Request(p), podLocation, config) :
           config' = c /\ layout' = Apply(c)
    BY <1>2 DEF Reconcile
  <2>2. DOMAIN getConfig(c) \subseteq GPUs
    BY DEF getConfig, Layouts
  <2>. QED  BY <2>1, <2>2 DEF LabelTruthful, Apply
<1>. QED  BY <1>1, <1>2 DEF Next, Run, Finish, Collect, vars

\* Every step keeps running pods on slices that exist.
LEMMA SlicesStep ==
    ASSUME TypeOK, SlicesExist, LabelTruthful, [Next]_vars
    PROVE  SlicesExist'
<1> USE PodsAssumption
<1>. SUFFICES ASSUME NEW d \in GPUs, NEW s \in Slices
              PROVE  Cardinality(Held(Running', gpuIDs', d, s)) <= layout'[d][s]
  BY DEF SlicesExist
<1>0. Cardinality(Held(Running, gpuIDs, d, s)) <= layout[d][s]
  BY DEF SlicesExist
<1>. Running \in SUBSET Pods /\ Running' \in SUBSET Pods
  BY DEF Running
<1>. layout[d][s] \in Nat
  BY DEF TypeOK
\* A step that adds no holder of slice s on d, and leaves the layout, is safe.
<1>1. ASSUME Held(Running', gpuIDs', d, s) \subseteq Held(Running, gpuIDs, d, s),
             layout'[d][s] = layout[d][s]
      PROVE  Cardinality(Held(Running', gpuIDs', d, s)) <= layout'[d][s]
  BY <1>0, <1>1, HeldShrinks, HeldFinite
<1>2. ASSUME NEW p \in Pods, Run(p)
      PROVE  Cardinality(Held(Running', gpuIDs', d, s)) <= layout'[d][s]
  <2>1. CASE Kind[p] = s
    BY <1>2, <2>1 DEF Run
  <2>2. CASE Kind[p] # s
    <3>1. PICK ids \in [1..Quantity[p] -> GPUs] : gpuIDs' = [gpuIDs EXCEPT ![p] = ids]
      BY <1>2 DEF Run
    <3>2. Held(Running', gpuIDs', d, s) \subseteq Held(Running, gpuIDs, d, s)
      BY <1>2, <2>2, <3>1 DEF Run, Held, Running, TypeOK
    <3>. QED  BY <1>1, <1>2, <3>2 DEF Run
  <2>. QED  BY <2>1, <2>2
<1>3. ASSUME NEW p \in Pods, Finish(p) \/ Collect(p)
      PROVE  Cardinality(Held(Running', gpuIDs', d, s)) <= layout'[d][s]
  <2>1. Running' \subseteq Running /\ \A q \in Running' : gpuIDs'[q] = gpuIDs[q]
    BY <1>3 DEF Finish, Collect, Running, TypeOK
  <2>2. Held(Running', gpuIDs', d, s) \subseteq Held(Running, gpuIDs, d, s)
    BY <2>1 DEF Held
  <2>. QED  BY <1>1, <1>3, <2>2 DEF Finish, Collect
<1>4. ASSUME NEW p \in Pods, Reconcile(p)
      PROVE  Cardinality(Held(Running', gpuIDs', d, s)) <= layout'[d][s]
  <2>1. PICK c \in getBestConfig(Request(p), podLocation, config) :
           /\ stage' = [q \in Pods |-> IF q \notin StopPods(c) THEN stage[q]
                                      ELSE IF q \in Running THEN "pending" ELSE "gone"]
           /\ gpuIDs' = [q \in Pods |-> IF q \in StopPods(c) THEN <<>> ELSE gpuIDs[q]]
           /\ config' = c
           /\ layout' = Apply(c)
    BY <1>4 DEF Reconcile
  <2>2. c \in Profiles /\ c \in ConfigNames /\ config \in ConfigNames
    BY ChosenIsProfile DEF Profiles, TypeOK
  <2>3. /\ Running' \subseteq Running
        /\ \A q \in Running' : q \notin StopPods(c) /\ gpuIDs'[q] = gpuIDs[q]
    BY <2>1 DEF Running, TypeOK
  <2>4. Held(Running', gpuIDs', d, s) \subseteq Held(Running, gpuIDs, d, s)
    BY <2>3 DEF Held
  <2>5. CASE d \notin DOMAIN getConfig(c)
    <3>1. layout'[d] = layout[d]
      BY <2>1, <2>5 DEF Apply
    <3>. QED  BY <1>1, <2>4, <3>1
  <2>6. CASE d \in DOMAIN getConfig(c) /\ d \notin getReconfigGPU(config, c)
    <3>1. d \in DOMAIN getConfig(config) /\ SlicesOf(c, d, s) = SlicesOf(config, d, s)
      BY <2>2, <2>6, ReconfigExact
    <3>2. layout'[d][s] = layout[d][s]
      BY <2>1, <2>6, <3>1 DEF Apply, LabelTruthful
    <3>. QED  BY <1>1, <2>4, <3>2
  <2>7. CASE d \in DOMAIN getConfig(c) /\ d \in getReconfigGPU(config, c)
    <3>1. Held(Running', gpuIDs', d, s) = {}
      BY <2>3, <2>7 DEF Held, StopPods, Running
    <3>2. layout'[d][s] \in Nat
      BY <2>1, <2>2, <2>7, SlicesOfType DEF Apply
    <3>. QED  BY <3>1, <3>2, FS_EmptySet
  <2>. QED  BY <2>5, <2>6, <2>7
<1>5. CASE UNCHANGED vars
  BY <1>0, <1>5 DEF vars, Held, Running
<1>. QED  BY <1>2, <1>3, <1>4, <1>5 DEF Next

-----------------------------------------------------------------------------

\* The inductive invariant holds in the initial states.
LEMMA InitIInv == Init => IInv
<1> SUFFICES ASSUME Init PROVE IInv
  OBVIOUS
<1> USE PodsAssumption, FileAssumption
<1>1. TypeOK
  <2>1. config \in ConfigNames
    BY DEF Init
  <2>2. layout \in [GPUs -> [Slices -> Nat]]
    BY <2>1, SlicesOfType DEF Init
  <2>3. <<>> \in Seq(GPUs) /\ DOMAIN <<>> = {}
    OBVIOUS
  <2>4. gpuIDs \in [Pods -> Seq(GPUs)]
    BY <2>3 DEF Init
  <2>. QED  BY <2>1, <2>2, <2>3, <2>4 DEF Init, TypeOK
<1>2. SlicesExist
  <2>. SUFFICES ASSUME NEW d \in GPUs, NEW s \in Slices
                PROVE  Cardinality(Held(Running, gpuIDs, d, s)) <= layout[d][s]
    BY DEF SlicesExist
  <2>1. Held(Running, gpuIDs, d, s) = {}
    BY DEF Init, Running, Held
  <2>2. layout[d][s] \in Nat
    BY <1>1 DEF TypeOK
  <2>. QED  BY <2>1, <2>2, FS_EmptySet
<1>3. LabelTruthful
  <2>1. DOMAIN getConfig(config) \subseteq GPUs
    BY DEF getConfig, Layouts
  <2>. QED  BY <2>1 DEF Init, LabelTruthful
<1>. QED  BY <1>1, <1>2, <1>3 DEF IInv

\* The inductive invariant holds in every reachable state.
THEOREM Invariance == Spec => []IInv
<1>1. IInv /\ [Next]_vars => IInv'
  BY TypeStep, LabelStep, SlicesStep DEF IInv
<1>. QED  BY InitIInv, <1>1, PTL DEF Spec

\* Every variable keeps its type; a pod carries GPU ids exactly while it runs
\* or its object outlives it.
THEOREM TypeCorrect == Spec => []TypeOK
<1>1. IInv => TypeOK
  BY DEF IInv
<1>. QED  BY <1>1, Invariance, PTL

\* No reconfiguration takes a slice from under a running pod.
THEOREM RunningPodsKeepTheirSlices == Spec => []SlicesExist
<1>1. IInv => SlicesExist
  BY DEF IInv
<1>. QED  BY <1>1, Invariance, PTL

-----------------------------------------------------------------------------
(* The action properties *)

\* Counting.
LEMMA IntervalSize ==
    ASSUME NEW n \in Nat
    PROVE  IsFiniteSet(1..n) /\ Cardinality(1..n) = n
<1>1. IsFiniteSet(1..n) /\ Cardinality(1..n) = IF 1 > n THEN 0 ELSE n - 1 + 1
  BY FS_Interval
<1>. QED  BY <1>1

LEMMA DisjointUnion ==
    ASSUME NEW A, NEW B, IsFiniteSet(A), IsFiniteSet(B), A \cap B = {}
    PROVE  Cardinality(A \cup B) = Cardinality(A) + Cardinality(B)
<1>1. Cardinality(A \cup B) = Cardinality(A) + Cardinality(B) - Cardinality(A \cap B)
  BY FS_Union
<1>2. Cardinality(A \cap B) = 0 /\ Cardinality(A) \in Nat /\ Cardinality(B) \in Nat
  BY FS_EmptySet, FS_CardinalityType
<1>. QED  BY <1>1, <1>2

LEMMA RowSize ==
    ASSUME NEW p, NEW n \in Nat
    PROVE  Cardinality({p} \X (1..n)) = n
<1>1. IsFiniteSet({p}) /\ Cardinality({p}) = 1
  BY FS_Singleton
<1>2. Cardinality({p} \X (1..n)) = Cardinality({p}) * Cardinality(1..n)
  BY <1>1, IntervalSize, FS_Product
<1>. QED  BY <1>1, <1>2, IntervalSize

\* What pods request is finite, and as much as Quantity says.
LEMMA WantedFinite ==
    ASSUME NEW pods \in SUBSET Pods, NEW s
    PROVE  IsFiniteSet(Wanted(pods, s)) /\ Cardinality(Wanted(pods, s)) \in Nat
<1>1. IsFiniteSet(1..MaxQuantity)
  BY PodsAssumption, FS_Interval
<1>2. IsFiniteSet(Pods \X (1..MaxQuantity))
  BY <1>1, PodsAssumption, FS_Product
<1>3. Wanted(pods, s) \subseteq Pods \X (1..MaxQuantity)
  BY DEF Wanted
<1>. QED  BY <1>2, <1>3, FS_Subset, FS_CardinalityType

LEMMA WantedByOne ==
    ASSUME NEW p \in Pods, NEW s
    PROVE  Cardinality(Wanted({p}, s)) = IF Kind[p] = s THEN Quantity[p] ELSE 0
<1>1. CASE Kind[p] = s
  <2>1. Quantity[p] \in Nat /\ Quantity[p] >= 1 /\ Quantity[p] <= MaxQuantity /\ MaxQuantity \in Nat
    BY PodsAssumption
  <2>2. Wanted({p}, s) = {p} \X (1..Quantity[p])
    BY <1>1, <2>1 DEF Wanted
  <2>. QED  BY <1>1, <2>1, <2>2, RowSize
<1>2. CASE Kind[p] # s
  <2>1. Wanted({p}, s) = {}
    BY <1>2 DEF Wanted
  <2>. QED  BY <1>2, <2>1, FS_EmptySet
<1>. QED  BY <1>1, <1>2

\* The request of a target is what it and the running pods want together.
LEMMA RequestIsWanted ==
    ASSUME NEW target \in Pods, target \notin Running, NEW s \in Slices
    PROVE  /\ s \in DOMAIN Request(target) =>
                Request(target)[s] = Cardinality(Wanted(Running \cup {target}, s))
           /\ s \notin DOMAIN Request(target) => Wanted(Running \cup {target}, s) = {}
<1>. Running \in SUBSET Pods /\ {target} \in SUBSET Pods
  BY DEF Running
<1>1. IsFiniteSet(Wanted(Running, s)) /\ IsFiniteSet(Wanted({target}, s))
  BY WantedFinite
<1>2. /\ Wanted(Running \cup {target}, s) = Wanted(Running, s) \cup Wanted({target}, s)
      /\ Wanted(Running, s) \cap Wanted({target}, s) = {}
  BY DEF Wanted
<1>3. Cardinality(Wanted(Running \cup {target}, s)) = Cardinality(Wanted(Running, s)) + Cardinality(Wanted({target}, s))
  BY <1>1, <1>2, DisjointUnion
<1>4. s \in DOMAIN Request(target) =>
         Request(target)[s] = Cardinality(Wanted(Running, s)) + (IF Kind[target] = s THEN Quantity[target] ELSE 0)
  BY DEF Request
<1>5. s \notin DOMAIN Request(target) => \A p \in Running \cup {target} : Kind[p] # s
  BY DEF Request
<1>. QED  BY <1>3, <1>4, <1>5, WantedByOne DEF Wanted

\* Once a profile has been applied there are at least as many slices of a kind as its
\* device configs promise, one for one.
LEMMA CapacityExists ==
    ASSUME NEW c \in ConfigNames, NEW s \in Slices, layout' = Apply(c)
    PROVE  /\ IsFiniteSet(Existing(s)') /\ Cardinality(Existing(s)') \in Nat
           /\ Capacities[c][s] \in Nat /\ Capacities[c][s] <= Cardinality(Existing(s)')
<1> DEFINE mc == MigConfigs[c]
           Promised == UNION {{<<i, j, m>> : j \in DOMAIN mc[i].devices, m \in 1..Cnt(mc[i].migDevices, s)}
                              : i \in DOMAIN mc}
           f == [e \in Promised |-> <<mc[e[1]].devices[e[2]], e[3]>>]
<1>1. Capacities[c][s] = Cardinality(Promised)
  BY DEF Capacities
<1>2. IsFiniteSet(Existing(s)')
  <2>1. Existing(s)' \subseteq GPUs \X (1..MaxSlices)
    BY DEF Existing
  <2>2. IsFiniteSet(GPUs \X (1..MaxSlices))
    <3>1. IsFiniteSet(GPUs) /\ IsFiniteSet(1..MaxSlices)
      BY RoomAssumption, IntervalSize
    <3>. QED  BY <3>1, FS_Product
  <2>. QED  BY <2>1, <2>2, FS_Subset
<1>3. ASSUME NEW e \in Promised
      PROVE  \E i \in DOMAIN mc : \E j \in DOMAIN mc[i].devices : \E m \in 1..Cnt(mc[i].migDevices, s) :
                e = <<i, j, m>>
  BY <1>3
<1>4. ASSUME NEW i \in DOMAIN mc, NEW j \in DOMAIN mc[i].devices, NEW m \in 1..Cnt(mc[i].migDevices, s)
      PROVE  <<mc[i].devices[j], m>> \in Existing(s)'
  <2> DEFINE d == mc[i].devices[j]
  <2>1. d \in GPUs
    BY RoomAssumption DEF NamedOnce
  <2>2. Naming(c, d) = {i}
    BY <2>1, RoomAssumption DEF NamedOnce, Naming
  <2>3. d \in DOMAIN Layouts[c] /\ Layouts[c][d] = mc[i].migDevices
    <3>1. (CHOOSE k \in Naming(c, d) : \A l \in Naming(c, d) : l <= k) = i
      BY <2>2
    <3>. QED  BY <2>1, <2>2, <3>1 DEF Layouts
  <2>4. layout'[d][s] = Cnt(mc[i].migDevices, s)
    BY <2>1, <2>3 DEF Apply, SlicesOf, getConfig
  <2>5. Cnt(mc[i].migDevices, s) <= MaxSlices /\ Cnt(mc[i].migDevices, s) \in Nat
    BY <2>3, RoomAssumption, FileAssumption DEF CountsAreNatural
  <2>. HIDE DEF d
  <2>6. m \in 1..MaxSlices /\ m <= layout'[d][s]
    BY <2>4, <2>5, RoomAssumption
  <2>7. <<d, m>> \in Existing(s)'
    BY <2>1, <2>6 DEF Existing
  <2>. QED  BY <2>7 DEF d
<1>5. f \in Injection(Promised, Existing(s)')
  <2>1. ASSUME NEW e \in Promised PROVE f[e] \in Existing(s)'
    <3>1. PICK i \in DOMAIN mc : \E j \in DOMAIN mc[i].devices, m \in 1..Cnt(mc[i].migDevices, s) : e = <<i, j, m>>
      BY <1>3
    <3>3. PICK j \in DOMAIN mc[i].devices, m \in 1..Cnt(mc[i].migDevices, s) : e = <<i, j, m>>
      BY <3>1
    <3>2. f[e] = <<mc[i].devices[j], m>>
      BY <3>3
    <3>4. <<mc[i].devices[j], m>> \in Existing(s)'
      BY <1>4
    <3>. HIDE DEF f, Promised
    <3>. QED  BY <3>2, <3>4, Zenon
  <2>2. ASSUME NEW e1 \in Promised, NEW e2 \in Promised, f[e1] = f[e2] PROVE e1 = e2
    <3>1. PICK i \in DOMAIN mc : \E j \in DOMAIN mc[i].devices, m \in 1..Cnt(mc[i].migDevices, s) : e1 = <<i, j, m>>
      BY <1>3
    <3>2. PICK j \in DOMAIN mc[i].devices, m \in 1..Cnt(mc[i].migDevices, s) : e1 = <<i, j, m>>
      BY <3>1
    <3>5. PICK k \in DOMAIN mc : \E l \in DOMAIN mc[k].devices, n \in 1..Cnt(mc[k].migDevices, s) : e2 = <<k, l, n>>
      BY <1>3
    <3>6. PICK l \in DOMAIN mc[k].devices, n \in 1..Cnt(mc[k].migDevices, s) : e2 = <<k, l, n>>
      BY <3>5
    <3>3. mc[i].devices[j] = mc[k].devices[l] /\ m = n
      BY <2>2, <3>2, <3>6
    <3>4. i = k /\ j = l
      BY <3>3, RoomAssumption DEF NamedOnce
    <3>. QED  BY <3>2, <3>3, <3>4, <3>6
  <2>. HIDE DEF Promised
  <2>. QED  BY <2>1, <2>2 DEF Injection, IsInjective
<1>. HIDE DEF Promised, f
<1>6. Cardinality(Promised) <= Cardinality(Existing(s)') /\ IsFiniteSet(Promised)
  BY <1>2, <1>5, FS_Injection
<1>. QED  BY <1>1, <1>2, <1>6, FS_CardinalityType

\* The pods that are stopped and those that go on are the ones that were running.
LEMMA RoomStep ==
    ASSUME TypeOK, NEW target \in Pods, Reconcile(target), NEW s \in Slices
    PROVE  Cardinality(Wanted(stopped' \cup {target}, s)) + Cardinality(Wanted(Running', s))
              <= Cardinality(Existing(s)')
<1>1. PICK c \in getBestConfig(Request(target), podLocation, config) :
         /\ stopped' = StopPods(c) \cap Running
         /\ stage' = [p \in Pods |-> IF p \notin StopPods(c) THEN stage[p]
                                    ELSE IF p \in Running THEN "pending" ELSE "gone"]
         /\ layout' = Apply(c)
  BY DEF Reconcile
<1>2. c \in ConfigNames /\ \A k \in DOMAIN Request(target) : Capacities[c][k] >= Request(target)[k]
  BY DEF getBestConfig, getBestConfigFilter
<1>3. target \notin Running /\ Running \in SUBSET Pods
  BY DEF Reconcile, Running
<1>4. Running' = Running \ StopPods(c)
  BY <1>1 DEF Running
<1>5. /\ stopped' \cup {target} \in SUBSET Pods /\ Running' \in SUBSET Pods
      /\ (stopped' \cup {target}) \cap Running' = {}
      /\ (stopped' \cup {target}) \cup Running' = Running \cup {target}
  BY <1>1, <1>3, <1>4
<1>6. Cardinality(Wanted(stopped' \cup {target}, s)) + Cardinality(Wanted(Running', s))
         = Cardinality(Wanted(Running \cup {target}, s))
  <2> DEFINE A == Wanted(stopped' \cup {target}, s)
             B == Wanted(Running', s)
  <2>1. A \cap B = {} /\ A \cup B = Wanted(Running \cup {target}, s)
    BY <1>5 DEF Wanted
  <2>2. IsFiniteSet(A) /\ Cardinality(A) \in Nat /\ IsFiniteSet(B) /\ Cardinality(B) \in Nat
    BY <1>5, WantedFinite
  <2>. HIDE DEF A, B
  <2>3. Cardinality(A \cup B) = Cardinality(A) + Cardinality(B)
    BY <2>1, <2>2, DisjointUnion
  <2>. QED  BY <2>1, <2>3 DEF A, B
<1>7. /\ Cardinality(Existing(s)') \in Nat
      /\ Capacities[c][s] \in Nat /\ Capacities[c][s] <= Cardinality(Existing(s)')
  BY <1>1, <1>2, CapacityExists
<1>8. Cardinality(Wanted(Running \cup {target}, s)) <= Cardinality(Existing(s)')
  <2>1. CASE s \in DOMAIN Request(target)
    <3>1. Cardinality(Wanted(Running \cup {target}, s)) <= Capacities[c][s]
      <4>1. Running \cup {target} \in SUBSET Pods
        BY <1>3
      <4>2. Cardinality(Wanted(Running \cup {target}, s)) \in Nat
        BY <4>1, WantedFinite
      <4>. QED  BY <1>2, <1>3, <1>7, <2>1, <4>2, RequestIsWanted
    <3>. QED  BY <1>3, <1>5, <1>7, <3>1, WantedFinite
  <2>2. CASE s \notin DOMAIN Request(target)
    <3>1. Wanted(Running \cup {target}, s) = {}
      BY <1>3, <2>2, RequestIsWanted
    <3>2. Cardinality({}) = 0
      BY FS_EmptySet
    <3>. QED  BY <1>7, <3>1, <3>2
  <2>. QED  BY <2>1, <2>2
<1>. QED  BY <1>6, <1>8

\* The configuration in force reconfigures nothing, and no score is above zero.
LEMMA NoStopStep ==
    ASSUME TypeOK, NEW target \in Pods, Reconcile(target),
           config \in getBestConfigFilter(Request(target))
    PROVE  stopped' = {}
<1>1. PICK c \in getBestConfig(Request(target), podLocation, config) : stopped' = StopPods(c) \cap Running
  BY DEF Reconcile
<1> DEFINE hit(name) == {e \in podLocation : e[3] \in getReconfigGPU(config, name)}
<1>2. IsFiniteSet(hit(c)) /\ Cardinality(hit(c)) \in Nat
  <2>1. IsFiniteSet(Pods \X (1..MaxQuantity))
    <3>1. IsFiniteSet(Pods) /\ IsFiniteSet(1..MaxQuantity)
      BY PodsAssumption, IntervalSize
    <3>. QED  BY <3>1, FS_Product
  <2>2. IsFiniteSet(Pods \X (1..MaxQuantity) \X GPUs)
    <3> DEFINE g == [e \in Pods \X (1..MaxQuantity) \X GPUs |-> <<<<e[1], e[2]>>, e[3]>>]
    <3>1. IsFiniteSet((Pods \X (1..MaxQuantity)) \X GPUs)
      BY <2>1, RoomAssumption, FS_Product
    <3>2. g \in Injection(Pods \X (1..MaxQuantity) \X GPUs, (Pods \X (1..MaxQuantity)) \X GPUs)
      BY DEF Injection, IsInjective
    <3>. HIDE DEF g
    <3>. QED  BY <3>1, <3>2, FS_Injection
  <2>3. hit(c) \subseteq Pods \X (1..MaxQuantity) \X GPUs
    BY DEF podLocation
  <2>. HIDE DEF hit
  <2>. QED  BY <2>2, <2>3, FS_Subset, FS_CardinalityType
<1>3. getReconfigGPU(config, config) = {}
  BY DEF getReconfigGPU, SlicesOf, Cnt
<1>4. Cardinality(hit(config)) = 0
  BY <1>3, FS_EmptySet
<1>5. -Cardinality(hit(c)) >= -Cardinality(hit(config))
  BY DEF getBestConfig, getBestConfigScore
<1>6. hit(c) = {}
  <2>. HIDE DEF hit
  <2>1. Cardinality(hit(c)) = 0
    BY <1>2, <1>4, <1>5
  <2>. QED  BY <1>2, <2>1, FS_EmptySet
<1>7. ASSUME NEW p \in Pods, NEW i \in DOMAIN gpuIDs[p]
      PROVE  <<p, i, gpuIDs[p][i]>> \in podLocation
  <2>1. gpuIDs[p] \in Seq(GPUs) /\ DOMAIN gpuIDs[p] \subseteq 1..Quantity[p]
    BY DEF TypeOK
  <2>2. Quantity[p] \in 1..MaxQuantity /\ MaxQuantity \in Nat
    BY PodsAssumption
  <2>3. i \in 1..MaxQuantity /\ gpuIDs[p][i] \in GPUs
    BY <2>1, <2>2
  <2>. QED  BY <2>3 DEF podLocation
<1>8. StopPods(c) = {}
  <2>. SUFFICES ASSUME NEW p \in StopPods(c) PROVE FALSE
    OBVIOUS
  <2>1. PICK i \in DOMAIN gpuIDs[p] : gpuIDs[p][i] \in getReconfigGPU(config, c)
    BY DEF StopPods
  <2>2. p \in Pods
    BY DEF StopPods
  <2>3. <<p, i, gpuIDs[p][i]>> \in hit(c)
    BY <1>7, <2>1, <2>2
  <2>. QED  BY <1>6, <2>3
<1>. QED  BY <1>1, <1>8

\* After a reconfiguration for a target there is room for the target and every pod that
\* was stopped, next to those left alone (getBestConfigFilter, config_selector.go).
THEOREM ReconfigurationMakesRoom == Spec => RoomForAll
<1>1. IInv /\ [Next]_vars =>
        [\A target \in Pods : Reconcile(target) =>
           \A s \in Slices :
              Cardinality(Wanted(stopped' \cup {target}, s)) + Cardinality(Wanted(Running', s))
                  <= Cardinality(Existing(s)')]_vars
  BY RoomStep DEF IInv
<1>. QED  BY <1>1, Invariance, PTL DEF Spec, RoomForAll

\* While the configuration in force can hold all the pods, no pod is stopped
\* (getBestConfigScore, config_selector.go).
THEOREM StopsOnlyWhenNeeded == Spec => NoNeedlessStop
<1>1. IInv /\ [Next]_vars =>
        [\A target \in Pods :
           Reconcile(target) /\ config \in getBestConfigFilter(Request(target)) => stopped' = {}]_vars
  BY NoStopStep DEF IInv
<1>. QED  BY <1>1, Invariance, PTL DEF Spec, NoNeedlessStop
=============================================================================
