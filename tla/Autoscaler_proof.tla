-------------------------- MODULE Autoscaler_proof --------------------------
(***************************************************************************)
(* Proofs about Autoscaler: type correctness, RoutesServe and              *)
(* CleanPassSettles, from the inductive invariant IInv, and what it takes: *)
(* that the revisions have an order to be listed in, and that the only     *)
(* blocks updateServiceTraffic builds have one entry.  Then about          *)
(* Promsupp: type correctness and SelectorFollows.                         *)
(***************************************************************************)
EXTENDS Autoscaler, Promsupp, WellFoundedInduction, FiniteSetTheorems, SequenceTheorems, TLAPS

-----------------------------------------------------------------------------
(* What the operators compute *)

Pick(s) == CHOOSE x \in s : TRUE

\* What FoldSeq iterates: the sum of the percents at the positions in s.
PercentFrom(block, g, s) ==
    IF s = {} THEN 0 ELSE block[Pick(s)].percent + g[s \ {Pick(s)}]

LEMMA AdmittedUnfold ==
  ASSUME NEW block
  PROVE  Admitted(block) <=>
           (CHOOSE g : g = [s \in SUBSET DOMAIN block |-> PercentFrom(block, g, s)])[DOMAIN block] = 100
  BY DEF Admitted, FoldSeq, FoldFunction, FoldFunctionOnSet, MapThenFoldSet, PercentFrom, Pick

\* A block of one entry is accepted when the entry has all of the traffic.
LEMMA OneEntry ==
  ASSUME NEW t, t.percent \in Int
  PROVE  Admitted(<<t>>) <=> t.percent = 100
<1> DEFINE block == <<t>>
           g == [s \in SUBSET {1} |-> IF s = {} THEN 0 ELSE t.percent]
           h == CHOOSE f : f = [s \in SUBSET DOMAIN block |-> PercentFrom(block, f, s)]
<1>1. DOMAIN block = {1} /\ block[1] = t
  OBVIOUS
<1>2. ASSUME NEW s \in SUBSET {1} PROVE s = {} \/ (s = {1} /\ Pick(s) = 1 /\ s \ {Pick(s)} = {})
  BY DEF Pick
<1>3. ASSUME NEW s \in SUBSET {1} PROVE g[s] = PercentFrom(block, g, s)
  <2>1. CASE s = {}
    BY <2>1 DEF PercentFrom
  <2>2. CASE s = {1} /\ Pick(s) = 1 /\ s \ {Pick(s)} = {}
    <3>1. g[s] = t.percent /\ g[{}] = 0
      BY <2>2
    <3>2. PercentFrom(block, g, s) = block[1].percent + g[{}]
      BY <2>2 DEF PercentFrom
    <3> QED  BY <1>1, <3>1, <3>2
  <2> QED  BY <1>2, <2>1, <2>2
<1>4. g = [s \in SUBSET DOMAIN block |-> PercentFrom(block, g, s)]
  <2>1. g = [s \in SUBSET {1} |-> g[s]]
    OBVIOUS
  <2> HIDE DEF g, block
  <2> QED  BY <1>1, <1>3, <2>1
<1>5. h = [s \in SUBSET DOMAIN block |-> PercentFrom(block, h, s)]
  <2>1. \E f : f = [s \in SUBSET DOMAIN block |-> PercentFrom(block, f, s)]
    <3> HIDE DEF g, block
    <3> QED  BY <1>4
  <2> HIDE DEF g, block
  <2> QED  BY <2>1
<1>6. Admitted(block) <=> h[DOMAIN block] = 100
  BY AdmittedUnfold
<1> HIDE DEF block, g, h
<1>7. h[{}] = 0
  BY <1>1, <1>5 DEF PercentFrom
<1>8. h[{1}] = t.percent + h[{}]
  <2>1. Pick({1}) = 1 /\ {1} \ {Pick({1})} = {} /\ {1} # {}
    BY DEF Pick
  <2>2. h[{1}] = PercentFrom(block, h, {1})
    BY <1>1, <1>5
  <2> QED  BY <1>1, <2>1, <2>2 DEF PercentFrom
<1>9. Admitted(block) <=> t.percent = 100
  BY <1>1, <1>6, <1>7, <1>8
<1> QED  BY <1>9 DEF block

\* Induction over the naturals, with a set for the predicate; the least and the greatest
\* element of a set of naturals.
LEMMA NatInSet ==
  ASSUME NEW Q, 0 \in Q, \A n \in Nat : n \in Q => n + 1 \in Q
  PROVE  Nat \subseteq Q
<1> SUFFICES ASSUME ~(Nat \subseteq Q) PROVE FALSE
  OBVIOUS
<1> DEFINE T == Nat \ Q
<1>1. T \in SUBSET Nat /\ T # {}
  OBVIOUS
<1>2. PICK x \in T : \A y \in T : ~(<<y, x>> \in OpToRel(<, Nat))
  <2> HIDE DEF T
  <2> QED  BY <1>1, WFMin, NatLessThanWellFounded
<1>3. \A y \in T : ~(y < x)
  <2> HIDE DEF T
  <2> QED  BY <1>1, <1>2 DEF OpToRel
<1>4. x \in Nat /\ x # 0 /\ x - 1 \in Nat /\ x - 1 \notin T
  BY <1>3
<1> QED  BY <1>4

LEMMA LeastExists ==
  ASSUME NEW T \in SUBSET Nat, T # {}
  PROVE  \E x \in T : \A y \in T : x <= y
<1>1. PICK x \in T : \A y \in T : ~(<<y, x>> \in OpToRel(<, Nat))
  BY WFMin, NatLessThanWellFounded
<1>2. \A y \in T : ~(y < x)
  BY <1>1 DEF OpToRel
<1> QED  BY <1>2

\* A nonempty bounded one has a greatest element.
LEMMA GreatestExists ==
  ASSUME NEW B \in Nat, NEW T \in SUBSET (0..B), T # {}
  PROVE  \E x \in T : \A y \in T : y <= x
<1> DEFINE D == {B - x : x \in T}
<1>1. D \in SUBSET Nat /\ D # {}
  <2>1. \A x \in T : B - x \in Nat
    OBVIOUS
  <2>2. PICK x \in T : TRUE
    OBVIOUS
  <2>3. B - x \in D
    OBVIOUS
  <2> QED  BY <2>1, <2>3
<1>2. PICK d \in D : \A e \in D : d <= e
  <2> HIDE DEF D
  <2> QED  BY <1>1, LeastExists
<1>3. PICK x \in T : d = B - x
  BY <1>2
<1>4. \A y \in T : B - x <= B - y
  BY <1>2, <1>3
<1> QED  BY <1>3, <1>4


Increasing(list) == \A i, j \in DOMAIN list : i < j => list[i] < list[j]

\* Every finite set of revisions can be listed in their order.
LEMMA OrderExists ==
  ASSUME NEW M \in Nat, NEW S \in SUBSET (1..M)
  PROVE  IsFiniteSet(S) /\ \E list \in [1..Cardinality(S) -> S] : Increasing(list)
<1> DEFINE Q == {n \in Nat : \A T \in SUBSET (1..M) :
                    Cardinality(T) = n => \E list \in [1..n -> T] : Increasing(list)}
<1>0. \A T \in SUBSET (1..M) : IsFiniteSet(T) /\ Cardinality(T) \in Nat
  <2>1. IsFiniteSet(1..M)
    BY FS_Interval
  <2>2. \A T \in SUBSET (1..M) : IsFiniteSet(T)
    BY <2>1, FS_Subset
  <2> QED  BY <2>2, FS_CardinalityType
<1>1. 0 \in Q
  <2>1. ASSUME NEW T \in SUBSET (1..M), Cardinality(T) = 0
        PROVE  \E list \in [1..0 -> T] : Increasing(list)
    <3>1. [i \in 1..0 |-> i] \in [1..0 -> T] /\ Increasing([i \in 1..0 |-> i])
      BY DEF Increasing
    <3> QED  BY <3>1
  <2> QED  BY <2>1
<1>2. ASSUME NEW n \in Nat, n \in Q PROVE n + 1 \in Q
  <2>1. ASSUME NEW T \in SUBSET (1..M), Cardinality(T) = n + 1
        PROVE  \E list \in [1..(n + 1) -> T] : Increasing(list)
    <3>1. T # {} /\ IsFiniteSet(T)
      BY <1>0, <2>1, FS_EmptySet
    <3>2. PICK x \in T : \A y \in T : y <= x
      <4>1. T \in SUBSET (0..M)
        OBVIOUS
      <4> QED  BY <3>1, <4>1, GreatestExists
    <3>3. Cardinality(T \ {x}) = n
      <4>1. Cardinality(T \ {x}) = Cardinality(T) - 1
        BY <3>1, <3>2, FS_RemoveElement
      <4> QED  BY <2>1, <4>1
    <3>4. PICK list \in [1..n -> T \ {x}] : Increasing(list)
      <4>1. T \ {x} \in SUBSET (1..M)
        OBVIOUS
      <4> QED  BY <1>2, <3>3, <4>1
    <3> DEFINE longer == [i \in 1..(n + 1) |-> IF i <= n THEN list[i] ELSE x]
    <3>5. longer \in [1..(n + 1) -> T]
      BY <3>2, <3>4
    <3>6. \A i \in 1..n : list[i] < x
      <4> SUFFICES ASSUME NEW i \in 1..n PROVE list[i] < x
        OBVIOUS
      <4>1. list[i] \in T \ {x}
        OBVIOUS
      <4>2. list[i] \in 1..M /\ x \in 1..M
        BY <4>1
      <4>3. list[i] # x /\ list[i] <= x
        BY <3>2, <4>1
      <4> QED  BY <4>2, <4>3
    <3>7. Increasing(longer)
      <4> SUFFICES ASSUME NEW i \in 1..(n + 1), NEW j \in 1..(n + 1), i < j
                   PROVE  longer[i] < longer[j]
        BY DEF Increasing
      <4>1. CASE j <= n
        BY <3>4, <4>1 DEF Increasing
      <4>2. CASE j = n + 1
        BY <3>6, <4>2
      <4> QED  BY <4>1, <4>2
    <3> QED  BY <3>5, <3>7
  <2> QED  BY <2>1
<1>3. Nat \subseteq Q
  <2> HIDE DEF Q
  <2> QED  BY <1>1, <1>2, NatInSet
<1>4. Cardinality(S) \in Q
  <2> HIDE DEF Q
  <2> QED  BY <1>0, <1>3
<1> QED  BY <1>0, <1>4

LEMMA RevisionsInOrder ==
  ASSUME NEW M \in Nat, existing \subseteq 1..M
  PROVE  /\ IsFiniteSet(existing)
         /\ Revisions \in [1..Cardinality(existing) -> existing]
         /\ Increasing(Revisions)
  BY OrderExists DEF Revisions, Increasing

LEMMA OneElement ==
  ASSUME NEW S, NEW s \in Seq(S), Len(s) = 1
  PROVE  s = <<s[1]>>
<1>1. s[1] \in S
  BY ElementOfSeq
<1>2. <<s[1]>> \in Seq(S) /\ Len(<<s[1]>>) = 1 /\ <<s[1]>>[1] = s[1]
  BY <1>1
<1> QED  BY <1>2, SeqEqual

LEMMA RemoveOfTwo ==
  ASSUME NEW a, NEW b
  PROVE  /\ Append(<<a>>, b) = <<a, b>>
         /\ RemoveAt(<<a, b>>, 1) = <<b>> /\ RemoveAt(<<a, b>>, 2) = <<a>>
<1> DEFINE s == <<a, b>>
           S == {a, b}
<1>1. Len(s) = 2 /\ s[1] = a /\ s[2] = b /\ s \in Seq(S) /\ \A i \in 1..2 : s[i] \in S
  OBVIOUS
<1>0. Append(<<a>>, b) = s
  <2>1. <<a>> \in Seq(S) /\ Len(<<a>>) = 1 /\ <<a>>[1] = a
    OBVIOUS
  <2>2. /\ Append(<<a>>, b) \in Seq(S) /\ Len(Append(<<a>>, b)) = 2
        /\ Append(<<a>>, b)[1] = a /\ Append(<<a>>, b)[2] = b
    BY <2>1, AppendProperties
  <2>3. \A i \in 1..2 : Append(<<a>>, b)[i] = s[i]
    BY <1>1, <2>2
  <2> HIDE DEF s, S
  <2> QED  BY <1>1, <2>2, <2>3, SeqEqual
<1> HIDE DEF s
<1>2. SubSeq(s, 1, 0) = <<>> /\ SubSeq(s, 3, 2) = <<>>
  BY <1>1, SubSeqEmpty
<1>3. SubSeq(s, 1, 1) = <<a>>
  <2>1. SubSeq(s, 1, 1) \in Seq(S) /\ Len(SubSeq(s, 1, 1)) = 1 /\ SubSeq(s, 1, 1)[1] = a
    BY <1>1, SubSeqProperties
  <2> QED  BY <2>1, OneElement
<1>4. SubSeq(s, 2, 2) = <<b>>
  <2>1. SubSeq(s, 2, 2) \in Seq(S) /\ Len(SubSeq(s, 2, 2)) = 1 /\ SubSeq(s, 2, 2)[1] = b
    BY <1>1, SubSeqProperties
  <2> QED  BY <2>1, OneElement
<1>5. RemoveAt(s, 1) = <<>> \o <<b>> /\ RemoveAt(s, 2) = <<a>> \o <<>>
  <2>1. 1 - 1 = 0 /\ 1 + 1 = 2 /\ 2 - 1 = 1 /\ 2 + 1 = 3
    OBVIOUS
  <2>2. RemoveAt(s, 1) = SubSeq(s, 1, 0) \o SubSeq(s, 2, 2) /\ RemoveAt(s, 2) = SubSeq(s, 1, 1) \o SubSeq(s, 3, 2)
    BY <1>1, <2>1, Zenon DEF RemoveAt
  <2> QED  BY <1>2, <1>3, <1>4, <2>2
<1>6. <<a>> \in Seq(S) /\ <<b>> \in Seq(S)
  OBVIOUS
<1> QED  BY <1>0, <1>5, <1>6, ConcatEmptySeq DEF s

\* The one block that is not <<Target(latestReady, 100)>> has half of the traffic for
\* the oldest revision, and is refused.
LEMMA BlockIsLatest ==
  ASSUME NEW n \in Nat \ {0}, NEW list \in [1..n -> Nat], Increasing(list),
         NEW r \in Nat, NEW t, traffic = <<t>>, ~TrafficPanics(list, r)
  PROVE  \/ NewTraffic(list, r) = <<Target(latestReady, 100)>>
         \/ n = 3 /\ NewTraffic(list, r) = <<Target(list[1], 50)>>
<1>1. list \in Seq(Nat) /\ Len(list) = n /\ DOMAIN list = 1..n
  <2>1. list \in Seq(Nat)
    BY SeqDef
  <2> QED  BY <2>1
<1>2. Len(traffic) = 1 /\ DOMAIN traffic = {1} /\ traffic[1] = t
  OBVIOUS
<1>3. /\ RevisionIdx(list, r) \in 1..n
      /\ \A i \in 1..n : list[i] = r => RevisionIdx(list, r) = i
      /\ (\A i \in 1..n : list[i] # r) => RevisionIdx(list, r) = 1
  <2>1. ToSet(list) = {list[i] : i \in 1..n}
    BY <1>1 DEF ToSet
  <2>2. \A i, j \in 1..n : list[i] = list[j] => i = j
    <3> SUFFICES ASSUME NEW i \in 1..n, NEW j \in 1..n, i # j PROVE list[i] # list[j]
      OBVIOUS
    <3>1. i < j \/ j < i
      OBVIOUS
    <3>2. list[i] < list[j] \/ list[j] < list[i]
      BY <1>1, <3>1 DEF Increasing
    <3>3. list[i] \in Nat /\ list[j] \in Nat
      OBVIOUS
    <3> QED  BY <3>2, <3>3
  <2>3. CASE r \in ToSet(list)
    <3>1. PICK k \in 1..n : list[k] = r
      BY <2>1, <2>3
    <3>2. RevisionIdx(list, r) = CHOOSE i \in DOMAIN list : list[i] = r
      BY <2>3 DEF RevisionIdx
    <3>3. RevisionIdx(list, r) \in 1..n /\ list[RevisionIdx(list, r)] = r
      BY <1>1, <3>1, <3>2
    <3> QED  BY <2>2, <3>1, <3>3
  <2>4. CASE r \notin ToSet(list)
    <3>1. RevisionIdx(list, r) = 1 /\ \A i \in 1..n : list[i] # r
      BY <2>1, <2>4 DEF RevisionIdx
    <3> QED  BY <3>1
  <2> QED  BY <2>3, <2>4
<1>4. \A i \in 1..n : list[i] = r => \A j \in 1..n : j # i => list[j] # r
  BY <1>3
<1>5. Percent(1, 2) = 100 /\ Percent(2, 2) = 100 /\ Percent(1, 3) = 50
  BY DEF Percent
<1>6. /\ n # 1
      /\ \A i \in 1..(n - 1) : i > 1 => list[i] = r
      /\ ~(RevisionIdx(list, r) > Len(Filled(list, r)))
  BY <1>1, <1>2 DEF TrafficPanics
<1>7. n = 2 \/ (n = 3 /\ list[2] = r)
  <2>1. SUFFICES ASSUME n > 2 PROVE n = 3 /\ list[2] = r
    BY <1>6
  <2>2. list[2] = r
    BY <1>6, <2>1
  <2>3. n > 3 => list[3] = r
    BY <1>6
  <2> QED  BY <1>4, <2>1, <2>2, <2>3
<1> DEFINE written == [i \in DOMAIN traffic |->
                         IF i < n /\ list[i] # r THEN Target(list[i], Percent(i, n)) ELSE traffic[i]]
<1>8. Filled(list, r) = IF list[n] = r THEN written ELSE Append(written, Target(latestReady, Percent(n, n)))
  BY <1>1 DEF Filled
<1>9. written = <<written[1]>>
  BY <1>2
<1>10. written[1] = IF list[1] # r THEN Target(list[1], Percent(1, n)) ELSE t
  BY <1>2, <1>6
<1> HIDE DEF written
<1>11. CASE n = 2
  <2>1. list[2] # r
    <3> SUFFICES ASSUME list[2] = r PROVE FALSE
      OBVIOUS
    <3>1. RevisionIdx(list, r) = 2
      BY <1>3, <1>11
    <3>2. Len(Filled(list, r)) = 1
      BY <1>8, <1>9, <1>11
    <3> QED  BY <1>6, <3>1, <3>2
  <2>2. RevisionIdx(list, r) = 1
    <3>1. CASE list[1] = r
      BY <1>3, <1>11, <3>1
    <3>2. CASE list[1] # r
      <4>1. \A i \in 1..n : list[i] # r
        BY <1>11, <2>1, <3>2
      <4> QED  BY <1>3, <4>1
    <3> QED  BY <3>1, <3>2
  <2>3. Filled(list, r) = <<written[1], Target(latestReady, 100)>>
    <3>1. Filled(list, r) = Append(written, Target(latestReady, 100))
      BY <1>5, <1>8, <1>11, <2>1
    <3> QED  BY <1>9, <3>1, RemoveOfTwo
  <2>4. NewTraffic(list, r) = RemoveAt(<<written[1], Target(latestReady, 100)>>, 1)
    BY <2>2, <2>3, Zenon DEF NewTraffic
  <2>5. RemoveAt(<<written[1], Target(latestReady, 100)>>, 1) = <<Target(latestReady, 100)>>
    BY RemoveOfTwo, Zenon
  <2> QED  BY <2>4, <2>5, Zenon
<1>12. CASE n = 3 /\ list[2] = r
  <2>1. list[1] # r /\ list[3] # r /\ RevisionIdx(list, r) = 2
    BY <1>3, <1>4, <1>12
  <2>2. Filled(list, r) = <<Target(list[1], 50), Target(latestReady, Percent(3, 3))>>
    <3>1. written[1] = Target(list[1], 50)
      BY <1>5, <1>10, <1>12, <2>1
    <3>2. Filled(list, r) = Append(written, Target(latestReady, Percent(3, 3)))
      BY <1>8, <1>12, <2>1
    <3> QED  BY <1>9, <3>1, <3>2, RemoveOfTwo
  <2>3. NewTraffic(list, r) = RemoveAt(<<Target(list[1], 50), Target(latestReady, Percent(3, 3))>>, 2)
    BY <2>1, <2>2, Zenon DEF NewTraffic
  <2>4. NewTraffic(list, r) = <<Target(list[1], 50)>>
    BY <2>3, RemoveOfTwo, Zenon
  <2> QED  BY <1>12, <2>4, Zenon
<1> QED  BY <1>7, <1>11, <1>12

\* When there are two revisions and the older one was scaled, the index computed is in
\* range.
LEMMA TwoDoNotPanic ==
  ASSUME NEW r \in Nat, NEW s \in Nat, r < s, existing = {r, s}, NEW t, traffic = <<t>>,
         Revisions \in [1..2 -> existing], Increasing(Revisions)
  PROVE  ~TrafficPanics(Revisions, r)
<1> DEFINE list == Revisions
<1>0. Revisions = list /\ list \in [1..2 -> {r, s}] /\ Increasing(list)
  OBVIOUS
<1> HIDE DEF list
<1>1. list \in Seq({r, s}) /\ Len(list) = 2 /\ DOMAIN list = 1..2
  <2>1. list \in Seq({r, s})
    BY <1>0, SeqDef
  <2> QED  BY <1>0, <2>1
<1>2. list[1] = r /\ list[2] = s
  <2>1. list[1] < list[2]
    BY <1>0, <1>1 DEF Increasing
  <2> QED  BY <1>0, <2>1
<1>3. RevisionIdx(list, r) = 1
  <2>1. r \in ToSet(list)
    BY <1>1, <1>2 DEF ToSet
  <2>2. RevisionIdx(list, r) = CHOOSE i \in DOMAIN list : list[i] = r
    BY <2>1 DEF RevisionIdx
  <2>3. \A i \in DOMAIN list : list[i] = r <=> i = 1
    BY <1>1, <1>2
  <2> QED  BY <1>1, <2>2, <2>3
<1>4. Len(Filled(list, r)) \in Nat \ {0}
  <2> DEFINE written == [i \in DOMAIN traffic |->
                           IF i < 2 /\ list[i] # r THEN Target(list[i], Percent(i, 2)) ELSE traffic[i]]
  <2>1. Filled(list, r) = Append(written, Target(latestReady, Percent(2, 2)))
    BY <1>1, <1>2 DEF Filled
  <2>2. written = <<written[1]>>
    OBVIOUS
  <2> HIDE DEF written
  <2> QED  BY <2>1, <2>2, RemoveOfTwo
<1>5. \A i \in 1..(Len(list) - 1) : list[i] = r
  BY <1>1, <1>2
<1> QED  BY <1>0, <1>1, <1>3, <1>4, <1>5 DEF TrafficPanics

-----------------------------------------------------------------------------
(* The inductive invariant *)

Traffics == [rev : Created \cup {0}, percent : 0..100]
Counts == [running : 0..MaxPods, other : 0..MaxPods]

\* The typed part of the state, as the steps need it.
LEMMA Typed ==
  ASSUME IInv
  PROVE  /\ Len(tier) \in Nat /\ Created = 1..Len(tier) /\ 0 \notin Created
         /\ existing \subseteq 1..Len(tier)
         /\ latestReady \in Nat /\ cur \in Nat /\ waitFrom \in Nat
         /\ traffic = <<traffic[1]>> /\ traffic[1] \in Traffics
         /\ todo \in [1..MaxRevisions -> Counts]
<1>1. tier \in Seq(TierNames) /\ traffic \in Seq(Traffics) /\ Len(traffic) = 1
  BY DEF IInv, TypeOK, TrafficSound, Traffics
<1>2. Len(tier) \in Nat /\ Created = 1..Len(tier)
  BY <1>1 DEF Created
<1>3. traffic = <<traffic[1]>> /\ traffic[1] \in Traffics
  BY <1>1, OneElement, ElementOfSeq
<1> QED  BY <1>2, <1>3 DEF IInv, TypeOK, Counts

LEMMA NoPodsType == NoPods \in [1..MaxRevisions -> Counts]
  BY BoundsAssumption DEF NoPods, Counts

\* The Autoscaler starts in the invariant.
LEMMA InitEstablishes == Init => IInv
<1> SUFFICES ASSUME Init PROVE IInv
  OBVIOUS
<1>1. Created = {1} /\ tier \in Seq(TierNames) /\ Len(tier) = 1
  BY TiersAssumption DEF Init, Created
<1>2. traffic = <<Target(0, 100)>> /\ Target(0, 100) \in Traffics
  BY DEF Init, Target, Traffics
<1>3. traffic \in Seq(Traffics) /\ Len(traffic) = 1 /\ traffic[1] = Target(0, 100)
  BY <1>2
<1>4. TypeOK
  BY <1>1, <1>3, NoPodsType, BoundsAssumption DEF Init, TypeOK, Traffics, Counts
<1>5. TrafficSound
  BY <1>3 DEF Init, TrafficSound, Target
<1>6. ScaleSound /\ TodoSound /\ CleanSound
  BY <1>1 DEF Init, ScaleSound, TodoSound, CleanSound, NoPods
<1> QED  BY <1>4, <1>5, <1>6 DEF IInv

\* The turn of a pod ends.
LEMMA EndPodPreserves ==
  ASSUME IInv, EndPod, pc # "idle", UNCHANGED <<cluster, todo>>, gauge' \subseteq Created,
         clean' \in BOOLEAN,
         clean' => gauge' \subseteq existing /\ \E r \in Created : existing = {r}
  PROVE  IInv'
<1>1. TypeOK'
  BY DEF IInv, TypeOK, EndPod, cluster, Created
<1>2. TrafficSound'
  BY DEF IInv, TrafficSound, cluster
<1>3. ScaleSound' /\ TodoSound' /\ CleanSound'
  BY DEF IInv, ScaleSound, TodoSound, CleanSound, EndPod, cluster, Created
<1> QED  BY <1>1, <1>2, <1>3 DEF IInv

\* The process dies, or panics, and starts again.
LEMMA RestartPreserves ==
  ASSUME IInv, Restart, clean' = FALSE
  PROVE  IInv'
<1>1. TypeOK'
  BY NoPodsType DEF IInv, TypeOK, Restart, cluster, Created, Counts
<1>2. TrafficSound'
  BY DEF IInv, TrafficSound, Restart, cluster
<1>3. ScaleSound' /\ TodoSound' /\ CleanSound'
  BY DEF IInv, ScaleSound, TodoSound, CleanSound, Restart, cluster
<1> QED  BY <1>1, <1>2, <1>3 DEF IInv

LEMMA ProcessServicePreserves ==
  ASSUME IInv, ProcessService
  PROVE  IInv'
<1>1. /\ pc = "idle" /\ pc' = "pods" /\ todo' \in [1..MaxRevisions -> Counts]
      /\ \A r \in 1..MaxRevisions : r \notin Created => todo'[r] = NoPods[r]
  <2>1. /\ todo' \in [1..MaxRevisions -> Counts]
        /\ \A r \in 1..MaxRevisions : /\ r \notin existing => todo'[r].running = 0
                                      /\ r \notin Created => todo'[r].other = 0
    BY DEF ProcessService, Counts
  <2>2. existing \subseteq Created
    BY DEF IInv, TypeOK
  <2>3. ASSUME NEW r \in 1..MaxRevisions, r \notin Created PROVE todo'[r] = NoPods[r]
    BY <2>1, <2>2, <2>3 DEF NoPods, Counts
  <2> QED  BY <2>1, <2>3 DEF ProcessService
<1>2. UNCHANGED <<cluster, gauge, cur, metrics, want, waitFrom, clean>>
  BY DEF ProcessService
<1>3. TypeOK'
  BY <1>1, <1>2 DEF IInv, TypeOK, cluster, Created, Counts
<1>4. TrafficSound'
  BY <1>2 DEF IInv, TrafficSound, cluster
<1>5. TodoSound'
  BY <1>1, <1>2 DEF TodoSound, cluster, Created
<1>6. ScaleSound' /\ CleanSound'
  BY <1>1, <1>2 DEF IInv, ScaleSound, CleanSound, cluster, Created
<1> QED  BY <1>3, <1>4, <1>5, <1>6 DEF IInv

LEMMA EndPassPreserves ==
  ASSUME IInv, EndPass
  PROVE  IInv'
<1>1. /\ pc = "pods" /\ pc' = "idle" /\ todo = NoPods
      /\ UNCHANGED <<cluster, gauge, todo, cur, metrics, want, waitFrom, clean>>
  BY DEF EndPass
<1>2. TypeOK'
  BY <1>1 DEF IInv, TypeOK, cluster, Created
<1>3. TrafficSound'
  BY <1>1 DEF IInv, TrafficSound, cluster
<1>4. ScaleSound' /\ TodoSound' /\ CleanSound'
  BY <1>1 DEF IInv, ScaleSound, TodoSound, CleanSound, cluster, Created
<1> QED  BY <1>2, <1>3, <1>4 DEF IInv

\* A listed pod is of a revision that was created, the smallest one with a pod left.
LEMMA RegisterPodPreserves ==
  ASSUME IInv, NEW status \in {"running", "other"}, RegisterPod(status)
  PROVE  IInv'
<1> DEFINE listed == {r \in DOMAIN todo : todo[r] # NoPods[r]}
           rev == Min(listed)
<1>1. /\ pc = "pods" /\ todo # NoPods
      /\ todo[rev][status] > 0
      /\ todo' = [todo EXCEPT ![rev][status] = @ - 1]
      /\ gauge' = gauge \cup {rev}
      /\ clean' = (clean /\ rev \in existing)
      /\ (pc' = "fetch" /\ cur' = rev) \/ (pc' = "pods" /\ cur' = cur)
      /\ UNCHANGED <<cluster, metrics, want, waitFrom>>
  BY DEF RegisterPod
<1>2. rev \in listed
  <2>1. listed # {}
    <3> SUFFICES ASSUME \A r \in DOMAIN todo : todo[r] = NoPods[r] PROVE FALSE
      OBVIOUS
    <3>1. /\ todo = [r \in 1..MaxRevisions |-> todo[r]]
          /\ NoPods = [r \in 1..MaxRevisions |-> NoPods[r]]
          /\ DOMAIN todo = 1..MaxRevisions
      BY Typed, NoPodsType
    <3> QED  BY <1>1, <3>1
  <2>2. listed \in SUBSET Nat
    BY Typed
  <2>3. \E x \in listed : \A y \in listed : x <= y
    <3> HIDE DEF listed
    <3> QED  BY <2>1, <2>2, LeastExists
  <2> HIDE DEF listed
  <2> QED  BY <2>3 DEF Min
<1>3. rev \in 1..MaxRevisions /\ rev \in Created
  BY <1>2, Typed DEF IInv, TodoSound
<1> HIDE DEF rev, listed
<1>4. todo' \in [1..MaxRevisions -> Counts] /\ \A r \in 1..MaxRevisions \ {rev} : todo'[r] = todo[r]
  <2>1. CASE status = "running"
    BY <1>1, <1>3, <2>1, Typed, BoundsAssumption DEF Counts
  <2>2. CASE status = "other"
    BY <1>1, <1>3, <2>2, Typed, BoundsAssumption DEF Counts
  <2> QED  BY <2>1, <2>2
<1>5. Created' = Created
  BY <1>1 DEF cluster, Created
<1>6. clean' \in BOOLEAN /\ (clean' => clean /\ rev \in existing)
  BY <1>1 DEF IInv, TypeOK
<1>7. TypeOK'
  <2>1. cur = 0 /\ 0 \notin Created
    BY <1>1, Typed DEF IInv, TypeOK
  <2> QED  BY <1>1, <1>3, <1>4, <1>5, <1>6, <2>1 DEF IInv, TypeOK, cluster, Counts
<1>8. TrafficSound'
  BY <1>1 DEF IInv, TrafficSound, cluster
<1>9. TodoSound'
  BY <1>3, <1>4, <1>5 DEF IInv, TodoSound
<1>10. ScaleSound'
  BY <1>1 DEF IInv, TypeOK, ScaleSound, cluster
<1>11. CleanSound'
  BY <1>1, <1>5, <1>6 DEF IInv, CleanSound, cluster
<1> QED  BY <1>7, <1>8, <1>9, <1>10, <1>11 DEF IInv
\* The turn ends with an error, or the metrics are those of a revision that is scraped.
LEMMA FetchPodMetricsPreserves ==
  ASSUME IInv, FetchPodMetrics
  PROVE  IInv'
<1>1. pc = "fetch" /\ UNCHANGED <<cluster, gauge, todo, clean>>
  BY DEF FetchPodMetrics
<1>2. CASE EndPod
  BY <1>1, <1>2, EndPodPreserves DEF IInv, TypeOK, CleanSound
<1>3. CASE /\ metrics' \in SUBSET (IF cur \in scraped THEN {"low", "high"} ELSE {})
           /\ pc' = "decide" /\ UNCHANGED <<cur, want, waitFrom>>
  <2>1. metrics' \subseteq {"low", "high"} /\ (metrics' # {} => cur \in scraped)
    BY <1>3
  <2>2. TypeOK'
    BY <1>1, <1>3, <2>1 DEF IInv, TypeOK, cluster, Created
  <2>3. TrafficSound'
    BY <1>1 DEF IInv, TrafficSound, cluster
  <2>4. ScaleSound' /\ TodoSound' /\ CleanSound'
    BY <1>1, <1>3, <2>1 DEF IInv, ScaleSound, TodoSound, CleanSound, cluster, Created
  <2> QED  BY <2>2, <2>3, <2>4 DEF IInv
<1> QED  BY <1>2, <1>3 DEF FetchPodMetrics

\* A tier that was found is one of the GPU type.
LEMMA TiersFound ==
  ASSUME NEW t \in TiersDecided
  PROVE  metrics # {} /\ t \in TierNames \cup {NoTier}
<1>1. PICK m \in metrics : t = IF m = "low" THEN GetPrevAvailTier(tier[cur]) ELSE GetNextAvailTier(tier[cur])
  BY DEF TiersDecided
<1>2. Len(Tiers) \in Nat /\ \A i \in 1..Len(Tiers) : Tiers[i] \in TierNames
  BY TiersAssumption
<1>3. DOMAIN Tiers = 1..Len(Tiers)
  BY TiersAssumption
<1>4. GetPrevAvailTier(tier[cur]) \in TierNames \cup {NoTier}
  <2> DEFINE smaller == {i \in DOMAIN Tiers : i < TierIndex(tier[cur]) /\ Available(Tiers[i])}
  <2>1. smaller \in SUBSET (0..Len(Tiers)) /\ smaller \in SUBSET (1..Len(Tiers))
    BY <1>2, <1>3
  <2>2. GetPrevAvailTier(tier[cur]) = IF smaller = {} THEN NoTier ELSE Tiers[Max(smaller)]
    BY DEF GetPrevAvailTier
  <2> HIDE DEF smaller
  <2>3. smaller # {} => Max(smaller) \in smaller
    <3> SUFFICES ASSUME smaller # {} PROVE Max(smaller) \in smaller
      OBVIOUS
    <3>1. PICK x \in smaller : \A y \in smaller : y <= x
      BY <1>2, <2>1, GreatestExists
    <3>2. \A y \in smaller : x >= y
      BY <2>1, <3>1
    <3> QED  BY <3>2 DEF Max
  <2> QED  BY <1>2, <2>1, <2>2, <2>3
<1>5. GetNextAvailTier(tier[cur]) \in TierNames \cup {NoTier}
  <2> DEFINE larger == {i \in DOMAIN Tiers : i > TierIndex(tier[cur]) /\ Available(Tiers[i])}
  <2>1. larger \in SUBSET Nat /\ larger \in SUBSET (1..Len(Tiers))
    BY <1>2, <1>3
  <2>2. GetNextAvailTier(tier[cur]) = IF larger = {} THEN NoTier ELSE Tiers[Min(larger)]
    BY DEF GetNextAvailTier
  <2> HIDE DEF larger
  <2>3. larger # {} => Min(larger) \in larger
    <3> SUFFICES ASSUME larger # {} PROVE Min(larger) \in larger
      OBVIOUS
    <3>1. PICK x \in larger : \A y \in larger : x <= y
      BY <2>1, LeastExists
    <3> QED  BY <3>1 DEF Min
  <2> QED  BY <1>2, <2>1, <2>2, <2>3
<1> QED  BY <1>1, <1>4, <1>5

LEMMA DecideScalePreserves ==
  ASSUME IInv, DecideScale
  PROVE  IInv'
<1>1. pc = "decide" /\ UNCHANGED <<cluster, todo, clean>>
  BY DEF DecideScale
<1>2. CASE gauge' = gauge \cup {cur} /\ EndPod
  <2>1. gauge' \subseteq Created
    BY <1>1, <1>2 DEF IInv, TypeOK
  <2>2. clean' => gauge' \subseteq existing /\ \E r \in Created : existing = {r}
    BY <1>1, <1>2 DEF IInv, CleanSound
  <2>3. clean' \in BOOLEAN
    BY <1>1 DEF IInv, TypeOK
  <2> QED  BY <1>1, <1>2, <2>1, <2>2, <2>3, EndPodPreserves
<1>3. CASE /\ want' \in TiersDecided \ {NoTier} /\ pc' = "update" /\ metrics' = {}
           /\ UNCHANGED <<gauge, cur, waitFrom>>
  <2>1. metrics # {} /\ want' \in TierNames /\ want' # NoTier
    BY <1>3, TiersFound
  <2>2. cur \in scraped
    BY <2>1 DEF IInv, ScaleSound
  <2>3. TypeOK'
    BY <1>1, <1>3, <2>1 DEF IInv, TypeOK, cluster, Created
  <2>4. TrafficSound'
    BY <1>1 DEF IInv, TrafficSound, cluster
  <2>5. ScaleSound' /\ TodoSound' /\ CleanSound'
    BY <1>1, <1>3, <2>1, <2>2 DEF IInv, ScaleSound, TodoSound, CleanSound, cluster, Created
  <2> QED  BY <2>3, <2>4, <2>5 DEF IInv
<1> QED  BY <1>2, <1>3 DEF DecideScale

LEMMA UpdateTemplatePreserves ==
  ASSUME IInv, UpdateTemplate
  PROVE  IInv'
<1>1. pc = "update" /\ UNCHANGED <<alloc, latestReady, traffic, scraped, gauge, todo>>
  BY DEF UpdateTemplate
<1>2. CASE UNCHANGED <<tier, existing>> /\ EndPod /\ (clean' = clean \/ clean' = FALSE)
  <2>1. clean' \in BOOLEAN /\ gauge' \subseteq Created
    BY <1>1, <1>2 DEF IInv, TypeOK
  <2>2. clean' => gauge' \subseteq existing /\ \E r \in Created : existing = {r}
    BY <1>1, <1>2 DEF IInv, CleanSound
  <2> QED  BY <1>1, <1>2, <2>1, <2>2, EndPodPreserves DEF cluster
<1>3. CASE /\ Len(tier) < MaxRevisions /\ tier' = Append(tier, want)
           /\ existing' = existing \cup {Len(tier) + 1}
           /\ waitFrom' = latestReady /\ pc' = "wait"
           /\ UNCHANGED <<cur, metrics, want, clean>>
  <2>1. /\ tier \in Seq(TierNames) /\ want \in TierNames /\ Len(tier) \in Nat
        /\ Created = 1..Len(tier)
    BY <1>1, Typed DEF IInv, TypeOK, ScaleSound
  <2>2. tier' \in Seq(TierNames) /\ Len(tier') = Len(tier) + 1
    BY <1>3, <2>1
  <2>3. Created' = 1..(Len(tier) + 1) /\ Created \subseteq Created'
    BY <2>1, <2>2 DEF Created
  <2>4. Len(tier') \in 1..MaxRevisions
    BY <1>3, <2>1, <2>2, BoundsAssumption
  <2>5. Seq(Traffics) \subseteq Seq(Traffics')
    <3>1. Traffics \subseteq Traffics'
      BY <2>3 DEF Traffics
    <3> QED  BY <3>1
  <2>6. TypeOK'
    <3>1. traffic' \in Seq(Traffics')
      BY <1>1, <2>5 DEF IInv, TypeOK, Traffics
    <3>2. /\ alloc \in [DOMAIN Nodes -> Allocations] /\ existing \subseteq Created
          /\ latestReady \in Created \cup {0} /\ cur \in Created \cup {0} /\ cur # 0
          /\ scraped \subseteq Created /\ gauge \subseteq Created
          /\ todo \in [1..MaxRevisions -> Counts] /\ metrics = {} /\ clean \in BOOLEAN
      BY <1>1 DEF IInv, TypeOK, Counts
    <3>3. existing' \subseteq Created'
      <4>1. Len(tier) + 1 \in Created'
        BY <2>1, <2>3
      <4> QED  BY <1>3, <2>3, <3>2, <4>1
    <3>4. latestReady \in Created' \cup {0} /\ cur \in Created' \cup {0}
      BY <2>3, <3>2
    <3>5. scraped \subseteq Created' /\ gauge \subseteq Created'
      BY <2>3, <3>2
    <3> QED  BY <1>1, <1>3, <2>1, <2>2, <2>4, <3>1, <3>2, <3>3, <3>4, <3>5 DEF TypeOK, Traffics, Counts
  <2>7. TrafficSound'
    BY <1>1, <1>3 DEF IInv, TrafficSound
  <2>8. ScaleSound'
    BY <1>1, <1>3, Typed DEF IInv, TypeOK, ScaleSound
  <2>9. TodoSound'
    BY <1>1, <2>3 DEF IInv, TodoSound, NoPods
  <2>10. CleanSound'
    <3>1. clean => existing = {cur}
      BY <1>1 DEF IInv, CleanSound
    <3>2. cur \in Created
      BY <1>1 DEF IInv, TypeOK
    <3>3. Len(tier) + 1 \in Created' /\ cur < Len(tier) + 1
      BY <2>1, <2>3, <3>2
    <3>4. clean => gauge' \subseteq existing' /\ existing' = {cur, Len(tier) + 1}
      BY <1>1, <1>3, <3>1 DEF IInv, CleanSound
    <3> QED  BY <1>3, <3>3, <3>4 DEF CleanSound
  <2> QED  BY <2>6, <2>7, <2>8, <2>9, <2>10 DEF IInv
<1> QED  BY <1>2, <1>3 DEF UpdateTemplate

\* The revision that was scaled has been ready, and a later one is now.
LEMMA WaitServicePreserves ==
  ASSUME IInv, WaitService
  PROVE  IInv'
<1>1. pc = "wait" /\ UNCHANGED <<cluster, gauge, todo>>
  BY DEF WaitService
<1>2. CASE EndPod /\ clean' = FALSE
  BY <1>1, <1>2, EndPodPreserves DEF IInv, TypeOK
<1>3. CASE /\ latestReady # waitFrom /\ pc' = "traffic"
           /\ UNCHANGED <<cur, metrics, want, waitFrom, clean>>
  <2>1. cur < latestReady
    BY <1>1, <1>3, Typed DEF IInv, ScaleSound
  <2>2. TypeOK'
    BY <1>1, <1>3 DEF IInv, TypeOK, cluster, Created
  <2>3. TrafficSound'
    BY <1>1 DEF IInv, TrafficSound, cluster
  <2>4. ScaleSound' /\ TodoSound' /\ CleanSound'
    BY <1>1, <1>3, <2>1 DEF IInv, ScaleSound, TodoSound, CleanSound, cluster, Created
  <2> QED  BY <2>2, <2>3, <2>4 DEF IInv
<1> QED  BY <1>2, <1>3 DEF WaitService
\* What is known when the traffic is moved: the accepted block sends all of it to the
\* latest ready revision; and as long as nothing goes wrong there is no other outcome.
LEMMA MovesToLatest ==
  ASSUME IInv, pc = "traffic"
  PROVE  /\ ~TrafficPanics(Revisions, cur) /\ Admitted(NewTraffic(Revisions, cur)) =>
              NewTraffic(Revisions, cur) = <<Target(latestReady, 100)>>
         /\ clean => ~TrafficPanics(Revisions, cur) /\ Admitted(NewTraffic(Revisions, cur))
<1> DEFINE n == Cardinality(existing)
<1>1. cur < latestReady /\ latestReady \in existing
  BY Typed DEF IInv, ScaleSound, TrafficSound
<1>2. /\ IsFiniteSet(existing) /\ Revisions \in [1..n -> existing] /\ Increasing(Revisions)
  BY Typed, RevisionsInOrder
<1>3. n \in Nat \ {0}
  <2>1. n \in Nat
    BY <1>2, FS_CardinalityType
  <2>2. n # 0
    BY <1>1, <1>2, FS_EmptySet
  <2> QED  BY <2>1, <2>2
<1>4. Revisions \in [1..n -> Nat] /\ cur \in Nat /\ traffic = <<traffic[1]>>
  BY <1>2, Typed
<1>5. ~TrafficPanics(Revisions, cur) =>
         \/ NewTraffic(Revisions, cur) = <<Target(latestReady, 100)>>
         \/ n = 3 /\ NewTraffic(Revisions, cur) = <<Target(Revisions[1], 50)>>
  <2> HIDE DEF n
  <2> QED  BY <1>2, <1>3, <1>4, BlockIsLatest
<1>6. Admitted(<<Target(latestReady, 100)>>) /\ ~Admitted(<<Target(Revisions[1], 50)>>)
  BY OneEntry DEF Target
<1>7. ASSUME clean PROVE n = 2 /\ ~TrafficPanics(Revisions, cur)
  <2>1. PICK s \in Created : existing = {cur, s} /\ cur < s
    BY <1>7 DEF IInv, CleanSound
  <2>2. cur \in Nat /\ s \in Nat
    BY Typed
  <2>3. n = 2
    <3>1. cur # s
      BY <2>1, <2>2
    <3>2. Cardinality({cur, s}) = 2
      <4>1. IsFiniteSet({cur}) /\ Cardinality({cur}) = 1
        BY FS_Singleton
      <4>2. Cardinality({cur} \cup {s}) = 2
        BY <3>1, <4>1, FS_AddElement
      <4>3. {cur} \cup {s} = {cur, s}
        OBVIOUS
      <4> QED  BY <4>2, <4>3
    <3> QED  BY <2>1, <3>2
  <2>4. Revisions \in [1..2 -> existing]
    BY <1>2, <2>3
  <2> QED  BY <1>2, <1>4, <2>1, <2>2, <2>3, <2>4, TwoDoNotPanic
<1> HIDE DEF n
<1> QED  BY <1>5, <1>6, <1>7

LEMMA UpdateServiceTrafficPreserves ==
  ASSUME IInv, UpdateServiceTraffic
  PROVE  IInv'
<1> DEFINE block == NewTraffic(Revisions, cur)
<1>1. /\ pc = "traffic" /\ ~TrafficPanics(Revisions, cur)
      /\ UNCHANGED <<alloc, tier, existing, latestReady, scraped, gauge, todo>>
  BY DEF UpdateServiceTraffic
<1>2. \/ /\ Admitted(block) /\ traffic' = block /\ pc' = "delete"
         /\ UNCHANGED <<cur, metrics, want, waitFrom, clean>>
      \/ /\ (~Admitted(block) /\ clean' = clean) \/ clean' = FALSE
         /\ traffic' = traffic /\ EndPod
  BY DEF UpdateServiceTraffic
<1> HIDE DEF block
<1>3. CASE /\ (~Admitted(block) /\ clean' = clean) \/ clean' = FALSE
           /\ traffic' = traffic /\ EndPod
  <2>1. clean' = FALSE
    BY <1>1, <1>3, MovesToLatest DEF block, IInv, TypeOK
  <2> QED  BY <1>1, <1>3, <2>1, EndPodPreserves DEF IInv, TypeOK, cluster
<1>4. CASE /\ Admitted(block) /\ traffic' = block /\ pc' = "delete"
           /\ UNCHANGED <<cur, metrics, want, waitFrom, clean>>
  <2>1. traffic' = <<Target(latestReady, 100)>>
    BY <1>1, <1>4, MovesToLatest DEF block
  <2>2. cur < latestReady /\ latestReady \in existing /\ latestReady \in Created
    BY <1>1, Typed DEF IInv, ScaleSound, TrafficSound
  <2>3. Created' = Created
    BY <1>1 DEF Created
  <2>4. Target(latestReady, 100) \in Traffics
    BY <2>2 DEF Target, Traffics
  <2>5. traffic' \in Seq(Traffics) /\ Len(traffic') = 1 /\ traffic'[1] = Target(latestReady, 100)
    BY <2>1, <2>4
  <2>6. TypeOK'
    BY <1>1, <1>4, <2>3, <2>5 DEF IInv, TypeOK, Traffics
  <2>7. TrafficSound'
    BY <1>1, <2>2, <2>5, Typed DEF IInv, TrafficSound, Target
  <2>8. ScaleSound'
    BY <1>1, <1>4, <2>2, <2>5 DEF IInv, ScaleSound, TypeOK, Target
  <2>9. TodoSound' /\ CleanSound'
    BY <1>1, <1>4, <2>3 DEF IInv, TodoSound, CleanSound, NoPods
  <2> QED  BY <2>6, <2>7, <2>8, <2>9 DEF IInv
<1> QED  BY <1>2, <1>3, <1>4

\* The revision that is deleted is neither the latest ready one nor the one the traffic
\* is for.
LEMMA DeleteRevisionPreserves ==
  ASSUME IInv, DeleteRevision
  PROVE  IInv'
<1>1. /\ pc = "delete" /\ pc' = "report"
      /\ (existing' = existing \ {cur} /\ clean' = clean) \/ (existing' = existing /\ clean' = FALSE)
      /\ UNCHANGED <<alloc, tier, latestReady, traffic, scraped, gauge, todo, cur, metrics, want, waitFrom>>
  BY DEF DeleteRevision
<1>2. cur < latestReady /\ cur < traffic[1].rev /\ cur # 0
  BY <1>1, Typed DEF IInv, ScaleSound, TypeOK
<1>3. Created' = Created
  BY <1>1 DEF Created
<1>4. TypeOK'
  BY <1>1, <1>3 DEF IInv, TypeOK
<1>5. TrafficSound'
  BY <1>1, <1>2, Typed DEF IInv, TrafficSound
<1>6. ScaleSound' /\ TodoSound'
  BY <1>1, <1>3 DEF IInv, ScaleSound, TodoSound, NoPods
<1>7. CleanSound'
  <2>1. CASE existing' = existing \ {cur} /\ clean' = clean
    <3> SUFFICES ASSUME clean PROVE CleanSound'
      BY <2>1 DEF CleanSound
    <3>1. PICK s \in Created : existing = {cur, s} /\ cur < s
      BY <1>1 DEF IInv, CleanSound
    <3>2. existing' = {s}
      BY <2>1, <3>1, Typed
    <3>3. gauge' \subseteq existing' \cup {cur}
      BY <1>1, <3>1, <3>2 DEF IInv, CleanSound
    <3> QED  BY <1>1, <1>3, <3>2, <3>3 DEF CleanSound
  <2>2. CASE clean' = FALSE
    BY <2>2 DEF CleanSound
  <2> QED  BY <1>1, <2>1, <2>2
<1> QED  BY <1>4, <1>5, <1>6, <1>7 DEF IInv

LEMMA ReportScalingPreserves ==
  ASSUME IInv, ReportScaling
  PROVE  IInv'
<1>1. pc = "report" /\ gauge' = gauge \ {cur} /\ EndPod /\ UNCHANGED <<cluster, todo, clean>>
  BY DEF ReportScaling
<1>2. gauge' \subseteq Created /\ clean' \in BOOLEAN
  BY <1>1 DEF IInv, TypeOK
<1>3. clean' => gauge' \subseteq existing /\ \E r \in Created : existing = {r}
  BY <1>1 DEF IInv, CleanSound
<1> QED  BY <1>1, <1>2, <1>3, EndPodPreserves

LEMMA PanicPreserves ==
  ASSUME IInv, Panic
  PROVE  IInv'
<1>1. clean' = FALSE
  BY MovesToLatest DEF Panic, IInv, TypeOK
<1> QED  BY <1>1, RestartPreserves DEF Panic

\* Knative, Promsupp and the nodes.
LEMMA OthersPreserve ==
  ASSUME IInv, \/ \E r \in Created : BecomesReady(r)
               \/ Run
               \/ \E i \in DOMAIN Nodes, a \in Allocations : Repartition(i, a)
               \/ UNCHANGED vars
  PROVE  IInv'
<1>1. ASSUME NEW r \in Created, BecomesReady(r)
      PROVE  IInv'
  <2>1. /\ r \in existing /\ r > latestReady /\ latestReady' = r
        /\ UNCHANGED <<alloc, tier, existing, traffic, scraped, gauge, pc, todo, cur, metrics, want, waitFrom, clean>>
    BY <1>1 DEF BecomesReady
  <2>2. Created' = Created /\ r \in Nat /\ latestReady \in Nat /\ r # 0
    BY <2>1, Typed DEF Created
  <2>3. TypeOK'
    BY <2>1, <2>2 DEF IInv, TypeOK
  <2>4. TrafficSound'
    <3>1. traffic[1].rev # 0 => traffic[1].rev \in Nat
      BY Typed DEF IInv, TrafficSound
    <3> QED  BY <2>1, <2>2, <3>1 DEF IInv, TrafficSound
  <2>5. ScaleSound'
    <3>1. \A q \in scraped : q \in Nat
      BY Typed DEF IInv, TypeOK
    <3>2. \A q \in Nat : q <= latestReady => q <= r
      BY <2>1, <2>2
    <3>3. \A q \in Nat : q < latestReady => q < r
      BY <2>1, <2>2
    <3> QED  BY <2>1, <3>1, <3>2, <3>3, Typed DEF IInv, ScaleSound
  <2>6. TodoSound' /\ CleanSound'
    BY <2>1, <2>2 DEF IInv, TodoSound, CleanSound, NoPods
  <2> QED  BY <2>3, <2>4, <2>5, <2>6 DEF IInv
<1>2. ASSUME Run
      PROVE  IInv'
  <2>1. /\ latestReady # 0 /\ scraped' = scraped \cup {latestReady}
        /\ UNCHANGED <<alloc, tier, existing, latestReady, traffic, gauge, pc, todo, cur, metrics, want, waitFrom, clean>>
    BY <1>2 DEF Run
  <2>2. TypeOK'
    BY <2>1 DEF IInv, TypeOK, Created
  <2>3. TrafficSound'
    BY <2>1 DEF IInv, TrafficSound
  <2>4. ScaleSound' /\ TodoSound' /\ CleanSound'
    BY <2>1, Typed DEF IInv, ScaleSound, TodoSound, CleanSound, NoPods, Created
  <2> QED  BY <2>2, <2>3, <2>4 DEF IInv
<1>3. ASSUME NEW i \in DOMAIN Nodes, NEW a \in Allocations, Repartition(i, a)
      PROVE  IInv'
  <2>1. /\ alloc' = [alloc EXCEPT ![i] = a]
        /\ UNCHANGED <<tier, existing, latestReady, traffic, scraped, gauge, pc, todo, cur, metrics, want, waitFrom, clean>>
    BY <1>3 DEF Repartition
  <2>2. TypeOK'
    BY <2>1 DEF IInv, TypeOK, Created
  <2>3. TrafficSound'
    BY <2>1 DEF IInv, TrafficSound
  <2>4. ScaleSound' /\ TodoSound' /\ CleanSound'
    BY <2>1 DEF IInv, ScaleSound, TodoSound, CleanSound, NoPods, Created
  <2> QED  BY <2>2, <2>3, <2>4 DEF IInv
<1>4. ASSUME UNCHANGED vars
      PROVE  IInv'
  <2>1. UNCHANGED <<alloc, tier, existing, latestReady, traffic, scraped, gauge, pc, todo, cur, metrics, want, waitFrom, clean>>
    BY <1>4 DEF vars, cluster
  <2>2. TypeOK'
    BY <2>1 DEF IInv, TypeOK, Created
  <2>3. TrafficSound'
    BY <2>1 DEF IInv, TrafficSound
  <2>4. ScaleSound' /\ TodoSound' /\ CleanSound'
    BY <2>1 DEF IInv, ScaleSound, TodoSound, CleanSound, NoPods, Created
  <2> QED  BY <2>2, <2>3, <2>4 DEF IInv
<1> QED  BY <1>1, <1>2, <1>3, <1>4

\* Every step preserves the invariant.
LEMMA NextPreserves == IInv /\ [Next]_vars => IInv'
<1> SUFFICES ASSUME IInv, [Next]_vars PROVE IInv'
  OBVIOUS
<1>1. CASE ProcessService
  BY <1>1, ProcessServicePreserves
<1>2. CASE Autoscale
  BY <1>2, EndPassPreserves, RegisterPodPreserves, FetchPodMetricsPreserves, DecideScalePreserves,
     UpdateTemplatePreserves, WaitServicePreserves, UpdateServiceTrafficPreserves,
     DeleteRevisionPreserves, ReportScalingPreserves, PanicPreserves
     DEF Autoscale
<1>3. CASE Crash
  BY <1>3, RestartPreserves DEF Crash
<1>4. CASE \/ \E r \in Created : BecomesReady(r)
           \/ Run
           \/ \E i \in DOMAIN Nodes, a \in Allocations : Repartition(i, a)
           \/ UNCHANGED vars
  BY <1>4, OthersPreserve
<1> QED  BY <1>1, <1>2, <1>3, <1>4 DEF Next

LEMMA Invariance == Spec => []IInv
<1>1. Init => IInv
  BY InitEstablishes
<1>2. IInv /\ [Next]_vars => IInv'
  BY NextPreserves
<1> QED  BY <1>1, <1>2, PTL DEF Spec

-----------------------------------------------------------------------------
(* The theorems *)

\* The state keeps its type: a revision is never moved to a tier the GPU type does not
\* have, and no percent is out of range (TypeOK).
THEOREM TypeCorrect == Spec => []TypeOK
<1>1. IInv => TypeOK
  BY DEF IInv
<1> QED  BY <1>1, Invariance, PTL

\* Whatever stale pods, timeouts, refused blocks and panics do, all of the traffic goes to
\* revisions that exist and have been ready (updateServiceTraffic and the deletion after
\* it, scaler.go).
THEOREM QueriesAreServed == Spec => []RoutesServe
<1>1. IInv => RoutesServe
  <2> SUFFICES ASSUME IInv PROVE RoutesServe
    OBVIOUS
  <2>1. DOMAIN traffic = {1}
    BY Typed
  <2>2. latestReady <= latestReady
    BY Typed
  <2> QED  BY <2>1, <2>2 DEF IInv, TrafficSound, RoutesServe
<1> QED  BY <1>1, Invariance, PTL

\* As long as nothing goes wrong a pass leaves one revision, with the traffic and the only
\* gauge (ApplyScale, scaler.go).
THEOREM CleanPassesSettle == Spec => []CleanPassSettles
<1>1. IInv => CleanPassSettles
  <2> SUFFICES ASSUME IInv, pc = "idle", clean
               PROVE  /\ Cardinality(existing) = 1
                      /\ \A i \in DOMAIN traffic : traffic[i].rev \in existing \cup {0}
                      /\ gauge \subseteq existing
    BY DEF CleanPassSettles
  <2>1. Cardinality(existing) = 1 /\ gauge \subseteq existing
    BY FS_Singleton DEF IInv, CleanSound
  <2>2. DOMAIN traffic = {1}
    BY Typed
  <2> QED  BY <2>1, <2>2 DEF IInv, TrafficSound
<1> QED  BY <1>1, Invariance, PTL

-----------------------------------------------------------------------------
(* What RoutesServe takes from Promsupp: the selector of a service follows its   *)
(* latest ready revision.  Its services, its bounds and its variables are its own. *)

\* What Promsupp assumes of its constants.
LEMMA SuppAssumed == {MaxReady, MaxCreations, MaxFailures} \subseteq Nat /\ Ignored \subseteq Services
  BY SuppBounds, IgnoredAssumption

\* The typed part of the state of Promsupp, record by record.
LEMMA SuppTyped ==
  ASSUME SuppTypeOK
  PROVE  /\ MaxReady \in Nat /\ MaxCreations \in Nat /\ MaxFailures \in Nat
         /\ \A s \in Services :
               /\ ksvc[s].uid \in 0..MaxCreations /\ ksvc[s].latest \in 0..MaxReady
               /\ ksvc[s] = [uid |-> ksvc[s].uid, latest |-> ksvc[s].latest]
               /\ created[s] \in 0..MaxCreations /\ monitor[s] \in 0..MaxCreations
               /\ prom[s].owner \in 0..MaxCreations /\ prom[s].app \in 0..MaxReady
         /\ DOMAIN ksvc = Services /\ DOMAIN created = Services /\ DOMAIN prom = Services
         /\ DOMAIN monitor = Services /\ failures \in 0..MaxFailures
  BY SuppAssumed DEF SuppTypeOK

\* Promsupp starts in the invariant, and a death leads back to an empty list.
LEMMA SuppInitEstablishes == ASSUME SuppInit PROVE SuppIInv
<1>1. SuppTypeOK
  BY SuppAssumed DEF SuppInit, SuppTypeOK, None
<1>2. ListSound
  BY SuppAssumed DEF SuppInit, ListSound, Busy
<1>3. SelectorSound
  BY SuppAssumed DEF SuppInit, SelectorSound, None
<1> QED  BY <1>1, <1>2, <1>3 DEF SuppIInv

\* The calls of the loop that write nothing.
LEMMA SuppReads ==
  ASSUME SuppIInv, objects' = objects,
         ListServices \/ NextService \/ GetService \/ GetMonitor \/ Die
  PROVE  SuppIInv'
<1> USE SuppTyped, SuppAssumed DEF SuppIInv
<1>0. ksvc' = ksvc /\ created' = created /\ prom' = prom /\ monitor' = monitor
  BY SuppAssumed DEF objects
<1>1. SelectorSound'
  BY <1>0 DEF SelectorSound
<1>2. ASSUME NEW i, NoOlder(i) PROVE NoOlder(i)'
  BY <1>0, <1>2 DEF NoOlder
<1>3. CASE ListServices
  <2>1. ASSUME NEW i \in Listed PROVE i \in Listing /\ NoOlder(i) /\ ksvc[i.name].uid > 0 /\ i = Item(i.name)
    <3>1. PICK s \in Services \ Ignored : ksvc[s].uid > 0 /\ i = [name |-> s, uid |-> ksvc[s].uid, latest |-> ksvc[s].latest]
      BY <2>1 DEF Listed, Item
    <3>2. i.name = s /\ i.uid = ksvc[s].uid /\ i.latest = ksvc[s].latest
      BY <3>1
    <3>3. ksvc[s].uid \in 1..MaxCreations
      BY <3>1
    <3>4. i \in Listing
      BY <3>1, <3>3 DEF Listing
    <3> QED  BY <3>1, <3>2, <3>4 DEF Item, NoOlder, SelectorSound
  <2>2. items' = Listed /\ loop' = "next" /\ failures' = failures
    BY <1>3 DEF ListServices, NoFailure
  <2>3. ListSound'
    BY <1>2, <2>1, <2>2 DEF ListSound, Busy
  <2>4. SuppTypeOK'
    BY <1>0, <2>1, <2>2 DEF SuppTypeOK, Listing
  <2> QED  BY <1>1, <2>3, <2>4
<1>4. CASE NextService
  <2>1. loop = "next" /\ failures' = failures
    BY <1>4 DEF NextService, NoFailure
  <2>2. ASSUME NEW i \in items, svc' = i, items' = items \ {i}, loop' = "get" PROVE ListSound' /\ SuppTypeOK'
    BY <1>0, <1>2, <2>1, <2>2 DEF ListSound, Busy, SuppTypeOK, Listing
  <2>3. ASSUME items = {}, items' = items, loop' = "list" PROVE ListSound' /\ SuppTypeOK'
    BY <1>0, <1>2, <2>1, <2>3 DEF ListSound, Busy, SuppTypeOK, Listing
  <2> QED  BY <1>1, <1>4, <2>2, <2>3 DEF NextService
<1>5. CASE GetService \/ GetMonitor
  <2>1. /\ items' = items /\ svc' = svc /\ failures' \in 0..MaxFailures
        /\ Busy /\ loop' \in {"create", "update", "getMonitor", "createMonitor", "next"}
        /\ loop' = "create" => prom[svc.name] = None
    BY <1>5 DEF GetService, GetMonitor, NoFailure, Fail, Busy
  <2>2. ListSound'
    BY <1>0, <1>2, <2>1 DEF ListSound, Busy
  <2>3. SuppTypeOK'
    BY <1>0, <2>1 DEF SuppTypeOK, Busy
  <2> QED  BY <1>1, <2>2, <2>3
<1>6. CASE Die
  <2>1. items' = {} /\ loop' = "list" /\ failures' \in 0..MaxFailures
    BY <1>6 DEF Die, Fail
  <2> QED  BY <1>0, <1>1, <2>1 DEF ListSound, Busy, SuppTypeOK
<1> QED  BY <1>3, <1>4, <1>5, <1>6

\* The calls that write: what is written is the listed service at hand.
LEMMA SuppWrites ==
  ASSUME SuppIInv, OperateService \/ CreateServiceMonitor
  PROVE  SuppIInv'
<1> USE SuppTyped, SuppAssumed DEF SuppIInv
<1>1. /\ ksvc' = ksvc /\ created' = created /\ items' = items /\ svc' = svc
      /\ failures' \in 0..MaxFailures /\ Busy /\ loop' \in {"getMonitor", "next"}
  BY SuppAssumed DEF OperateService, CreateServiceMonitor, NoFailure, Fail, Busy
<1>2. svc \in Listing /\ svc.name \in Services /\ svc.uid \in 1..MaxCreations /\ svc.latest \in 0..MaxReady
  BY <1>1 DEF ListSound, Listing
<1>3. /\ prom' \in {prom, [prom EXCEPT ![svc.name] = [owner |-> svc.uid, app |-> svc.latest]]}
      /\ monitor' \in {monitor, [monitor EXCEPT ![svc.name] = svc.uid]}
  BY SuppAssumed DEF OperateService, CreateServiceMonitor
<1>4. \A s \in Services : s # svc.name => prom'[s] = prom[s]
  BY <1>3
<1>5. \/ prom'[svc.name] = prom[svc.name]
      \/ prom'[svc.name].owner = svc.uid /\ prom'[svc.name].app = svc.latest
  <2>1. svc.name \in DOMAIN prom
    BY <1>2
  <2>2. CASE prom' = [prom EXCEPT ![svc.name] = [owner |-> svc.uid, app |-> svc.latest]]
    <3>1. prom'[svc.name] = [owner |-> svc.uid, app |-> svc.latest]
      BY <2>1, <2>2, Zenon
    <3> QED  BY <3>1
  <2>3. CASE prom' = prom
    <3>1. prom'[svc.name] = prom[svc.name]
      BY <2>3
    <3> QED  BY <3>1, Zenon
  <2> QED  BY <1>3, <2>2, <2>3, Zenon
<1>6. SuppTypeOK'
  <2>1. [owner |-> svc.uid, app |-> svc.latest] \in [owner : 0..MaxCreations, app : 0..MaxReady] /\ svc.uid \in 0..MaxCreations
    BY <1>2
  <2>2. /\ prom' \in [Services -> [owner : 0..MaxCreations, app : 0..MaxReady]]
        /\ monitor' \in [Services -> 0..MaxCreations]
    BY <1>2, <1>3, <2>1 DEF SuppTypeOK
  <2> QED  BY <1>1, <2>2 DEF SuppTypeOK, Busy
<1>7. SelectorSound'
  BY <1>1, <1>2, <1>4, <1>5 DEF SelectorSound, ListSound, NoOlder
<1>8. NoOlder(svc)'
  BY <1>1, <1>2, <1>5 DEF ListSound, NoOlder
<1>9. ASSUME NEW i \in items PROVE NoOlder(i)'
  BY <1>1, <1>4 DEF ListSound, NoOlder, Listing
<1>10. ListSound'
  BY <1>1, <1>8, <1>9 DEF ListSound, Busy
<1> QED  BY <1>6, <1>7, <1>10

\* The cluster: a new service has a UID of its own, a revision that becomes ready is newer.
LEMMA SuppCluster ==
  ASSUME SuppIInv, NEW s \in Services,
         CreateKsvc(s) \/ DeleteKsvc(s) \/ RevisionReady(s) \/ Collect(s)
  PROVE  SuppIInv'
<1> USE SuppTyped, SuppAssumed DEF SuppIInv
<1>1. loop' = loop /\ items' = items /\ svc' = svc /\ failures' = failures
  BY SuppAssumed DEF CreateKsvc, DeleteKsvc, RevisionReady, Collect, LoopStays
<1>2. /\ \A t \in Services \ {s} : ksvc'[t] = ksvc[t] /\ created'[t] = created[t] /\ prom'[t] = prom[t]
      /\ created'[s] \in {created[s], created[s] + 1}
      /\ prom'[s] \in {prom[s], None}
      /\ \/ ksvc'[s].uid = created[s] + 1 /\ created'[s] = created[s] + 1 /\ ksvc'[s].latest = 0 /\ prom'[s] = prom[s]
         \/ created'[s] = created[s] /\ ksvc'[s].uid = 0 /\ ksvc'[s].latest = 0 /\ prom'[s] = prom[s]
         \/ created'[s] = created[s] /\ ksvc'[s].uid = ksvc[s].uid /\ ksvc[s].uid > 0 /\ ksvc'[s].latest = ksvc[s].latest + 1 /\ prom'[s] = prom[s]
         \/ created'[s] = created[s] /\ ksvc'[s] = ksvc[s]
  BY SuppAssumed DEF CreateKsvc, DeleteKsvc, RevisionReady, Collect
<1>3. SuppTypeOK'
  <2>1. CASE CreateKsvc(s)
    BY <1>1, <2>1 DEF SuppTypeOK, CreateKsvc
  <2>2. CASE DeleteKsvc(s)
    BY <1>1, <2>2 DEF SuppTypeOK, DeleteKsvc
  <2>3. CASE RevisionReady(s)
    BY <1>1, <2>3 DEF SuppTypeOK, RevisionReady
  <2>4. CASE Collect(s)
    <3>1. None \in [owner : 0..MaxCreations, app : 0..MaxReady] /\ 0 \in 0..MaxCreations
      BY SuppAssumed DEF None
    <3>2. /\ prom' \in [Services -> [owner : 0..MaxCreations, app : 0..MaxReady]]
          /\ monitor' \in [Services -> 0..MaxCreations]
      BY <2>4, <3>1 DEF SuppTypeOK, Collect
    <3> QED  BY <1>1, <2>4, <3>2 DEF SuppTypeOK, Collect
  <2> QED  BY <2>1, <2>2, <2>3, <2>4
<1>4. SelectorSound'
  BY <1>2 DEF SelectorSound, None
<1>5. ASSUME NEW i \in Listing, NoOlder(i) PROVE NoOlder(i)'
  <2>1. i.name \in Services /\ i.uid \in 1..MaxCreations /\ i.latest \in 0..MaxReady
    BY SuppAssumed DEF Listing
  <2>2. CASE i.name # s
    BY <1>2, <1>5, <2>1, <2>2 DEF NoOlder
  <2>3. CASE i.name = s
    <3>1. i.uid <= created'[s]
      BY <1>2, <1>5, <2>1, <2>3 DEF NoOlder
    <3>2. i.uid = ksvc'[s].uid => i.latest <= ksvc'[s].latest
      BY <1>2, <1>5, <2>1, <2>3 DEF NoOlder
    <3>3. i.uid = prom'[s].owner => prom'[s].app <= i.latest
      BY <1>2, <1>5, <2>1, <2>3 DEF NoOlder, None
    <3> QED  BY <2>3, <3>1, <3>2, <3>3, Zenon DEF NoOlder
  <2> QED  BY <2>2, <2>3
<1>6. ListSound'
  BY <1>1, <1>2, <1>5 DEF ListSound, Busy, None, Listing
<1> QED  BY <1>3, <1>4, <1>6

\* Every step of Promsupp and of the cluster keeps the invariant.
LEMMA SuppStep ==
  ASSUME SuppIInv, [SuppNext]_suppVars
  PROVE  SuppIInv'
<1>1. CASE RunLoop \/ Die
  <2>1. CASE OperateService \/ CreateServiceMonitor
    BY <2>1, SuppWrites
  <2>2. CASE ListServices \/ NextService \/ GetService \/ GetMonitor \/ Die
    <3>1. objects' = objects
      BY <2>2 DEF ListServices, NextService, GetService, GetMonitor, Die
    <3> QED  BY <2>2, <3>1, SuppReads
  <2> QED  BY <1>1, <2>1, <2>2 DEF RunLoop
<1>2. CASE \E s \in Services :
              CreateKsvc(s) \/ DeleteKsvc(s) \/ RevisionReady(s) \/ Collect(s)
  BY <1>2, SuppCluster
<1>3. CASE UNCHANGED suppVars
  BY <1>3 DEF suppVars, objects, SuppIInv, SuppTypeOK, ListSound, SelectorSound,
              NoOlder, Busy
<1> QED  BY <1>1, <1>2, <1>3 DEF SuppNext

\* So the list in hand is never older than what was written, whatever comes and goes.
LEMMA SuppInvariance == SuppSpec => []SuppIInv
<1>1. SuppInit => SuppIInv
  BY SuppInitEstablishes
<1>2. SuppIInv /\ [SuppNext]_suppVars => SuppIInv'
  BY SuppStep
<1> QED  BY <1>1, <1>2, PTL DEF SuppSpec

\* Every variable of Promsupp keeps its type, for any bounds.
THEOREM SuppTypeCorrect == SuppSpec => []SuppTypeOK
<1>1. SuppIInv => SuppTypeOK
  BY SuppAssumed DEF SuppIInv
<1> QED  BY <1>1, SuppInvariance, PTL

\* A selector never goes back to an older revision of its service and never names one that
\* is not ready, however late the unconditional Update of Promsupp's operateService comes.
THEOREM SelectorsFollow == SuppSpec => SelectorFollows
<1>1. ASSUME SuppIInv, SuppIInv', [SuppNext]_suppVars, NEW s \in Services
      PROVE  /\ prom'[s].owner \in {0, prom[s].owner} /\ prom'[s] # None => prom'[s].app >= prom[s].app
             /\ prom'[s].owner = ksvc'[s].uid => prom'[s].app <= ksvc'[s].latest
  <2>1. prom'[s].owner = ksvc'[s].uid => prom'[s].app <= ksvc'[s].latest
    BY <1>1 DEF SuppIInv, SelectorSound
  <2>2. CASE prom'[s] = prom[s]
    BY <1>1, <2>1, <2>2, SuppTyped DEF SuppIInv
  <2>3. CASE prom'[s] = None
    BY <1>1, <2>1, <2>3, SuppTyped DEF SuppIInv, None
  <2>4. CASE OperateService /\ s = svc.name /\ prom' = [prom EXCEPT ![svc.name] = [owner |-> svc.uid, app |-> svc.latest]]
    <3>1. prom'[s].owner = svc.uid /\ prom'[s].app = svc.latest
      BY <1>1, <2>4, SuppTyped DEF SuppIInv
    <3>2. /\ svc.uid \in 1..MaxCreations
          /\ svc.uid = prom[s].owner => prom[s].app <= svc.latest
          /\ loop \in {"create", "update"}
      BY <1>1, <2>4 DEF SuppIInv, ListSound, Busy, OperateService, Listing, NoOlder
    <3>3. loop = "create" => prom[s].owner = 0
      BY <1>1, <2>4 DEF SuppIInv, ListSound, None
    <3>4. prom[s].owner \in 0..MaxCreations /\ prom[s].app \in 0..MaxReady /\ svc.latest \in 0..MaxReady
      BY <1>1, <2>4, SuppTyped DEF SuppIInv, ListSound, Busy, OperateService, Listing
    <3>5. MaxReady \in Nat /\ MaxCreations \in Nat
      BY SuppBounds
    <3>6. prom'[s].owner \in {0, prom[s].owner} => prom'[s].app >= prom[s].app
      BY <3>1, <3>2, <3>3, <3>4, <3>5
    <3> QED  BY <2>1, <3>6, Zenon
  <2> QED
    BY <1>1, <2>2, <2>3, <2>4, SuppTyped
    DEF SuppIInv, SuppNext, suppVars, objects, RunLoop, Die, ListServices, NextService,
        GetService, OperateService, GetMonitor, CreateServiceMonitor, CreateKsvc,
        DeleteKsvc, RevisionReady, Collect
<1>2. SuppIInv /\ SuppIInv' /\ [SuppNext]_suppVars =>
        [\A s \in Services :
           /\ prom'[s].owner \in {0, prom[s].owner} /\ prom'[s] # None => prom'[s].app >= prom[s].app
           /\ prom'[s].owner = ksvc'[s].uid => prom'[s].app <= ksvc'[s].latest]_suppVars
  BY <1>1
<1> QED  BY <1>2, SuppInvariance, PTL DEF SuppSpec, SelectorFollows
=============================================================================
