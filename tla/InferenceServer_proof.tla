------------------------ MODULE InferenceServer_proof ------------------------
(***************************************************************************)
(* Proofs about InferenceServer: type correctness and OwnAnswer, from the  *)
(* inductive invariant IInv, OnePlace, from PlacedOnce, and from both that *)
(* the server keeps what InferencePromise promises.                        *)
(***************************************************************************)
EXTENDS InferenceServer, SequenceTheorems, FiniteSetTheorems, TLAPS

\* The parts of TypeOK that the steps of the thread need.
LEMMA Typed ==
  ASSUME IInv
  PROVE  /\ input_queue \in Seq(Inputs) /\ result \in Seq(Inputs)
         /\ worker.batch \in Seq(Inputs) /\ worker.next \in Nat \ {0}
         /\ Len(result) \in Nat /\ Len(worker.batch) \in Nat
         /\ http \in [Requests -> {"new", "polling", "rejected", "answered", "timedOut", "broken"}]
         /\ output_queue \in [Requests -> Requests \cup {Error, NoAnswer}]
         /\ worker \in Workers /\ skipped \subseteq Inputs
<1>1. /\ input_queue \in Seq(Inputs) /\ result \in Seq(Inputs) /\ worker \in Workers
      /\ http \in [Requests -> {"new", "polling", "rejected", "answered", "timedOut", "broken"}]
      /\ output_queue \in [Requests -> Requests \cup {Error, NoAnswer}] /\ skipped \subseteq Inputs
  BY DEF IInv, TypeOK
<1>2. worker.batch \in Seq(Inputs) /\ worker.next \in Nat \ {0}
  BY <1>1 DEF Workers
<1>3. Len(result) \in Nat /\ Len(worker.batch) \in Nat
  BY <1>1, <1>2
<1> QED  BY <1>1, <1>2, <1>3

\* The server starts in the invariant.
LEMMA InitEstablishes == Init => IInv
  BY RequestsAssumption, BoundsAssumption
  DEF Init, IInv, TypeOK, Workers, OwnAnswer, FiledRight, Waiting

\* Filing an answer keeps the invariant, when the answer is that of the request
\* it is filed for.
LEMMA FiledPreserves ==
  ASSUME IInv, NEW a \in Requests \cup {Error}, Filed(a),
         worker.at \in {"file", "except"},
         worker.next \in 1..Len(worker.batch),
         a \in {Error, worker.batch[worker.next]}
  PROVE  IInv'
<1> DEFINE b == worker.batch[worker.next]
<1>1. b \in Inputs /\ b \in Requests
  <2>1. worker.batch \in Seq(Inputs)
    BY Typed
  <2> QED  BY <2>1, RequestsAssumption
<1>2. /\ output_queue' = [output_queue EXCEPT ![b] = a]
      /\ UNCHANGED <<http, answer, input_queue, result, gauge, exits>>
  BY DEF Filed
<1>3. output_queue' \in [Requests -> Requests \cup {Error, NoAnswer}]
  BY <1>1, <1>2, Typed
<1>4. worker' \in Workers /\ (\/ worker'.at = "wait"
                              \/ /\ worker'.at = worker.at /\ worker'.batch = worker.batch
                                 /\ worker'.next <= Len(result))
  <2>1. CASE worker.next < Len(result)
    <3>1. worker' = [worker EXCEPT !.next = worker.next + 1]
      BY <2>1 DEF Filed
    <3> QED  BY <2>1, <3>1, Typed DEF Workers
  <2>2. CASE ~(worker.next < Len(result))
    BY <2>2 DEF Filed, Waiting, Workers
  <2> QED  BY <2>1, <2>2
<1>5. skipped' \subseteq Inputs
  <2>1. {worker.batch[i] : i \in worker.next + 1..Len(worker.batch)} \subseteq Inputs
    BY Typed
  <2> QED  BY <2>1, Typed DEF Filed
<1>6. TypeOK'
  BY <1>2, <1>3, <1>4, <1>5 DEF IInv, TypeOK
<1>7. OwnAnswer'
  BY <1>2 DEF IInv, OwnAnswer
<1>8. FiledRight'
  <2>1. \A r \in Requests : output_queue'[r] \in {NoAnswer, Error, r}
    <3>1. \A r \in Requests : output_queue[r] \in {NoAnswer, Error, r}
      BY DEF IInv, FiledRight
    <3> QED  BY <1>1, <1>2, <3>1, Typed
  <2> QED  BY <1>2, <1>4, <2>1 DEF IInv, FiledRight
<1> QED  BY <1>6, <1>7, <1>8 DEF IInv

\* Every step of the server keeps the invariant.
LEMMA NextPreserves == IInv /\ [Next]_vars => IInv'
<1> SUFFICES ASSUME IInv, [Next]_vars PROVE IInv'
  OBVIOUS
<1> USE RequestsAssumption, BoundsAssumption
<1>1. ASSUME NEW r \in Requests, Predict(r) PROVE IInv'
  <2>1. input_queue' \in Seq(Inputs)
    <3>1. CASE r \in Inputs
      <4>1. input_queue' = Append(input_queue, r)
        BY <1>1, <3>1 DEF Predict
      <4> QED  BY <3>1, <4>1, Typed
    <3> QED  BY <1>1, <3>1, Typed DEF Predict
  <2>2. http' \in [Requests -> {"new", "polling", "rejected", "answered", "timedOut", "broken"}]
    BY <1>1, Typed DEF Predict
  <2> QED  BY <1>1, <2>1, <2>2 DEF Predict, IInv, TypeOK, OwnAnswer, FiledRight
<1>2. ASSUME NEW r \in Requests, Answer(r) PROVE IInv'
  BY <1>2 DEF Answer, IInv, TypeOK, OwnAnswer, FiledRight
<1>3. ASSUME NEW r \in Requests, TimeOut(r) PROVE IInv'
  BY <1>3 DEF TimeOut, IInv, TypeOK, OwnAnswer, FiledRight
<1>4. CASE TakeBatch
  <2>0. Len(input_queue) \in Nat \ {0}
    BY <1>4, Typed DEF TakeBatch
  <2>1. BatchSize \in 1..Len(input_queue)
    BY <2>0 DEF BatchSize
  <2>2. /\ SubSeq(input_queue, 1, BatchSize) \in Seq(Inputs)
        /\ SubSeq(input_queue, 1, BatchSize) # <<>>
        /\ SubSeq(input_queue, BatchSize + 1, Len(input_queue)) \in Seq(Inputs)
    <3> DEFINE n == Len(input_queue)
               size == BatchSize
    <3>1. \A i \in 1..n : input_queue[i] \in Inputs
      BY Typed
    <3>2. n \in Int /\ size \in Int /\ size + 1 \in Int /\ 1 \in Int /\ 1 <= size /\ size <= n
      BY <2>0, <2>1
    <3> HIDE DEF n, size
    <3>3. SubSeq(input_queue, 1, size) \in Seq(Inputs) /\ Len(SubSeq(input_queue, 1, size)) = size
      BY <3>1, <3>2, SubSeqProperties
    <3>4. SubSeq(input_queue, size + 1, n) \in Seq(Inputs)
      BY <3>1, <3>2, SubSeqProperties
    <3>5. SubSeq(input_queue, 1, size) # <<>>
      <4>1. Len(<<>>) = 0
        OBVIOUS
      <4>2. Len(SubSeq(input_queue, 1, size)) # 0
        BY <3>2, <3>3
      <4> QED  BY <4>1, <4>2, Zenon
    <3> QED  BY <3>3, <3>4, <3>5 DEF n, size
  <2>3. worker' \in Workers /\ worker'.at = "model" /\ worker'.next = 1 /\ worker'.batch # <<>>
    BY <1>4, <2>2 DEF TakeBatch, Workers
  <2>4. input_queue' \in Seq(Inputs)
    BY <1>4, <2>2 DEF TakeBatch
  <2> QED  BY <1>4, <2>3, <2>4 DEF TakeBatch, IInv, TypeOK, OwnAnswer, FiledRight
<1>5. CASE Idle
  BY <1>5 DEF Idle, IInv, TypeOK, OwnAnswer, FiledRight
<1>6. CASE ModelAnswers \/ TokensRaise
  <2>1. worker' \in Workers /\ worker'.batch = worker.batch /\ worker'.next = worker.next
        /\ worker'.at \in {"file", "except"}
    BY <1>6, Typed DEF ModelAnswers, TokensRaise, Workers
  <2>2. worker.batch # <<>> /\ worker.next = 1
    BY <1>6 DEF ModelAnswers, TokensRaise, IInv, FiledRight
  <2>3. worker.next <= Len(worker.batch)
    BY <2>2, Typed
  <2>4. result' = worker.batch /\ result' \in Seq(Inputs)
    BY <1>6, Typed DEF ModelAnswers, TokensRaise
  <2> QED
    BY <1>6, <2>1, <2>2, <2>3, <2>4 DEF ModelAnswers, TokensRaise, IInv, TypeOK, OwnAnswer, FiledRight
<1>7. CASE ModelRaises
  <2>1. worker' \in Workers /\ worker'.batch = worker.batch /\ worker'.at \in {"dead", "except"}
    BY <1>7, Typed DEF ModelRaises, Workers
  <2>2. worker.batch # <<>>
    BY <1>7 DEF ModelRaises, IInv, FiledRight
  <2> QED  BY <1>7, <2>1, <2>2 DEF ModelRaises, IInv, TypeOK, OwnAnswer, FiledRight
<1>8. CASE FileAnswer
  <2>1. worker.at = "file" /\ Filed(result[worker.next])
    BY <1>8 DEF FileAnswer
  <2>2. result = worker.batch /\ worker.next <= Len(result)
    BY <2>1 DEF IInv, FiledRight
  <2>3. worker.next \in 1..Len(worker.batch) /\ result[worker.next] \in Requests
    BY <2>2, Typed
  <2> QED  BY <2>1, <2>2, <2>3, FiledPreserves
<1>9. CASE FileError
  <2>1. worker.at = "except" /\ Filed(Error) /\ worker.next <= Len(worker.batch)
    BY <1>9 DEF FileError
  <2>2. worker.next \in 1..Len(worker.batch)
    BY <2>1, Typed
  <2> QED  BY <2>1, <2>2, FiledPreserves
<1>10. CASE ThreadDies
  <2>1. worker' \in Workers /\ worker'.at = "dead"
    BY <1>10, Typed DEF ThreadDies, Workers
  <2> QED  BY <1>10, <2>1 DEF ThreadDies, IInv, TypeOK, OwnAnswer, FiledRight
<1>11. CASE Exit
  <2>1. exits' \in 0..MaxExits
    BY <1>11 DEF Exit, IInv, TypeOK
  <2>2. http' \in [Requests -> {"new", "polling", "rejected", "answered", "timedOut", "broken"}]
    BY <1>11, Typed DEF Exit
  <2>3. worker' \in Workers /\ worker'.at = "wait"
    BY <1>11 DEF Exit, Waiting, Workers
  <2> QED  BY <1>11, <2>1, <2>2, <2>3 DEF Exit, IInv, TypeOK, OwnAnswer, FiledRight
<1>12. CASE UNCHANGED vars
  BY <1>12 DEF vars, IInv, TypeOK, OwnAnswer, FiledRight
<1> QED
  BY <1>1, <1>2, <1>3, <1>4, <1>5, <1>6, <1>7, <1>8, <1>9, <1>10, <1>11, <1>12 DEF Next, Process

\* The variables of the server keep their types.
THEOREM TypeCorrect == Spec => []TypeOK
<1>1. IInv => TypeOK
  BY DEF IInv
<1> QED  BY InitEstablishes, NextPreserves, <1>1, PTL DEF Spec

\* No request is answered with the text of another one, for any number of
\* requests, any batch size and any pattern of failures (process_queue).
THEOREM AnswersAreOwn == Spec => []OwnAnswer
<1>1. IInv => OwnAnswer
  BY DEF IInv
<1> QED  BY InitEstablishes, NextPreserves, <1>1, PTL DEF Spec

-----------------------------------------------------------------------------
(* Where a request is *)

Mapped == {r \in Requests : output_queue[r] # NoAnswer}

OneOf(a, b, c, d) ==
  /\ a \/ b \/ c \/ d
  /\ ~(a /\ b) /\ ~(a /\ c) /\ ~(a /\ d) /\ ~(b /\ c) /\ ~(b /\ d) /\ ~(c /\ d)

\* One of four, counted or told apart.
LEMMA OneByCount ==
  ASSUME NEW S, S \subseteq 1..4
  PROVE  Cardinality(S) = 1 <=> OneOf(1 \in S, 2 \in S, 3 \in S, 4 \in S)
<1>1. S \subseteq {1, 2, 3, 4}
  OBVIOUS
<1>2. IsFiniteSet(S)
  <2>1. IsFiniteSet(1..4)
    <3>1. 1 \in Int /\ 4 \in Int
      OBVIOUS
    <3> QED  BY <3>1, FS_Interval, Zenon
  <2> QED  BY <2>1, FS_Subset
<1>3. Cardinality(S) = 1 <=> \E x : S = {x}
  BY <1>2, FS_Singleton
<1>4. ASSUME NEW x, S = {x} PROVE OneOf(1 \in S, 2 \in S, 3 \in S, 4 \in S)
  BY <1>1, <1>4 DEF OneOf
<1>5. ASSUME OneOf(1 \in S, 2 \in S, 3 \in S, 4 \in S) PROVE \E x : S = {x}
  <2>1. S = {1} \/ S = {2} \/ S = {3} \/ S = {4}
    BY <1>1, <1>5 DEF OneOf
  <2> QED  BY <2>1
<1> QED  BY <1>3, <1>4, <1>5

\* The places of a request by their number.
LEMMA PlaceNumbers ==
  ASSUME NEW a \in BOOLEAN, NEW b \in BOOLEAN, NEW c \in BOOLEAN, NEW d \in BOOLEAN,
         NEW t, t = <<a, b, c, d>>
  PROVE  /\ 1 \in {i \in 1..4 : t[i]} <=> a
         /\ 2 \in {i \in 1..4 : t[i]} <=> b
         /\ 3 \in {i \in 1..4 : t[i]} <=> c
         /\ 4 \in {i \in 1..4 : t[i]} <=> d
<1>1. t[1] = a /\ t[2] = b /\ t[3] = c /\ t[4] = d
  OBVIOUS
<1> QED  BY <1>1

\* OnePlace, request by request.
LEMMA PlaceOf ==
  ASSUME OnePlace
  PROVE  /\ \A r \in Range(input_queue) \cup InBatch \cup Mapped : http[r] \in {"polling", "timedOut"}
         /\ \A r \in Requests : http[r] = "polling" =>
               OneOf(r \in Range(input_queue), r \in InBatch, r \in Mapped, r \in skipped)
         /\ IsInjective(input_queue)
<1>1. ASSUME NEW r \in Requests, http[r] = "polling"
      PROVE  OneOf(r \in Range(input_queue), r \in InBatch, r \in Mapped, r \in skipped)
  <2> DEFINE S == {i \in 1..4 : Places(r)[i]}
  <2>1. Cardinality(S) = 1 /\ S \subseteq 1..4
    BY <1>1 DEF OnePlace
  <2>2. /\ 1 \in S <=> r \in Range(input_queue)
        /\ 2 \in S <=> r \in InBatch
        /\ 3 \in S <=> output_queue[r] # NoAnswer
        /\ 4 \in S <=> r \in skipped
    <3>1. PICK a \in BOOLEAN, b \in BOOLEAN, c \in BOOLEAN, d \in BOOLEAN :
             /\ a <=> r \in Range(input_queue)
             /\ b <=> r \in InBatch
             /\ c <=> output_queue[r] # NoAnswer
             /\ d <=> r \in skipped
      OBVIOUS
    <3>2. Places(r) = <<a, b, c, d>>
      BY <3>1 DEF Places
    <3> QED  BY <3>1, <3>2, PlaceNumbers
  <2> HIDE DEF S
  <2>3. OneOf(1 \in S, 2 \in S, 3 \in S, 4 \in S)
    BY <2>1, OneByCount
  <2> QED  BY <2>2, <2>3 DEF Mapped, OneOf
<1> QED  BY <1>1 DEF OnePlace, Mapped

LEMMA PlaceAfter ==
  ASSUME \A r \in Range(input_queue') \cup InBatch' \cup Mapped' : http'[r] \in {"polling", "timedOut"},
         \A r \in Requests : http'[r] = "polling" =>
            OneOf(r \in Range(input_queue'), r \in InBatch', r \in Mapped', r \in skipped'),
         IsInjective(input_queue')
  PROVE  OnePlace'
<1>1. ASSUME NEW r \in Requests, http'[r] = "polling"
      PROVE  Cardinality({i \in 1..4 : Places(r)'[i]}) = 1
  <2> DEFINE S == {i \in 1..4 : Places(r)'[i]}
  <2>1. S \subseteq 1..4
    OBVIOUS
  <2>2. /\ 1 \in S <=> r \in Range(input_queue')
        /\ 2 \in S <=> r \in InBatch'
        /\ 3 \in S <=> output_queue'[r] # NoAnswer
        /\ 4 \in S <=> r \in skipped'
    <3>1. PICK a \in BOOLEAN, b \in BOOLEAN, c \in BOOLEAN, d \in BOOLEAN :
             /\ a <=> r \in Range(input_queue')
             /\ b <=> r \in InBatch'
             /\ c <=> output_queue'[r] # NoAnswer
             /\ d <=> r \in skipped'
      OBVIOUS
    <3>2. Places(r)' = <<a, b, c, d>>
      BY <3>1 DEF Places
    <3> QED  BY <3>1, <3>2, PlaceNumbers
  <2> HIDE DEF S
  <2>3. OneOf(1 \in S, 2 \in S, 3 \in S, 4 \in S)
    BY <1>1, <2>2 DEF Mapped, OneOf
  <2>4. Cardinality(S) = 1
    BY <2>1, <2>3, OneByCount
  <2> QED  BY <2>4 DEF S
<1> QED  BY <1>1 DEF OnePlace, Mapped

\* What is queued, and queued last.
LEMMA Queued ==
  ASSUME NEW S, NEW seq \in Seq(S), NEW e \in S
  PROVE  /\ Range(Append(seq, e)) = Range(seq) \cup {e}
         /\ IsInjective(seq) /\ e \notin Range(seq) => IsInjective(Append(seq, e))
<1> DEFINE a == Append(seq, e)
<1>1. /\ Len(seq) \in Nat /\ DOMAIN seq = 1..Len(seq) /\ DOMAIN a = 1..Len(seq) + 1
      /\ \A i \in 1..Len(seq) : a[i] = seq[i]
      /\ a[Len(seq) + 1] = e
  BY AppendProperties
<1> HIDE DEF a
<1>2. DOMAIN a = DOMAIN seq \cup {Len(seq) + 1}
  BY <1>1
<1>3. \A i \in DOMAIN seq : a[i] = seq[i]
  BY <1>1
<1>4. Range(a) = Range(seq) \cup {e}
  BY <1>1, <1>2, <1>3 DEF Range
<1>5. ASSUME IsInjective(seq), e \notin Range(seq) PROVE IsInjective(a)
  <2>1. \A i \in DOMAIN seq : a[i] # e
    BY <1>3, <1>5 DEF Range
  <2> QED  BY <1>1, <1>2, <1>3, <1>5, <2>1 DEF IsInjective
<1> QED  BY <1>4, <1>5 DEF a

\* A queue without repetitions, cut in two.
LEMMA Cut ==
  ASSUME NEW S, NEW seq \in Seq(S), IsInjective(seq), NEW k \in 1..Len(seq)
  PROVE  LET first == SubSeq(seq, 1, k)
             rest == SubSeq(seq, k + 1, Len(seq))
         IN  /\ first \in Seq(S) /\ rest \in Seq(S) /\ Len(first) = k
             /\ IsInjective(first) /\ IsInjective(rest)
             /\ Range(seq) = Range(first) \cup Range(rest) /\ Range(first) \cap Range(rest) = {}
<1> DEFINE n == Len(seq)
           first == SubSeq(seq, 1, k)
           rest == SubSeq(seq, k + 1, n)
<1>1. n \in Nat /\ k \in Nat /\ 1 <= k /\ k <= n /\ DOMAIN seq = 1..n /\ \A i \in 1..n : seq[i] \in S
  OBVIOUS
<1> HIDE DEF n
<1>2. /\ first \in Seq(S) /\ Len(first) = k /\ \A i \in 1..k : first[i] = seq[i]
  <2>1. /\ first \in Seq(S) /\ Len(first) = IF 1 <= k THEN k - 1 + 1 ELSE 0
        /\ \A i \in 1..k - 1 + 1 : first[i] = seq[1 + i - 1]
    BY <1>1, SubSeqProperties
  <2>2. k - 1 + 1 = k /\ \A i \in 1..k : 1 + i - 1 = i
    BY <1>1
  <2> HIDE DEF first
  <2> QED  BY <1>1, <2>1, <2>2
<1>3. /\ rest \in Seq(S) /\ Len(rest) = n - k /\ \A i \in 1..n - k : rest[i] = seq[k + i]
  <2>1. /\ rest \in Seq(S) /\ Len(rest) = IF k + 1 <= n THEN n - (k + 1) + 1 ELSE 0
        /\ \A i \in 1..n - (k + 1) + 1 : rest[i] = seq[k + 1 + i - 1]
    BY <1>1, SubSeqProperties
  <2>2. n - (k + 1) + 1 = n - k /\ \A i \in 1..n - k : k + 1 + i - 1 = k + i
    BY <1>1
  <2>3. ~(k + 1 <= n) => n - k = 0
    BY <1>1
  <2> HIDE DEF rest
  <2> QED  BY <1>1, <2>1, <2>2, <2>3
<1>4. DOMAIN first = 1..k /\ DOMAIN rest = 1..n - k
  BY <1>2, <1>3
<1> HIDE DEF first, rest
<1>5. /\ \A i \in 1..k : i \in 1..n
      /\ \A i \in 1..n - k : k + i \in 1..n /\ \A j \in 1..k : k + i # j
      /\ \A i, j \in 1..n - k : k + i = k + j => i = j
      /\ \A i \in 1..n : i \in 1..k \/ \E j \in 1..n - k : i = k + j
  <2>1. ASSUME NEW i \in 1..n, i \notin 1..k PROVE i - k \in 1..n - k /\ i = k + (i - k)
    BY <1>1, <2>1
  <2>2. \A i \in 1..n : i \in 1..k \/ \E j \in 1..n - k : i = k + j
    BY <2>1
  <2> QED  BY <1>1, <2>2
<1>6. IsInjective(first)
  BY <1>1, <1>2, <1>4, <1>5 DEF IsInjective
<1>7. IsInjective(rest)
  <2> SUFFICES ASSUME NEW i \in 1..n - k, NEW j \in 1..n - k, rest[i] = rest[j] PROVE i = j
    BY <1>4 DEF IsInjective
  <2>1. k + i \in DOMAIN seq /\ k + j \in DOMAIN seq /\ seq[k + i] = seq[k + j]
    BY <1>1, <1>3, <1>5
  <2>2. k + i = k + j
    BY <2>1 DEF IsInjective
  <2> QED  BY <1>1, <2>2
<1>8. Range(first) \cap Range(rest) = {}
  <2> SUFFICES ASSUME NEW i \in 1..k, NEW j \in 1..n - k PROVE first[i] # rest[j]
    BY <1>4 DEF Range
  <2>1. i \in DOMAIN seq /\ k + j \in DOMAIN seq /\ k + j # i
    BY <1>1, <1>5
  <2>2. seq[i] # seq[k + j]
    BY <2>1 DEF IsInjective
  <2> QED  BY <1>2, <1>3, <2>2
<1>9. Range(first) \cup Range(rest) \subseteq Range(seq)
  <2>1. \A i \in 1..k : first[i] \in Range(seq)
    BY <1>1, <1>2, <1>5 DEF Range
  <2>2. \A i \in 1..n - k : rest[i] \in Range(seq)
    BY <1>1, <1>3, <1>5 DEF Range
  <2> QED  BY <1>4, <2>1, <2>2 DEF Range
<1>10. Range(seq) \subseteq Range(first) \cup Range(rest)
  <2> SUFFICES ASSUME NEW i \in 1..n PROVE seq[i] \in Range(first) \cup Range(rest)
    BY <1>1 DEF Range
  <2>1. CASE i \in 1..k
    BY <1>2, <1>4, <2>1 DEF Range
  <2>2. CASE \E j \in 1..n - k : i = k + j
    BY <1>3, <1>4, <2>2 DEF Range
  <2> QED  BY <1>5, <2>1, <2>2
<1> QED  BY <1>2, <1>3, <1>6, <1>7, <1>8, <1>9, <1>10 DEF n, first, rest

\* What the batch still holds when one of its answers is filed.
LEMMA BatchStep ==
  ASSUME IInv, PlacedOnce, worker.next \in 1..Len(worker.batch)
  PROVE  LET b == worker.batch[worker.next]
             rest == {worker.batch[i] : i \in worker.next + 1..Len(worker.batch)}
         IN  /\ b \in Requests /\ b \notin rest
             /\ InBatch = {b} \cup rest
<1> DEFINE batch == worker.batch
           next == worker.next
           n == Len(batch)
<1>1. /\ batch \in Seq(Inputs) /\ next \in Nat /\ n \in Nat /\ next \in 1..n /\ DOMAIN batch = 1..n
      /\ IsInjective(batch)
  BY Typed DEF PlacedOnce
<1>2. batch[next] \in Inputs
  BY <1>1
<1>3. InBatch = {batch[i] : i \in next..n}
  BY DEF InBatch
<1> HIDE DEF batch, next, n
<1>4. next..n = {next} \cup (next + 1..n) /\ \A i \in next + 1..n : i \in 1..n /\ i # next
  BY <1>1
<1>5. batch[next] \notin {batch[i] : i \in next + 1..n}
  BY <1>1, <1>4 DEF IsInjective
<1>6. {batch[i] : i \in next..n} = {batch[next]} \cup {batch[i] : i \in next + 1..n}
  BY <1>4
<1> QED  BY <1>2, <1>3, <1>5, <1>6, RequestsAssumption DEF batch, next, n

\* An answer that is filed takes its request out of the batch, and what a failed batch
\* leaves out is noted.
LEMMA FiledPlaces ==
  ASSUME IInv, PlacedOnce, NEW a \in Requests \cup {Error}, Filed(a),
         worker.at \in {"file", "except"}, worker.next \in 1..Len(worker.batch)
  PROVE  PlacedOnce'
<1> DEFINE b == worker.batch[worker.next]
           rest == {worker.batch[i] : i \in worker.next + 1..Len(worker.batch)}
<1>1. b \in Requests /\ b \notin rest /\ InBatch = {b} \cup rest
  BY BatchStep
<1>2. /\ output_queue' = [output_queue EXCEPT ![b] = a]
      /\ UNCHANGED <<http, input_queue>>
      /\ output_queue \in [Requests -> Requests \cup {Error, NoAnswer}]
      /\ worker \in Workers
  BY Typed DEF Filed
<1>3. Mapped' = Mapped \cup {b}
  <2> HIDE DEF b
  <2>1. a # NoAnswer
    BY RequestsAssumption
  <2> QED  BY <1>1, <1>2, <2>1 DEF Mapped
<1>4. /\ \/ InBatch' = rest /\ skipped' = skipped
         \/ InBatch' = {} /\ skipped' = skipped \cup rest
      /\ IsInjective(worker'.batch) /\ (worker'.at = "wait" => worker'.batch = <<>>)
  <2>1. CASE worker.next < Len(result)
    <3>1. worker' = [worker EXCEPT !.next = worker.next + 1] /\ skipped' = skipped
      BY <2>1 DEF Filed
    <3>2. worker'.next = worker.next + 1 /\ worker'.batch = worker.batch /\ worker'.at = worker.at
      BY <1>2, <3>1 DEF Workers
    <3> QED  BY <3>1, <3>2 DEF InBatch, PlacedOnce
  <2>2. CASE ~(worker.next < Len(result))
    <3>1. worker' = Waiting /\ skipped' = skipped \cup rest
      BY <2>2 DEF Filed
    <3>2. worker'.next = 1 /\ worker'.batch = <<>> /\ Len(<<>>) = 0
      BY <3>1 DEF Waiting
    <3>3. InBatch' = {}
      BY <3>2 DEF InBatch
    <3>4. IsInjective(<<>>)
      BY DEF IsInjective
    <3> QED  BY <3>1, <3>2, <3>3, <3>4
  <2> QED  BY <2>1, <2>2
<1> HIDE DEF b, rest
<1>5. \A r \in Range(input_queue') \cup InBatch' \cup Mapped' : http'[r] \in {"polling", "timedOut"}
  BY <1>1, <1>2, <1>3, <1>4, PlaceOf DEF PlacedOnce
<1>6. \A r \in Requests : http'[r] = "polling" =>
         OneOf(r \in Range(input_queue'), r \in InBatch', r \in Mapped', r \in skipped')
  <2> SUFFICES ASSUME NEW r \in Requests, http'[r] = "polling"
               PROVE  OneOf(r \in Range(input_queue'), r \in InBatch', r \in Mapped', r \in skipped')
    OBVIOUS
  <2>1. OneOf(r \in Range(input_queue), r \in InBatch, r \in Mapped, r \in skipped)
    BY <1>2, PlaceOf DEF PlacedOnce
  <2> QED  BY <1>1, <1>2, <1>3, <1>4, <2>1 DEF OneOf
<1>7. OnePlace'
  BY <1>2, <1>5, <1>6, PlaceOf, PlaceAfter DEF PlacedOnce
<1>8. \A r \in skipped' : http'[r] # "new"
  <2>1. \A r \in rest : http[r] # "new"
    BY <1>1, PlaceOf DEF PlacedOnce
  <2> QED  BY <1>2, <1>4, <2>1 DEF PlacedOnce
<1> QED  BY <1>4, <1>7, <1>8 DEF PlacedOnce

\* Every step keeps the requests of polling handlers in one place each.
LEMMA PlacesPreserved == IInv /\ PlacedOnce /\ [Next]_vars => PlacedOnce'
<1> SUFFICES ASSUME IInv, PlacedOnce, [Next]_vars PROVE PlacedOnce'
  OBVIOUS
<1> USE RequestsAssumption, BoundsAssumption
<1>0. /\ \A r \in Range(input_queue) \cup InBatch \cup Mapped : http[r] \in {"polling", "timedOut"}
      /\ \A r \in Requests : http[r] = "polling" =>
            OneOf(r \in Range(input_queue), r \in InBatch, r \in Mapped, r \in skipped)
      /\ IsInjective(input_queue) /\ IsInjective(worker.batch)
      /\ worker.at = "wait" => worker.batch = <<>>
      /\ \A r \in skipped : http[r] # "new"
  BY PlaceOf DEF PlacedOnce
<1>1. ASSUME NEW r \in Requests, Predict(r) PROVE PlacedOnce'
  <2>0. /\ http[r] = "new" /\ UNCHANGED <<output_queue, worker, skipped>>
        /\ UNCHANGED <<InBatch, Mapped>>
    BY <1>1 DEF Predict, InBatch, Mapped
  <2>1. r \notin Range(input_queue) /\ r \notin InBatch /\ r \notin Mapped /\ r \notin skipped
    BY <1>0, <2>0
  <2>2. CASE r \in Inputs
    <3>1. http' = [http EXCEPT ![r] = "polling"] /\ input_queue' = Append(input_queue, r)
      BY <1>1, <2>2 DEF Predict
    <3>2. Range(input_queue') = Range(input_queue) \cup {r} /\ IsInjective(input_queue')
      BY <1>0, <2>1, <2>2, <3>1, Typed, Queued
    <3>3. \A q \in Range(input_queue') \cup InBatch' \cup Mapped' : http'[q] \in {"polling", "timedOut"}
      BY <1>0, <2>0, <3>1, <3>2, Typed
    <3>4. \A q \in Requests : http'[q] = "polling" =>
             OneOf(q \in Range(input_queue'), q \in InBatch', q \in Mapped', q \in skipped')
      BY <1>0, <2>0, <2>1, <3>1, <3>2, Typed DEF OneOf
    <3>5. OnePlace'
      BY <3>2, <3>3, <3>4, PlaceAfter
    <3> QED  BY <1>0, <2>0, <3>1, <3>5, Typed DEF PlacedOnce
  <2>3. CASE r \notin Inputs
    <3>1. http' = [http EXCEPT ![r] = "rejected"] /\ input_queue' = input_queue
      BY <1>1, <2>3 DEF Predict
    <3>3. \A q \in Range(input_queue') \cup InBatch' \cup Mapped' : http'[q] \in {"polling", "timedOut"}
      BY <1>0, <2>0, <2>1, <3>1, Typed
    <3>4. \A q \in Requests : http'[q] = "polling" =>
             OneOf(q \in Range(input_queue'), q \in InBatch', q \in Mapped', q \in skipped')
      BY <1>0, <2>0, <3>1, Typed
    <3>5. OnePlace'
      BY <1>0, <3>1, <3>3, <3>4, PlaceAfter
    <3> QED  BY <1>0, <2>0, <3>1, <3>5, Typed DEF PlacedOnce
  <2> QED  BY <2>2, <2>3
<1>2. ASSUME NEW r \in Requests, Answer(r) PROVE PlacedOnce'
  <2>0. /\ http[r] = "polling" /\ http' = [http EXCEPT ![r] = "answered"]
        /\ output_queue[r] # NoAnswer /\ output_queue' = [output_queue EXCEPT ![r] = NoAnswer]
        /\ UNCHANGED <<input_queue, worker, skipped>> /\ UNCHANGED InBatch
    BY <1>2 DEF Answer, InBatch
  <2>1. r \in Mapped /\ Mapped' = Mapped \ {r}
    BY <2>0, Typed DEF Mapped
  <2>2. r \notin Range(input_queue) /\ r \notin InBatch
    BY <1>0, <2>0, <2>1 DEF OneOf
  <2>3. \A q \in Range(input_queue') \cup InBatch' \cup Mapped' : http'[q] \in {"polling", "timedOut"}
    BY <1>0, <2>0, <2>1, <2>2, Typed
  <2>4. \A q \in Requests : http'[q] = "polling" =>
           OneOf(q \in Range(input_queue'), q \in InBatch', q \in Mapped', q \in skipped')
    BY <1>0, <2>0, <2>1, Typed DEF OneOf
  <2>5. OnePlace'
    BY <1>0, <2>0, <2>3, <2>4, PlaceAfter
  <2> QED  BY <1>0, <2>0, <2>5, Typed DEF PlacedOnce
<1>3. ASSUME NEW r \in Requests, TimeOut(r) PROVE PlacedOnce'
  <2>0. /\ http[r] = "polling" /\ http' = [http EXCEPT ![r] = "timedOut"]
        /\ UNCHANGED <<input_queue, output_queue, worker, skipped>> /\ UNCHANGED <<InBatch, Mapped>>
    BY <1>3 DEF TimeOut, InBatch, Mapped
  <2>3. \A q \in Range(input_queue') \cup InBatch' \cup Mapped' : http'[q] \in {"polling", "timedOut"}
    BY <1>0, <2>0, Typed
  <2>4. \A q \in Requests : http'[q] = "polling" =>
           OneOf(q \in Range(input_queue'), q \in InBatch', q \in Mapped', q \in skipped')
    BY <1>0, <2>0, Typed
  <2>5. OnePlace'
    BY <1>0, <2>0, <2>3, <2>4, PlaceAfter
  <2> QED  BY <1>0, <2>0, <2>5, Typed DEF PlacedOnce
<1>4. CASE TakeBatch
  <2>0. /\ worker.at = "wait" /\ worker.batch = <<>> /\ Len(input_queue) \in Nat \ {0}
        /\ worker' = [at |-> "model", batch |-> SubSeq(input_queue, 1, BatchSize), next |-> 1]
        /\ input_queue' = SubSeq(input_queue, BatchSize + 1, Len(input_queue))
        /\ UNCHANGED <<http, output_queue, skipped>> /\ UNCHANGED Mapped
    BY <1>0, <1>4, Typed DEF TakeBatch, Mapped
  <2>1. BatchSize \in 1..Len(input_queue)
    BY <2>0 DEF BatchSize
  <2>2. /\ worker'.batch \in Seq(Inputs) /\ IsInjective(worker'.batch) /\ IsInjective(input_queue')
        /\ Range(input_queue) = Range(worker'.batch) \cup Range(input_queue')
        /\ Range(worker'.batch) \cap Range(input_queue') = {}
    BY <1>0, <2>0, <2>1, Typed, Cut
  <2>3. InBatch = {}
    <3>1. Len(worker.batch) = 0
      BY <2>0
    <3>2. worker.next..0 = {}
      BY Typed
    <3> QED  BY <3>1, <3>2 DEF InBatch
  <2>4. InBatch' = Range(worker'.batch)
    <3>1. worker'.next = 1 /\ DOMAIN worker'.batch = 1..Len(worker'.batch)
      BY <2>0, <2>2
    <3> QED  BY <3>1 DEF InBatch, Range
  <2>5. \A q \in Range(input_queue') \cup InBatch' \cup Mapped' : http'[q] \in {"polling", "timedOut"}
    BY <1>0, <2>0, <2>2, <2>4
  <2>6. \A q \in Requests : http'[q] = "polling" =>
           OneOf(q \in Range(input_queue'), q \in InBatch', q \in Mapped', q \in skipped')
    BY <1>0, <2>0, <2>2, <2>3, <2>4 DEF OneOf
  <2>7. OnePlace'
    BY <2>2, <2>5, <2>6, PlaceAfter
  <2> QED  BY <1>0, <2>0, <2>2, <2>7 DEF PlacedOnce
<1>5. ASSUME UNCHANGED <<http, input_queue, output_queue, skipped>>,
             worker'.batch = worker.batch, worker'.next = worker.next,
             worker'.at = "wait" => worker.at = "wait"
      PROVE  PlacedOnce'
  <2>1. UNCHANGED <<InBatch, Mapped>>
    BY <1>5 DEF InBatch, Mapped
  <2>2. \A q \in Range(input_queue') \cup InBatch' \cup Mapped' : http'[q] \in {"polling", "timedOut"}
    BY <1>0, <1>5, <2>1
  <2>3. \A q \in Requests : http'[q] = "polling" =>
           OneOf(q \in Range(input_queue'), q \in InBatch', q \in Mapped', q \in skipped')
    BY <1>0, <1>5, <2>1
  <2>4. OnePlace'
    BY <1>0, <1>5, <2>2, <2>3, PlaceAfter
  <2> QED  BY <1>0, <1>5, <2>4 DEF PlacedOnce
<1>6. CASE Idle \/ UNCHANGED vars
  BY <1>5, <1>6 DEF Idle, vars
<1>7. CASE ModelAnswers \/ TokensRaise \/ ModelRaises \/ ThreadDies
  <2>1. /\ worker'.batch = worker.batch /\ worker'.next = worker.next
        /\ worker'.at \in {"file", "except", "dead"}
    BY <1>7, Typed DEF ModelAnswers, TokensRaise, ModelRaises, ThreadDies, Workers
  <2> QED  BY <1>5, <1>7, <2>1 DEF ModelAnswers, TokensRaise, ModelRaises, ThreadDies
<1>8. CASE FileAnswer
  <2>1. worker.at = "file" /\ Filed(result[worker.next])
    BY <1>8 DEF FileAnswer
  <2>2. result = worker.batch /\ worker.next <= Len(result)
    BY <2>1 DEF IInv, FiledRight
  <2>3. worker.next \in 1..Len(worker.batch) /\ result[worker.next] \in Requests
    BY <2>2, Typed
  <2> QED  BY <2>1, <2>2, <2>3, FiledPlaces
<1>9. CASE FileError
  <2>1. worker.at = "except" /\ Filed(Error) /\ worker.next <= Len(worker.batch)
    BY <1>9 DEF FileError
  <2>2. worker.next \in 1..Len(worker.batch)
    BY <2>1, Typed
  <2> QED  BY <2>1, <2>2, FiledPlaces
<1>10. CASE Exit
  <2>1. /\ http' = [r \in Requests |-> IF http[r] = "polling" THEN "broken" ELSE http[r]]
        /\ input_queue' = <<>> /\ output_queue' = [r \in Requests |-> NoAnswer]
        /\ worker'.at = "wait" /\ worker'.batch = <<>> /\ worker'.next = 1 /\ skipped' = skipped
    BY <1>10 DEF Exit, Waiting
  <2>2. Range(<<>>) = {} /\ IsInjective(<<>>) /\ Len(<<>>) = 0
    BY DEF Range, IsInjective
  <2>3. InBatch' = {}
    BY <2>1, <2>2 DEF InBatch
  <2>4. Mapped' = {}
    BY <2>1 DEF Mapped
  <2>5. \A q \in Requests : http'[q] # "polling"
    BY <2>1
  <2>6. OnePlace'
    BY <2>1, <2>2, <2>3, <2>4, <2>5, PlaceAfter
  <2>7. skipped \subseteq Requests
    BY Typed
  <2> QED  BY <1>0, <2>1, <2>2, <2>6, <2>7 DEF PlacedOnce
<1> QED
  BY <1>1, <1>2, <1>3, <1>4, <1>6, <1>7, <1>8, <1>9, <1>10 DEF Next, Process

LEMMA InitPlaces == Init => PlacedOnce
<1> SUFFICES ASSUME Init PROVE PlacedOnce
  OBVIOUS
<1>1. Range(<<>>) = {} /\ IsInjective(<<>>) /\ Len(<<>>) = 0
  BY DEF Range, IsInjective
<1>2. InBatch = {} /\ input_queue = <<>>
  BY <1>1 DEF Init, InBatch, Waiting
<1>3. OnePlace
  BY <1>1, <1>2 DEF Init, OnePlace
<1> QED  BY <1>1, <1>3 DEF Init, PlacedOnce, Waiting

\* Both invariants together.
LEMMA Invariance == Spec => [](IInv /\ PlacedOnce)
<1>1. IInv /\ PlacedOnce /\ [Next]_vars => IInv' /\ PlacedOnce'
  BY NextPreserves, PlacesPreserved
<1> QED  BY InitEstablishes, InitPlaces, <1>1, PTL DEF Spec

\* Every request a handler polls for is in one place of the server, for any number of
\* requests, any batch size, whatever raises, and across exits of the process: nothing
\* is dropped or doubled between the handlers and the thread.
THEOREM PollsOnePlace == Spec => []OnePlace
<1>1. PlacedOnce => OnePlace
  BY DEF PlacedOnce
<1> QED  BY Invariance, <1>1, PTL

-----------------------------------------------------------------------------
(* The line of InferencePromise *)

\* What is put in front of a sequence is its head.
LEMMA InFront ==
  ASSUME NEW S, NEW x \in S, NEW u \in Seq(S)
  PROVE  /\ <<x>> \o u \in Seq(S) /\ <<x>> \o u # <<>>
         /\ Head(<<x>> \o u) = x /\ Tail(<<x>> \o u) = u
         /\ Len(<<x>> \o u) = Len(u) + 1
<1> DEFINE one == <<x>>
           l == one \o u
<1>1. one \in Seq(S) /\ Len(one) = 1 /\ one[1] = x
  OBVIOUS
<1>2. Len(u) \in Nat
  OBVIOUS
<1> HIDE DEF one
<1>3. l \in Seq(S) /\ Len(l) = 1 + Len(u)
  <2>1. l \in Seq(S) /\ Len(l) = Len(one) + Len(u)
    BY <1>1, ConcatProperties, Zenon
  <2> QED  BY <1>1, <2>1
<1>4. \A i \in 1..1 + Len(u) : l[i] = IF i <= 1 THEN one[i] ELSE u[i - 1]
  <2>1. \A i \in 1..Len(one) + Len(u) : l[i] = IF i <= Len(one) THEN one[i] ELSE u[i - Len(one)]
    BY <1>1, ConcatProperties, Zenon
  <2> HIDE DEF l
  <2> QED  BY <1>1, <2>1
<1> HIDE DEF l
<1>5. l[1] = x /\ \A i \in 1..Len(u) : l[i + 1] = u[i]
  BY <1>1, <1>2, <1>4
<1>6. l # <<>>
  BY <1>2, <1>3
<1>7. Head(l) = x
  BY <1>3, <1>5, <1>6
<1>8. Tail(l) = u
  <2>1. /\ Tail(l) \in Seq(S) /\ Len(Tail(l)) = Len(u)
        /\ \A i \in 1..Len(Tail(l)) : Tail(l)[i] = l[i + 1]
    BY <1>2, <1>3, <1>6, HeadTailProperties
  <2> HIDE DEF l
  <2>2. \A i \in 1..Len(Tail(l)) : Tail(l)[i] = u[i]
    BY <1>5, <2>1
  <2> QED  BY <2>1, <2>2, SeqEqual
<1> QED  BY <1>2, <1>3, <1>6, <1>7, <1>8 DEF l, one

\* What is left of a batch from the i-th request on, and what stands behind it.
Left(b, i, q) == SubSeq(b, i, Len(b)) \o q

\* The line while a batch is under way: its head is the next request of the batch, and
\* what stands behind the batch is the queue.
LEMMA LineOfBatch ==
  ASSUME NEW S, NEW b \in Seq(S), NEW q \in Seq(S), NEW i \in 1..Len(b)
  PROVE  /\ Left(b, i, q) \in Seq(S) /\ Left(b, i, q) # <<>> /\ Head(Left(b, i, q)) = b[i]
         /\ Tail(Left(b, i, q)) = Left(b, i + 1, q)
         /\ Len(Left(b, i, q)) = Len(b) - i + 1 + Len(q)
         /\ SubSeq(Left(b, i, q), Len(b) - i + 2, Len(Left(b, i, q))) = q
<1> DEFINE n == Len(b)
           first == SubSeq(b, i, n)
           rest == SubSeq(b, i + 1, n)
           l == Left(b, i, q)
<1>0. l = first \o q /\ Left(b, i + 1, q) = rest \o q
  BY DEF Left
<1>1. n \in Nat /\ i \in Nat /\ 1 <= i /\ i <= n /\ \A j \in 1..n : b[j] \in S
  OBVIOUS
<1>2. first = <<b[i]>> \o rest
  BY SubSeqRecursiveFirst, <1>1
<1>3. first \in Seq(S) /\ Len(first) = n - i + 1
  <2> HIDE DEF n
  <2>1. \A j \in i..n : b[j] \in S
    BY <1>1
  <2> QED  BY <1>1, <2>1, SubSeqProperties
<1>4. rest \in Seq(S)
  <2> HIDE DEF n
  <2>1. \A j \in i + 1..n : b[j] \in S
    BY <1>1
  <2> QED  BY <1>1, <2>1, SubSeqProperties
<1>5. b[i] \in S /\ <<b[i]>> \in Seq(S)
  BY <1>1
<1>6. Len(q) \in Nat
  OBVIOUS
<1> HIDE DEF n, first, rest, l
<1>7. l = <<b[i]>> \o (rest \o q) /\ rest \o q \in Seq(S)
  BY <1>0, <1>2, <1>4, <1>5, ConcatAssociative, ConcatProperties
<1>8. l \in Seq(S) /\ l # <<>> /\ Head(l) = b[i] /\ Tail(l) = rest \o q
  BY <1>5, <1>7, InFront
<1>9. Len(l) = n - i + 1 + Len(q)
  <2>1. Len(l) = Len(first) + Len(q)
    BY <1>0, <1>3, ConcatProperties, Zenon
  <2> QED  BY <1>3, <2>1
<1>10. SubSeq(l, n - i + 2, Len(l)) = q
  <2>1. CASE q = <<>>
    <3>1. Len(l) < n - i + 2 /\ Len(l) \in Int /\ n - i + 2 \in Int
      BY <1>1, <1>9, <2>1
    <3> QED  BY <2>1, <3>1, SubSeqEmpty
  <2>2. CASE q # <<>>
    <3>1. Len(q) >= 1
      BY <1>6, <2>2, EmptySeq
    <3>2. /\ n - i + 2 \in Len(first) + 1..Len(first) + Len(q)
          /\ Len(l) \in Len(first) + 1..Len(first) + Len(q)
          /\ n - i + 2 - Len(first) = 1 /\ Len(l) - Len(first) = Len(q)
      BY <1>1, <1>3, <1>6, <1>9, <3>1
    <3>3. SubSeq(first \o q, n - i + 2, Len(l)) = SubSeq(q, 1, Len(q))
      <4> DEFINE from == n - i + 2
                 to == Len(l)
      <4>1. from \in Len(first) + 1..Len(first) + Len(q) /\ to \in Len(first) + 1..Len(first) + Len(q)
        BY <3>2, Zenon
      <4>2. from - Len(first) = 1 /\ to - Len(first) = Len(q)
        BY <1>1, <1>3, <1>6, <1>9
      <4> HIDE DEF from, to
      <4>3. SubSeq(first \o q, from, to) = SubSeq(q, from - Len(first), to - Len(first))
        BY <1>3, <4>1, SubSeqOfConcat2, Zenon
      <4>4. SubSeq(first \o q, from, to) = SubSeq(q, 1, Len(q))
        BY <4>2, <4>3, Zenon
      <4> QED  BY <4>4, Zenon DEF from, to
    <3> QED  BY <1>0, <3>3, SubSeqFull
  <2> QED  BY <2>1, <2>2
<1> QED  BY <1>0, <1>8, <1>9, <1>10, Zenon DEF l, n

\* A batch that is used up, or none.
LEMMA LineOfQueue ==
  ASSUME NEW S, NEW b \in Seq(S), NEW q \in Seq(S), NEW i \in Nat, i > Len(b)
  PROVE  Left(b, i, q) = q
<1>1. SubSeq(b, i, Len(b)) = <<>>
  <2>1. Len(b) \in Int /\ i \in Int
    OBVIOUS
  <2> QED  BY <2>1, SubSeqEmpty
<1> QED  BY <1>1, ConcatEmptySeq DEF Left

-----------------------------------------------------------------------------
(* The server keeps the promise of InferencePromise *)

\* The initial states are initial states of the promise.
LEMMA PromiseInit == Init => Promise!Init
<1> SUFFICES ASSUME Init PROVE Promise!Init
  OBVIOUS
<1>1. Line = <<>>
  <2>1. worker.batch = <<>> /\ worker.next = 1 /\ input_queue = <<>> /\ <<>> \in Seq(Inputs) /\ Len(<<>>) = 0
    BY DEF Init, Waiting
  <2> QED  BY <2>1, LineOfQueue DEF Line, Left
<1> QED  BY <1>1 DEF Init, Promise!Init

\* Line, before and after a step.
LEMMA LineIsLeft ==
  /\ Line = Left(worker.batch, worker.next, input_queue)
  /\ Line' = Left(worker'.batch, worker'.next, input_queue')
  BY DEF Line, Left

\* Filing an answer serves the head of the line, and a batch that ends before all of it
\* is answered loses the requests behind that.
LEMMA FiledLine ==
  ASSUME IInv, NEW a, Filed(a), worker.at \in {"file", "except"},
         worker.next \in 1..Len(worker.batch)
  PROVE  /\ Line # <<>> /\ Line \in Seq(Inputs)
         /\ Head(Line) = worker.batch[worker.next]
         /\ output_queue' = [output_queue EXCEPT ![Head(Line)] = a]
         /\ UNCHANGED <<http, answer>>
         /\ \/ Line' = Tail(Line)
            \/ /\ ~(worker.next < Len(result))
               /\ \E lost \in 0..Len(Line) - 1 : Line' = SubSeq(Line, lost + 2, Len(Line))
         /\ ~(worker.next < Len(worker.batch)) => Line' = Tail(Line)
<1>0. /\ worker.batch \in Seq(Inputs) /\ input_queue \in Seq(Inputs) /\ worker.next \in Nat
      /\ Len(worker.batch) \in Nat /\ Len(input_queue) \in Nat /\ worker \in Workers
      /\ Len(result) \in Nat
  BY Typed
<1>1. /\ Line \in Seq(Inputs) /\ Line # <<>> /\ Head(Line) = worker.batch[worker.next]
      /\ Tail(Line) = Left(worker.batch, worker.next + 1, input_queue)
      /\ Len(Line) = Len(worker.batch) - worker.next + 1 + Len(input_queue)
      /\ SubSeq(Line, Len(worker.batch) - worker.next + 2, Len(Line)) = input_queue
  <2> DEFINE b == worker.batch
             q == input_queue
             i == worker.next
  <2>1. b \in Seq(Inputs) /\ q \in Seq(Inputs) /\ i \in 1..Len(b) /\ Line = Left(b, i, q)
    BY <1>0, LineIsLeft
  <2> HIDE DEF b, q, i
  <2>2. /\ Left(b, i, q) \in Seq(Inputs) /\ Left(b, i, q) # <<>> /\ Head(Left(b, i, q)) = b[i]
        /\ Tail(Left(b, i, q)) = Left(b, i + 1, q)
        /\ Len(Left(b, i, q)) = Len(b) - i + 1 + Len(q)
        /\ SubSeq(Left(b, i, q), Len(b) - i + 2, Len(Left(b, i, q))) = q
    BY <2>1, LineOfBatch
  <2> QED  BY <2>1, <2>2, Zenon DEF b, q, i
<1>2. /\ UNCHANGED <<http, answer, input_queue>>
      /\ output_queue' = [output_queue EXCEPT ![worker.batch[worker.next]] = a]
  BY DEF Filed
<1>3. CASE worker.next < Len(result)
  <2>1. worker' = [worker EXCEPT !.next = worker.next + 1]
    BY <1>3 DEF Filed
  <2>2. worker'.batch = worker.batch /\ worker'.next = worker.next + 1
    BY <1>0, <2>1 DEF Workers
  <2>3. Line' = Tail(Line)
    BY <1>1, <1>2, <2>2, LineIsLeft
  <2> QED  BY <1>1, <1>2, <2>3
<1>4. CASE ~(worker.next < Len(result))
  <2>1. worker'.batch = <<>> /\ worker'.next = 1 /\ <<>> \in Seq(Inputs) /\ Len(<<>>) = 0
    BY <1>4 DEF Filed, Waiting
  <2>2. Line' = input_queue
    <3>1. Left(<<>>, 1, input_queue) = input_queue
      <4> DEFINE none == <<>>
      <4>1. none \in Seq(Inputs) /\ 1 > Len(none) /\ 1 \in Nat
        BY <2>1
      <4> HIDE DEF none
      <4>2. Left(none, 1, input_queue) = input_queue
        BY <1>0, <4>1, LineOfQueue
      <4> QED  BY <4>2 DEF none
    <3> QED  BY <1>2, <2>1, <3>1, LineIsLeft
  <2> DEFINE lost == Len(worker.batch) - worker.next
  <2>3. lost \in 0..Len(Line) - 1 /\ lost + 2 = Len(worker.batch) - worker.next + 2
    <3>1. Len(Line) = Len(worker.batch) - worker.next + 1 + Len(input_queue)
      BY <1>1, Zenon
    <3> QED  BY <1>0, <3>1
  <2>4. Line' = SubSeq(Line, lost + 2, Len(Line))
    BY <1>1, <2>2, <2>3
  <2>5. ASSUME ~(worker.next < Len(worker.batch)) PROVE Line' = Tail(Line)
    <3>1. worker.next + 1 \in Nat /\ worker.next + 1 > Len(worker.batch)
      BY <1>0, <2>5
    <3>2. Left(worker.batch, worker.next + 1, input_queue) = input_queue
      BY <1>0, <3>1, LineOfQueue
    <3> QED  BY <1>1, <2>2, <3>2
  <2> HIDE DEF lost
  <2> QED  BY <1>1, <1>2, <1>4, <2>3, <2>4, <2>5
<1> QED  BY <1>3, <1>4

\* Every step of the server is a step of the promise, or none.
LEMMA PromiseStep ==
  ASSUME IInv, PlacedOnce, [Next]_vars
  PROVE  [Promise!Next]_(Promise!promise)
<1>0. /\ worker.batch \in Seq(Inputs) /\ input_queue \in Seq(Inputs) /\ worker.next \in Nat \ {0}
      /\ Len(worker.batch) \in Nat /\ Len(input_queue) \in Nat /\ worker \in Workers
  BY Typed
<1>1. ASSUME NEW r \in Requests, Predict(r) PROVE [Promise!Next]_(Promise!promise)
  <2>1. http[r] = "new" /\ UNCHANGED <<answer, output_queue, worker>>
    BY <1>1 DEF Predict
  <2>2. CASE r \in Inputs
    <3>1. http' = [http EXCEPT ![r] = "polling"] /\ input_queue' = Append(input_queue, r)
      BY <1>1, <2>2 DEF Predict
    <3>2. Line' = Append(Line, r)
      <4> DEFINE rest == SubSeq(worker.batch, worker.next, Len(worker.batch))
      <4>1. rest \in Seq(Inputs)
        <5>1. \A j \in worker.next..Len(worker.batch) : worker.batch[j] \in Inputs
          BY <1>0
        <5> QED  BY <1>0, <5>1, SubSeqProperties
      <4>2. Line' = rest \o Append(input_queue, r) /\ Line = rest \o input_queue
        BY <2>1, <3>1 DEF Line
      <4> HIDE DEF rest
      <4>3. <<r>> \in Seq(Inputs) /\ Line \in Seq(Inputs)
        BY <1>0, <2>2, <4>1, <4>2, ConcatProperties
      <4>4. Append(input_queue, r) = input_queue \o <<r>> /\ Append(Line, r) = Line \o <<r>>
        BY <1>0, <2>2, <4>3, AppendIsConcat
      <4>5. rest \o (input_queue \o <<r>>) = (rest \o input_queue) \o <<r>>
        BY <1>0, <4>1, <4>3, ConcatAssociative
      <4> QED  BY <4>2, <4>4, <4>5
    <3>3. Promise!Accept(r)
      BY <2>1, <2>2, <3>1, <3>2 DEF Promise!Accept
    <3> QED  BY <3>3 DEF Promise!Next
  <2>3. CASE r \notin Inputs
    <3>1. http' = [http EXCEPT ![r] = "rejected"] /\ input_queue' = input_queue
      BY <1>1, <2>3 DEF Predict
    <3>2. Promise!Reject(r)
      BY <2>1, <2>3, <3>1 DEF Promise!Reject, Line
    <3> QED  BY <3>2 DEF Promise!Next
  <2> QED  BY <2>2, <2>3
<1>2. ASSUME NEW r \in Requests, Answer(r) PROVE [Promise!Next]_(Promise!promise)
  <2>1. Promise!Deliver(r)
    BY <1>2 DEF Answer, Promise!Deliver, Line
  <2> QED  BY <2>1 DEF Promise!Next
<1>3. ASSUME NEW r \in Requests, TimeOut(r) PROVE [Promise!Next]_(Promise!promise)
  <2>1. Promise!GiveUp(r)
    BY <1>3 DEF TimeOut, Promise!GiveUp, Line
  <2> QED  BY <2>1 DEF Promise!Next
<1>4. CASE TakeBatch
  <2>0. /\ worker.at = "wait" /\ Len(input_queue) \in Nat \ {0}
        /\ worker' = [at |-> "model", batch |-> SubSeq(input_queue, 1, BatchSize), next |-> 1]
        /\ input_queue' = SubSeq(input_queue, BatchSize + 1, Len(input_queue))
        /\ UNCHANGED <<http, answer, output_queue>>
    BY <1>0, <1>4 DEF TakeBatch
  <2>1. BatchSize \in 1..Len(input_queue)
    BY <2>0, BoundsAssumption DEF BatchSize
  <2>2. Line = input_queue
    <3>1. worker.batch = <<>> /\ worker.next > Len(worker.batch)
      BY <1>0, <2>0 DEF PlacedOnce
    <3> QED  BY <1>0, <3>1, LineOfQueue DEF Line, Left
  <2>3. Line' = input_queue
    <3> DEFINE n == Len(input_queue)
               first == SubSeq(input_queue, 1, BatchSize)
               rest == SubSeq(input_queue, BatchSize + 1, n)
    <3>1. first \in Seq(Inputs)
      <4>1. BatchSize \in Int /\ \A j \in 1..BatchSize : input_queue[j] \in Inputs
        BY <1>0, <2>1
      <4> HIDE DEF first
      <4> QED  BY <4>1, SubSeqProperties DEF first
    <3>2. SubSeq(first, 1, Len(first)) = first
      BY <3>1, SubSeqFull
    <3>3. Line' = first \o rest
      BY <2>0, <3>2 DEF Line
    <3>4. /\ 1 \in 1..n + 1 /\ BatchSize \in 1 - 1..n /\ n \in BatchSize..n
      BY <2>0, <2>1
    <3>5. first \o rest = SubSeq(input_queue, 1, n)
      BY <1>0, <3>4, ConcatAdjacentSubSeq
    <3> QED  BY <1>0, <3>3, <3>5, SubSeqFull
  <2> QED  BY <2>0, <2>2, <2>3 DEF Promise!promise
<1>5. CASE Idle
  BY <1>5 DEF Idle, Line, Promise!promise
<1>6. CASE ModelAnswers \/ TokensRaise \/ ModelRaises \/ ThreadDies
  <2>1. worker'.batch = worker.batch /\ worker'.next = worker.next
    BY <1>0, <1>6 DEF ModelAnswers, TokensRaise, ModelRaises, ThreadDies, Workers
  <2>2. UNCHANGED <<http, answer, input_queue, output_queue>>
    BY <1>6 DEF ModelAnswers, TokensRaise, ModelRaises, ThreadDies
  <2> QED  BY <2>1, <2>2 DEF Line, Promise!promise
<1>7. CASE FileAnswer
  <2>1. worker.at = "file" /\ Filed(result[worker.next])
    BY <1>7 DEF FileAnswer
  <2>2. result = worker.batch /\ worker.next <= Len(result)
    BY <2>1 DEF IInv, FiledRight
  <2>3. worker.next \in 1..Len(worker.batch)
    BY <1>0, <2>2
  <2>4. /\ Line # <<>> /\ Head(Line) = result[worker.next]
        /\ output_queue' = [output_queue EXCEPT ![Head(Line)] = result[worker.next]]
        /\ UNCHANGED <<http, answer>>
        /\ Line' = Tail(Line)
    BY <2>1, <2>2, <2>3, FiledLine
  <2>5. Promise!Serve
    BY <2>4 DEF Promise!Serve
  <2> QED  BY <2>5 DEF Promise!Next
<1>8. CASE FileError
  <2>1. worker.at = "except" /\ Filed(Error) /\ worker.next <= Len(worker.batch)
    BY <1>8 DEF FileError
  <2>2. worker.next \in 1..Len(worker.batch)
    BY <1>0, <2>1
  <2>3. /\ Line # <<>> /\ Line \in Seq(Inputs)
        /\ output_queue' = [output_queue EXCEPT ![Head(Line)] = Error]
        /\ UNCHANGED <<http, answer>>
        /\ \/ Line' = Tail(Line)
           \/ \E lost \in 0..Len(Line) - 1 : Line' = SubSeq(Line, lost + 2, Len(Line))
    BY <2>1, <2>2, FiledLine
  <2>4. Tail(Line) = SubSeq(Line, 0 + 2, Len(Line)) /\ 0 \in 0..Len(Line) - 1
    <3>1. Tail(Line) = SubSeq(Line, 2, Len(Line))
      BY <2>3, TailIsSubSeq
    <3>2. Len(Line) \in Nat /\ Len(Line) # 0
      BY <2>3, EmptySeq
    <3> QED  BY <3>1, <3>2
  <2>5. Promise!Fail
    BY <2>3, <2>4 DEF Promise!Fail
  <2> QED  BY <2>5 DEF Promise!Next
<1>9. CASE Exit
  <2>1. worker'.batch = <<>> /\ worker'.next = 1 /\ input_queue' = <<>> /\ <<>> \in Seq(Inputs) /\ Len(<<>>) = 0
    BY <1>9 DEF Exit, Waiting
  <2>2. Line' = <<>>
    BY <2>1, LineOfQueue DEF Line, Left
  <2>3. Promise!Restart
    BY <1>9, <2>2 DEF Exit, Promise!Restart
  <2> QED  BY <2>3 DEF Promise!Next
<1>10. CASE UNCHANGED vars
  BY <1>10 DEF vars, Line, Promise!promise
<1> QED
  BY <1>1, <1>2, <1>3, <1>4, <1>5, <1>6, <1>7, <1>8, <1>9, <1>10 DEF Next, Process

\* The batches do not show: requests are served in the order they were accepted in, each
\* once, with their own text or an error, and only an error costs other requests, those
\* right behind it, for any batch size, whatever raises and however late a handler polls.
THEOREM KeepsPromise == Spec => PromiseSpec
<1>1. IInv /\ PlacedOnce /\ [Next]_vars => [Promise!Next]_(Promise!promise)
  BY PromiseStep
<1> QED  BY PromiseInit, Invariance, <1>1, PTL DEF Spec, PromiseSpec, Promise!Spec
=============================================================================
