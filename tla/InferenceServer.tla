--------------------------- MODULE InferenceServer ---------------------------
(***************************************************************************)
(* The inference server (Inference/server.py): handlers put requests into  *)
(* a queue and poll a map for the answer until they time out; one thread   *)
(* takes what is queued in batches, runs the model and files the answers.  *)
(*                                                                         *)
(* The thread keeps its variable result from one batch to the next.  When  *)
(* the model raises, the except clause walks the result of the batch       *)
(* before, or finds the name unbound and ends the thread.  Request ids are *)
(* drawn at random; two equal ones are not modelled, so a request is its   *)
(* own id.                                                                 *)
(***************************************************************************)
EXTENDS Sequences, Naturals, FiniteSets, Functions

CONSTANTS
    Requests,
    Inputs,          \* the requests that have "inputs"
    MAX_BATCH_SIZE,
    Faults,          \* what may raise: "model" (the pipeline), "tokens" (the count after it)
    Error,           \* the answer {"error": ...}
    NoAnswer,
    MaxExits         \* bound: SIGTERMs

ASSUME RequestsAssumption ==
    Inputs \subseteq Requests /\ Error \notin Requests /\ NoAnswer \notin Requests \cup {Error}
ASSUME BoundsAssumption == MAX_BATCH_SIZE \in Nat \ {0} /\ MaxExits \in Nat

VARIABLES
    http,          \* http[r]: how far the handler of r is
    answer,        \* answer[r]: what r was answered; a request stands for its own text
    input_queue,
    output_queue,  \* output_queue[r]: the answer filed for r, or NoAnswer
    worker,        \* the batching thread: where it is, its batch, the next index
    result,        \* the answers of the last call of the model, <<>> while unbound
    gauge,         \* mean_time_per_token: "zero" or "positive"
    exits,
    \* History variable, read by properties only.
    skipped        \* the requests of failed batches that the except clause left out

vars == <<http, answer, input_queue, output_queue, worker, result, gauge, exits, skipped>>

Waiting == [at |-> "wait", batch |-> <<>>, next |-> 1]

Init ==
    /\ http = [r \in Requests |-> "new"]
    /\ answer = [r \in Requests |-> NoAnswer]
    /\ input_queue = <<>>
    /\ output_queue = [r \in Requests |-> NoAnswer]
    /\ worker = Waiting
    /\ result = <<>>
    /\ gauge = "zero"
    /\ exits = 0
    /\ skipped = {}

-----------------------------------------------------------------------------
(* predict, one thread per request *)

\* Faulty variant: the last request comes first (a LifoQueue).
PredictAtFront(r) ==
    /\ http[r] = "new"
    /\ IF r \in Inputs
       THEN /\ http' = [http EXCEPT ![r] = "polling"]
            /\ input_queue' = <<r>> \o input_queue
       ELSE /\ http' = [http EXCEPT ![r] = "rejected"]
            /\ input_queue' = input_queue
    /\ UNCHANGED <<answer, output_queue, worker, result, gauge, exits, skipped>>

\* A request without inputs is answered with an error at once.
Predict(r) ==
    /\ http[r] = "new"
    /\ IF r \in Inputs
       THEN /\ http' = [http EXCEPT ![r] = "polling"]
            /\ input_queue' = Append(input_queue, r)
       ELSE /\ http' = [http EXCEPT ![r] = "rejected"]
            /\ input_queue' = input_queue
    /\ UNCHANGED <<answer, output_queue, worker, result, gauge, exits, skipped>>

\* Faulty variant: the answer is read and stays in the map.
AnswerKeeps(r) ==
    /\ http[r] = "polling"
    /\ output_queue[r] # NoAnswer
    /\ http' = [http EXCEPT ![r] = "answered"]
    /\ answer' = [answer EXCEPT ![r] = output_queue[r]]
    /\ UNCHANGED <<input_queue, output_queue, worker, result, gauge, exits, skipped>>

Answer(r) ==
    /\ http[r] = "polling"
    /\ output_queue[r] # NoAnswer
    /\ http' = [http EXCEPT ![r] = "answered"]
    /\ answer' = [answer EXCEPT ![r] = output_queue[r]]
    /\ output_queue' = [output_queue EXCEPT ![r] = NoAnswer]
    /\ UNCHANGED <<input_queue, worker, result, gauge, exits, skipped>>

\* The handler has slept for the last time; an answer filed since is not seen.
TimeOut(r) ==
    /\ http[r] = "polling"
    /\ http' = [http EXCEPT ![r] = "timedOut"]
    /\ UNCHANGED <<answer, input_queue, output_queue, worker, result, gauge, exits, skipped>>

-----------------------------------------------------------------------------
(* process_queue *)

BatchSize == IF Len(input_queue) < MAX_BATCH_SIZE THEN Len(input_queue) ELSE MAX_BATCH_SIZE

\* Faulty variant: the queue is emptied, whatever the size of the batch.
TakeBatchEmptiesQueue ==
    /\ worker.at = "wait"
    /\ input_queue # <<>>
    /\ worker' = [at |-> "model", batch |-> SubSeq(input_queue, 1, BatchSize), next |-> 1]
    /\ input_queue' = <<>>
    /\ UNCHANGED <<http, answer, output_queue, result, gauge, exits, skipped>>

\* The thread is the only reader of the queue, so the size it has read is there.
TakeBatch ==
    /\ worker.at = "wait"
    /\ input_queue # <<>>
    /\ worker' = [at |-> "model", batch |-> SubSeq(input_queue, 1, BatchSize), next |-> 1]
    /\ input_queue' = SubSeq(input_queue, BatchSize + 1, Len(input_queue))
    /\ UNCHANGED <<http, answer, output_queue, result, gauge, exits, skipped>>

\* Faulty variant: the gauge keeps the time of the last batch.
IdleKeepsGauge ==
    /\ worker.at = "wait"
    /\ input_queue = <<>>
    /\ UNCHANGED vars

Idle ==
    /\ worker.at = "wait"
    /\ input_queue = <<>>
    /\ gauge' = "zero"
    /\ UNCHANGED <<http, answer, input_queue, output_queue, worker, result, exits, skipped>>

\* The model answers every text of the batch, in order.
ModelAnswers ==
    /\ worker.at = "model"
    /\ result' = worker.batch
    /\ worker' = [worker EXCEPT !.at = "file"]
    /\ gauge' = "positive"
    /\ UNCHANGED <<http, answer, input_queue, output_queue, exits, skipped>>

\* Counting the tokens raises (there may be none to divide by); the answers exist.
TokensRaise ==
    /\ worker.at = "model"
    /\ "tokens" \in Faults
    /\ result' = worker.batch
    /\ worker' = [worker EXCEPT !.at = "except"]
    /\ UNCHANGED <<http, answer, input_queue, output_queue, gauge, exits, skipped>>

\* Faulty variant: what an earlier batch left in result is filed.
ModelRaisesFiles ==
    /\ worker.at = "model"
    /\ "model" \in Faults
    /\ worker' = [worker EXCEPT !.at = IF result = <<>> THEN "dead" ELSE "file"]
    /\ UNCHANGED <<http, answer, input_queue, output_queue, result, gauge, exits, skipped>>

\* The pipeline raises: result is unbound, which ends the thread, or old.
ModelRaises ==
    /\ worker.at = "model"
    /\ "model" \in Faults
    /\ worker' = [worker EXCEPT !.at = IF result = <<>> THEN "dead" ELSE "except"]
    /\ UNCHANGED <<http, answer, input_queue, output_queue, result, gauge, exits, skipped>>

\* Both loops walk result and index the batch with its positions, and after the
\* last one the thread sleeps again.
Filed(a) ==
    /\ output_queue' = [output_queue EXCEPT ![worker.batch[worker.next]] = a]
    /\ worker' = IF worker.next < Len(result) THEN [worker EXCEPT !.next = @ + 1] ELSE Waiting
    /\ skipped' = IF worker.next < Len(result) THEN skipped
                  ELSE skipped \cup {worker.batch[i] : i \in worker.next + 1..Len(worker.batch)}
    /\ UNCHANGED <<http, answer, input_queue, result, gauge, exits>>

\* Faulty variant: the first answer of the batch is filed for every request of it.
FileAnswerFirst ==
    /\ worker.at = "file"
    /\ Filed(result[1])

FileAnswer ==
    /\ worker.at = "file"
    /\ Filed(result[worker.next])

FileError ==
    /\ worker.at = "except"
    /\ worker.next <= Len(worker.batch)
    /\ Filed(Error)

\* The old result is longer than the batch: the except clause raises itself, and
\* nothing catches that.
ThreadDies ==
    /\ worker.at = "except"
    /\ worker.next > Len(worker.batch)
    /\ worker' = [worker EXCEPT !.at = "dead"]
    /\ UNCHANGED <<http, answer, input_queue, output_queue, result, gauge, exits, skipped>>

Process ==
    \/ TakeBatch \/ Idle
    \/ ModelAnswers \/ TokensRaise \/ ModelRaises
    \/ FileAnswer \/ FileError \/ ThreadDies

-----------------------------------------------------------------------------
\* SIGTERM: os._exit breaks the connections, and a new process starts empty.
Exit ==
    /\ exits < MaxExits
    /\ exits' = exits + 1
    /\ http' = [r \in Requests |-> IF http[r] = "polling" THEN "broken" ELSE http[r]]
    /\ input_queue' = <<>>
    /\ output_queue' = [r \in Requests |-> NoAnswer]
    /\ worker' = Waiting
    /\ result' = <<>>
    /\ gauge' = "zero"
    /\ UNCHANGED <<answer, skipped>>

Next ==
    \/ \E r \in Requests : Predict(r) \/ Answer(r) \/ TimeOut(r)
    \/ Process
    \/ Exit

Spec == Init /\ [][Next]_vars

\* The interpreter runs every thread, and a call of the model returns or raises.
\* No handler need ever time out.
Fairness ==
    /\ WF_vars(Process)
    /\ \A r \in Requests : WF_vars(Answer(r))

FairSpec == Spec /\ Fairness

-----------------------------------------------------------------------------
(* Properties *)

\* The requests the thread has taken and filed nothing for.
InBatch == {worker.batch[i] : i \in worker.next..Len(worker.batch)}

Workers == [at : {"wait", "model", "file", "except", "dead"}, batch : Seq(Inputs), next : Nat \ {0}]

TypeOK ==
    /\ http \in [Requests -> {"new", "polling", "rejected", "answered", "timedOut", "broken"}]
    /\ answer \in [Requests -> Requests \cup {Error, NoAnswer}]
    /\ input_queue \in Seq(Inputs)
    /\ output_queue \in [Requests -> Requests \cup {Error, NoAnswer}]
    /\ worker \in Workers
    /\ result \in Seq(Inputs)
    /\ gauge \in {"zero", "positive"}
    /\ exits \in 0..MaxExits
    /\ skipped \subseteq Inputs

\* A request is answered with its own text or with the error of its own batch:
\* answers of another request, of an earlier batch or of a process that is gone
\* never reach it, whatever fails and however late the answer is.
OwnAnswer == \A r \in Requests : answer[r] \in {NoAnswer, Error, r}

\* What makes OwnAnswer inductive: what is filed is right already, and while
\* answers are filed result is that of the batch at hand.
FiledRight ==
    /\ \A r \in Requests : output_queue[r] \in {NoAnswer, Error, r}
    /\ worker.at = "model" => worker.next = 1
    /\ worker.at \in {"model", "file", "except"} => worker.batch # <<>>
    /\ worker.at = "file" => result = worker.batch /\ worker.next <= Len(result)

IInv == TypeOK /\ OwnAnswer /\ FiledRight

Places(r) ==
    <<r \in Range(input_queue), r \in InBatch, output_queue[r] # NoAnswer, r \in skipped>>

\* A handler that polls has its request in one place: the queue, the batch, the
\* map, or among those a failed batch left out.  What has been answered is in none,
\* so only timed out requests leave answers behind.
OnePlace ==
    /\ \A r \in Range(input_queue) \cup InBatch \cup {q \in Requests : output_queue[q] # NoAnswer} :
          http[r] \in {"polling", "timedOut"}
    /\ \A r \in Requests : http[r] = "polling" => Cardinality({i \in 1..4 : Places(r)[i]}) = 1
    /\ IsInjective(input_queue)

\* What makes OnePlace inductive: a batch has no request twice, none is left over
\* when the thread waits, and what was left out is not new.
PlacedOnce ==
    /\ OnePlace
    /\ IsInjective(worker.batch)
    /\ worker.at = "wait" => worker.batch = <<>>
    /\ \A r \in skipped : http[r] # "new"

\* What the clients see of the server: see InferencePromise.  The line is what the
\* thread has left of its batch, and the queue behind it.
Line == SubSeq(worker.batch, worker.next, Len(worker.batch)) \o input_queue
Promise == INSTANCE InferencePromise WITH
    state <- http, line <- Line, ready <- output_queue

PromiseSpec == Promise!Spec

\* A request is answered unless its handler gives up, its batch fails after a
\* shorter one, or the thread is dead: timed out handlers and late answers do not
\* hold up the others.
PolledIsAnswered ==
    \A r \in Inputs : (http[r] = "polling") ~>
        (http[r] \in {"answered", "timedOut", "broken"} \/ r \in skipped \/ worker.at = "dead")

\* With nothing left to do the gauge mean_time_per_token, which the server exports for
\* Prometheus, returns to zero, unless the thread is dead, which leaves the last value
\* standing.
GaugeReturnsToZero == <>[](worker.at = "dead" \/ gauge = "zero")
=============================================================================
