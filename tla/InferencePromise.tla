--------------------------- MODULE InferencePromise ---------------------------
(***************************************************************************)
(* What the inference server promises its clients, without the batches,    *)
(* the two maps and the thread: the requests are served one by one in the  *)
(* order in which they were accepted, each once, with the answer to its    *)
(* own text or with an error; an error may cost some of the requests that  *)
(* stand right behind it.                                                  *)
(***************************************************************************)
EXTENDS Naturals, Sequences

CONSTANTS Requests, Inputs, Error, NoAnswer

VARIABLES
    state,    \* state[r]: "new", "polling", "rejected", "answered", "timedOut" or "broken"
    answer,   \* answer[r]: what r was answered
    line,     \* the accepted requests that are not served, oldest first
    ready     \* ready[r]: the answer that waits for the handler of r, or NoAnswer

promise == <<state, answer, line, ready>>

Init ==
    /\ state = [r \in Requests |-> "new"]
    /\ answer = [r \in Requests |-> NoAnswer]
    /\ line = <<>>
    /\ ready = [r \in Requests |-> NoAnswer]

Accept(r) ==
    /\ state[r] = "new" /\ r \in Inputs
    /\ state' = [state EXCEPT ![r] = "polling"]
    /\ line' = Append(line, r)
    /\ UNCHANGED <<answer, ready>>

Reject(r) ==
    /\ state[r] = "new" /\ r \notin Inputs
    /\ state' = [state EXCEPT ![r] = "rejected"]
    /\ UNCHANGED <<answer, line, ready>>

\* The oldest request is answered with its own text.
Serve ==
    /\ line # <<>>
    /\ ready' = [ready EXCEPT ![Head(line)] = Head(line)]
    /\ line' = Tail(line)
    /\ UNCHANGED <<state, answer>>

\* The oldest request is answered with an error, which may be the last answer of a
\* failed batch.
Fail ==
    /\ line # <<>>
    /\ ready' = [ready EXCEPT ![Head(line)] = Error]
    /\ \E lost \in 0..Len(line) - 1 : line' = SubSeq(line, lost + 2, Len(line))
    /\ UNCHANGED <<state, answer>>

Deliver(r) ==
    /\ state[r] = "polling" /\ ready[r] # NoAnswer
    /\ state' = [state EXCEPT ![r] = "answered"]
    /\ answer' = [answer EXCEPT ![r] = ready[r]]
    /\ ready' = [ready EXCEPT ![r] = NoAnswer]
    /\ UNCHANGED line

GiveUp(r) ==
    /\ state[r] = "polling"
    /\ state' = [state EXCEPT ![r] = "timedOut"]
    /\ UNCHANGED <<answer, line, ready>>

\* A new process: nobody is connected to it, and it has nothing to serve.
Restart ==
    /\ state' = [r \in Requests |-> IF state[r] = "polling" THEN "broken" ELSE state[r]]
    /\ line' = <<>>
    /\ ready' = [r \in Requests |-> NoAnswer]
    /\ UNCHANGED answer

Next ==
    \/ \E r \in Requests : Accept(r) \/ Reject(r) \/ Deliver(r) \/ GiveUp(r)
    \/ Serve \/ Fail
    \/ Restart

Spec == Init /\ [][Next]_promise
=============================================================================
