----------------------------- MODULE AgentQueue -----------------------------
(***************************************************************************)
(* The agent's collect-and-send loop with its offline queue file, the HTTP *)
(* requests it repeats over an unreliable network, and the idempotent      *)
(* ingestion of POST /ingest/metrics.  A sample is the number of the       *)
(* interval it was measured in, which is also the order of its timestamps. *)
(***************************************************************************)
EXTENDS Naturals, FiniteSets, Sequences, Functions

CONSTANTS
  MaxQueue,      \* config.max_queue_size
  MaxBatch,      \* max_length of IngestMetricsRequest.samples (HTTP 422 beyond)
  Attempts,      \* attempts of send_metrics
  MaxSamples,    \* bound: intervals
  MaxFailures    \* bound: lost messages, timeouts, error answers, failed reads and writes, crashes

ASSUME QueueAssumption ==
  /\ MaxQueue \in Nat \ {0}     \* with 0 the drain below panics on an empty file
  /\ MaxBatch \in Nat
  /\ Attempts \in Nat \ {0}
  /\ MaxSamples \in Nat
  /\ MaxFailures \in Nat

Samples == 1..MaxSamples

VARIABLES
  taken,      \* number of the last interval measured
  file,       \* what queue.json parses to: the samples saved, oldest first; survives crashes
  batch,      \* samples of the current iteration, in memory
  pc,         \* where the loop is: "tick", "send", "await", "clear", "save"
  attempt,    \* attempt of send_metrics that is running
  net,        \* requests on their way: [samples, try]
  answer,     \* the answer to the running attempt: "none", "ok" or "error"
  stored,     \* samples committed in the table metrics
  failures,   \* failures so far
  setbacks,   \* history: crashes and failed writes of the queue file so far
  misread     \* history: the last interval in which the queue file was taken for empty

agent == <<taken, file, batch, pc, attempt>>
vars == <<agent, net, answer, stored, failures, setbacks, misread>>

Ordered(s) == \A i, j \in DOMAIN s : i < j => s[i] < s[j]

TypeOK ==
  /\ taken \in 0..MaxSamples
  /\ file \in Seq(Samples) /\ batch \in Seq(Samples)
  /\ pc \in {"tick", "send", "await", "clear", "save"}
  /\ attempt \in 1..Attempts
  /\ \A r \in net : r.samples \in Seq(Samples) /\ r.try \in 1..Attempts
  /\ answer \in {"none", "ok", "error"}
  /\ stored \subseteq Samples
  /\ failures \in 0..MaxFailures
  /\ setbacks \in 0..MaxFailures
  /\ misread \in 0..taken

Init ==
  /\ taken = 0
  /\ file = <<>> /\ batch = <<>>
  /\ pc = "tick"
  /\ attempt = 1
  /\ net = {}
  /\ answer = "none"
  /\ stored = {}
  /\ failures = 0
  /\ setbacks = 0
  /\ misread = 0

\* Whatever can go wrong does so MaxFailures times at most.
Fails == failures < MaxFailures /\ failures' = failures + 1

-----------------------------------------------------------------------------
\* Mutant of Loaded: one sample too many is left after the drain.
LoadedOneTooMany == IF Len(file) > MaxQueue
                    THEN SubSeq(file, Len(file) - MaxQueue + 1, Len(file))
                    ELSE file

\* Mutant of Loaded: the overflow is taken from the recent end.
LoadedOldest == IF Len(file) >= MaxQueue THEN SubSeq(file, 1, MaxQueue - 1) ELSE file

\* The queue as loaded, without the oldest samples that exceed its capacity.
Loaded == IF Len(file) >= MaxQueue
          THEN SubSeq(file, Len(file) - MaxQueue + 2, Len(file))
          ELSE file

\* queue::load turns every error into an empty queue: the file cannot be read this time,
\* or its content does not parse, now and until it is replaced.
LoadFails ==
  /\ file # <<>>
  /\ Fails
  /\ file' \in {file, <<>>}
  /\ misread' = taken + 1

\* An iteration begins: measure, load the queue file, drop the overflow, append.
Collect ==
  /\ pc = "tick"
  /\ taken < MaxSamples
  /\ taken' = taken + 1
  /\ \/ batch' = Append(Loaded, taken + 1) /\ UNCHANGED <<file, failures, misread>>
     \/ batch' = <<taken + 1>> /\ LoadFails
  /\ attempt' = 1
  /\ pc' = "send"
  /\ UNCHANGED <<net, answer, stored, setbacks>>

\* One POST /ingest/metrics of the whole batch.
Post ==
  /\ pc = "send"
  /\ net' = net \cup {[samples |-> batch, try |-> attempt]}
  /\ answer' = "none"
  /\ pc' = "await"
  /\ UNCHANGED <<taken, file, batch, attempt, stored, failures, setbacks, misread>>

\* A 2xx answer: send_metrics returns Ok.
Acknowledged ==
  /\ pc = "await" /\ answer = "ok"
  /\ pc' = "clear"
  /\ UNCHANGED <<taken, file, batch, attempt, net, answer, stored, failures, setbacks, misread>>

\* Mutant of RetryOrSave: one attempt too many.
RetryOnceMore ==
  IF attempt <= Attempts
  THEN attempt' = attempt + 1 /\ pc' = "send"
  ELSE UNCHANGED attempt /\ pc' = "save"

\* Mutant of RetryOrSave: when the attempts are over the queue is emptied.
RetryOrClear ==
  IF attempt < Attempts
  THEN attempt' = attempt + 1 /\ pc' = "send"
  ELSE UNCHANGED attempt /\ pc' = "clear"

\* After a refusal, an error or 15 s: wait and try again, or give up and save.
RetryOrSave ==
  IF attempt < Attempts
  THEN attempt' = attempt + 1 /\ pc' = "send"
  ELSE UNCHANGED attempt /\ pc' = "save"

Refused ==
  /\ pc = "await" /\ answer = "error"
  /\ RetryOrSave
  /\ answer' = "none"
  /\ UNCHANGED <<taken, file, batch, net, stored, failures, setbacks, misread>>

Running == [samples |-> batch, try |-> attempt]

\* Nothing will answer the running attempt any more: the client gives it up.
Unanswered ==
  /\ pc = "await" /\ answer = "none" /\ Running \notin net
  /\ RetryOrSave
  /\ UNCHANGED <<taken, file, batch, net, answer, stored, failures, setbacks, misread>>

\* The request or its answer is late: the client stops waiting for it.
TimedOut ==
  /\ pc = "await" /\ (answer # "none" \/ Running \in net)
  /\ Fails
  /\ RetryOrSave
  /\ answer' = "none"
  /\ UNCHANGED <<taken, file, batch, net, stored, setbacks, misread>>

NextIteration == batch' = <<>> /\ answer' = "none" /\ attempt' = 1 /\ pc' = "tick"

\* queue::clear removes the file; its error is ignored.
Clear ==
  /\ pc = "clear"
  /\ \/ file' = <<>> /\ UNCHANGED <<failures, setbacks>>
     \/ Fails /\ setbacks' = setbacks + 1 /\ UNCHANGED file
  /\ NextIteration
  /\ UNCHANGED <<taken, net, stored, misread>>

\* queue::save replaces the file by a rename; its error is only logged.
Save ==
  /\ pc = "save"
  /\ \/ file' = batch /\ UNCHANGED <<failures, setbacks>>
     \/ Fails /\ setbacks' = setbacks + 1 /\ UNCHANGED file
  /\ NextIteration
  /\ UNCHANGED <<taken, net, stored, misread>>

\* The process dies and restarts: what is not in the file is forgotten.
Crash ==
  /\ pc # "tick"
  /\ Fails
  /\ setbacks' = setbacks + 1
  /\ NextIteration
  /\ UNCHANGED <<taken, file, net, stored, misread>>

-----------------------------------------------------------------------------
\* The answer reaches the agent only if the attempt it answers is still running.
Answer(r, a) == answer' = IF pc = "await" /\ r = Running THEN a ELSE answer

\* Mutant of Serve: a plain INSERT; one known sample fails the whole batch.
ServeWithoutOnConflict(r) ==
  /\ r \in net
  /\ Len(r.samples) <= MaxBatch
  /\ net' = net \ {r}
  /\ IF Range(r.samples) \cap stored = {}
     THEN stored' = stored \cup Range(r.samples) /\ Answer(r, "ok")
     ELSE UNCHANGED stored /\ Answer(r, "error")
  /\ UNCHANGED <<agent, failures, setbacks, misread>>

\* The API takes a request, whenever it arrives and whoever still waits for it:
\* INSERT ... ON CONFLICT DO NOTHING of the whole batch.  What follows the commit
\* (alerting, anomalies, the way back of the answer) may still fail.
Serve(r) ==
  /\ r \in net
  /\ Len(r.samples) <= MaxBatch
  /\ net' = net \ {r}
  /\ stored' = stored \cup Range(r.samples)
  /\ \/ Answer(r, "ok") /\ UNCHANGED failures
     \/ \E a \in {"none", "error"} : Answer(r, a) /\ Fails
  /\ UNCHANGED <<agent, setbacks, misread>>

\* Nothing is stored: more samples than the schema allows (422, every time), an
\* error before the commit (401, 500, 503), or the request does not arrive.
Refuse(r) ==
  /\ r \in net
  /\ IF Len(r.samples) > MaxBatch THEN UNCHANGED failures ELSE Fails
  /\ net' = net \ {r}
  /\ \E a \in {"none", "error"} : Answer(r, a)
  /\ UNCHANGED <<agent, stored, setbacks, misread>>

-----------------------------------------------------------------------------
AgentStep == Collect \/ Post \/ Acknowledged \/ Refused \/ Unanswered \/ Clear \/ Save
NetworkStep == \E r \in net : Serve(r) \/ Refuse(r)

Next == AgentStep \/ TimedOut \/ Crash \/ NetworkStep

Spec == Init /\ [][Next]_vars

\* The loop goes on, and a request under way is eventually served or lost.
FairSpec == Spec /\ WF_vars(AgentStep) /\ WF_vars(NetworkStep)

-----------------------------------------------------------------------------
(* Properties.                                                             *)

\* The samples that the agent still answers for.
Kept == Range(file) \cup Range(batch)

\* The queue file and the batch hold each sample once, oldest first, and never
\* more than max_queue_size of them, whatever was retried or interrupted.
QueueInOrder ==
  /\ Ordered(file) /\ Len(file) <= MaxQueue
  /\ Ordered(batch) /\ Len(batch) <= MaxQueue

\* An outage shorter than max_queue_size intervals loses nothing but one sample
\* for each crash or failed write of the file, and what was queued when the file was
\* last taken for empty: among the newest max_queue_size samples, those measured
\* since then, no more are neither stored nor kept (main.rs and queue.rs: load,
\* drain, push, save).
ShortOutageLosesNothing ==
  Cardinality({i \in 1..taken : /\ misread <= i /\ i + MaxQueue > taken
                                /\ i \notin stored \cup Kept}) <= setbacks

\* The agent lets a sample go only as SampleDelivery allows.
Delivery == INSTANCE SampleDelivery WITH
  Capacity <- MaxQueue, produced <- taken, kept <- Kept, delivered <- stored, unread <- misread
DeliverySpec == Delivery!SSpec

\* Once nothing fails any more, the next iteration delivers every queued sample
\* that it does not drop as overflow, and takes it out of the file: no batch is
\* rejected for ever and a batch stored before is no obstacle.
QueueDrains ==
  \A i \in Samples :
    (failures = MaxFailures /\ pc = "tick" /\ taken < MaxSamples /\ i \in Range(Loaded))
      ~> (i \in stored /\ i \notin Range(file))
=============================================================================
