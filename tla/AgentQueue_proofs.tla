------------------------- MODULE AgentQueue_proofs -------------------------
(***************************************************************************)
(* Proofs about AgentQueue for any capacity of the queue, batch limit,     *)
(* number of attempts, samples and failures: type correctness, order and   *)
(* capacity of the queue, that the agent implements SampleDelivery, and    *)
(* that a short outage loses nothing but one sample for each crash, unless *)
(* the queue file could not be read.                                       *)
(***************************************************************************)
EXTENDS AgentQueue, FiniteSetTheorems, SequenceTheorems, TLAPS

USE QueueAssumption DEF Samples

\* What the loop has in memory while it sends: the queue as loaded, and the
\* sample just measured, which is newer than all of the file; or that sample alone,
\* when the file was taken for empty.
Sending ==
  /\ taken >= 1
  /\ batch = Append(Loaded, taken) \/ (misread = taken /\ batch = <<taken>>)
  /\ \A i \in DOMAIN file : file[i] < taken

QueueInv ==
  /\ setbacks <= failures
  /\ Ordered(file) /\ Len(file) <= MaxQueue
  /\ \A i \in DOMAIN file : file[i] <= taken
  /\ pc = "tick" => batch = <<>>
  /\ pc # "tick" => Sending
  /\ \A r \in net : Range(r.samples) \subseteq 1..taken
  /\ (pc = "await" /\ answer = "ok") \/ pc = "clear" => Range(batch) \subseteq stored

-----------------------------------------------------------------------------
(* The queue as loaded.                                                    *)

\* A full queue loses its first sample when it is loaded, another one nothing.
LEMMA LoadedFacts ==
  ASSUME file \in Seq(Samples), Ordered(file), Len(file) <= MaxQueue
  PROVE  /\ Loaded \in Seq(Samples)
         /\ Len(Loaded) < MaxQueue
         /\ Ordered(Loaded)
         /\ Range(Loaded) \subseteq Range(file)
         /\ Len(file) < MaxQueue => Loaded = file
         /\ Len(file) = MaxQueue => /\ Len(Loaded) = MaxQueue - 1
                                    /\ \A i \in 1..(MaxQueue - 1) : Loaded[i] = file[i + 1]
<1>1. CASE Len(file) < MaxQueue
  BY <1>1 DEF Loaded
<1>2. CASE Len(file) = MaxQueue
  <2>1. Loaded = SubSeq(file, 2, MaxQueue)
    BY <1>2 DEF Loaded
  <2>2. \A i \in 2..MaxQueue : file[i] \in Samples
    BY <1>2
  <2>3. /\ Loaded \in Seq(Samples)
        /\ Len(Loaded) = MaxQueue - 1
        /\ \A i \in 1..(MaxQueue - 1) : Loaded[i] = file[i + 1]
    <3>1. /\ SubSeq(file, 2, MaxQueue) \in Seq(Samples)
          /\ Len(SubSeq(file, 2, MaxQueue)) = IF 2 <= MaxQueue THEN MaxQueue - 2 + 1 ELSE 0
          /\ \A i \in 1..(MaxQueue - 2 + 1) : SubSeq(file, 2, MaxQueue)[i] = file[2 + i - 1]
      BY <2>2, SubSeqProperties
    <3>2. QED BY <2>1, <3>1
  <2>4. /\ DOMAIN Loaded = 1..(MaxQueue - 1) /\ DOMAIN file = 1..MaxQueue
        /\ \A i \in 1..MaxQueue : file[i] \in Nat
    BY <1>2, <2>3
  <2>5. ASSUME NEW i \in 1..(MaxQueue - 1), NEW j \in 1..(MaxQueue - 1), i < j
        PROVE  Loaded[i] < Loaded[j]
    <3>1. i + 1 \in 1..MaxQueue /\ j + 1 \in 1..MaxQueue /\ i + 1 < j + 1
      BY <2>5
    <3>2. file[i + 1] < file[j + 1]
      BY <2>4, <3>1 DEF Ordered
    <3>3. QED BY <2>3, <3>2
  <2>6. Ordered(Loaded)
    BY <2>4, <2>5 DEF Ordered
  <2>7. ASSUME NEW i \in 1..(MaxQueue - 1) PROVE Loaded[i] \in Range(file)
    <3>1. i + 1 \in DOMAIN file
      BY <2>4
    <3>2. QED BY <2>3, <3>1 DEF Range
  <2>8. Range(Loaded) \subseteq Range(file)
    BY <2>4, <2>7 DEF Range
  <2>9. QED BY <1>2, <2>3, <2>6, <2>8
<1>3. QED BY <1>1, <1>2

\* The elements of a sequence that one is appended to.
LEMMA AppendRange ==
  ASSUME NEW s \in Seq(Samples), NEW e
  PROVE  Range(Append(s, e)) = Range(s) \cup {e}
<1>1. /\ DOMAIN s = 1..Len(s) /\ DOMAIN Append(s, e) = 1..(Len(s) + 1)
      /\ \A i \in 1..Len(s) : Append(s, e)[i] = s[i]
      /\ Append(s, e)[Len(s) + 1] = e
  OBVIOUS
<1>2. QED BY <1>1 DEF Range

\* The invariant holds of the queue file and of the batch what it should.
LEMMA BatchFacts ==
  ASSUME TypeOK, QueueInv, pc # "tick"
  PROVE  /\ Ordered(batch) /\ Len(batch) <= MaxQueue
         /\ \A i \in DOMAIN batch : batch[i] <= taken
         /\ Range(batch) \subseteq Range(Loaded) \cup {taken} /\ taken \in Range(batch)
         /\ misread # taken => Range(batch) = Range(Loaded) \cup {taken}
         /\ taken \in Samples
<1>1. /\ Loaded \in Seq(Samples) /\ Len(Loaded) < MaxQueue
      /\ Ordered(Loaded) /\ Range(Loaded) \subseteq Range(file)
  BY LoadedFacts DEF TypeOK, QueueInv
<1>2. /\ batch = Append(Loaded, taken) \/ (misread = taken /\ batch = <<taken>>)
      /\ taken \in Samples /\ \A i \in DOMAIN file : file[i] < taken
  BY DEF QueueInv, Sending, TypeOK
<1>3. \A i \in DOMAIN Loaded : Loaded[i] < taken
  BY <1>1, <1>2 DEF Range
<1>4. CASE batch = Append(Loaded, taken)
  <2>1. Range(batch) = Range(Loaded) \cup {taken}
    BY <1>1, <1>4, AppendRange
  <2>2. /\ Len(batch) = Len(Loaded) + 1
        /\ \A i \in 1..Len(Loaded) : batch[i] = Loaded[i]
        /\ batch[Len(Loaded) + 1] = taken
        /\ DOMAIN batch = 1..(Len(Loaded) + 1)
    BY <1>1, <1>4
  <2>3. /\ Len(Loaded) \in Nat /\ DOMAIN Loaded = 1..Len(Loaded) /\ taken \in Nat
        /\ \A i \in 1..Len(Loaded) : Loaded[i] \in Nat /\ Loaded[i] < taken
    BY <1>1, <1>2, <1>3
  <2>4. Ordered(batch)
    BY <1>1, <2>2, <2>3 DEF Ordered
  <2>5. Len(batch) <= MaxQueue /\ \A i \in DOMAIN batch : batch[i] <= taken
    BY <1>1, <2>2, <2>3
  <2>6. QED BY <1>2, <2>1, <2>4, <2>5
<1>5. CASE misread = taken /\ batch = <<taken>>
  <2>1. DOMAIN batch = 1..1 /\ Len(batch) = 1 /\ batch[1] = taken
    BY <1>5
  <2>2. Range(batch) = {taken}
    BY <2>1 DEF Range
  <2>3. QED BY <1>2, <1>5, <2>1, <2>2 DEF Ordered
<1>6. QED BY <1>2, <1>4, <1>5

-----------------------------------------------------------------------------
(* The invariant is inductive.                                             *)

IInv == TypeOK /\ QueueInv

\* It holds at the start.
LEMMA InitIInv == ASSUME Init PROVE IInv
<1>1. TypeOK
  BY DEF Init, TypeOK
<1>2. QueueInv
  BY DEF Init, QueueInv, Ordered
<1>3. QED BY <1>1, <1>2 DEF IInv

\* The queue as loaded and a sample newer than the file, or that sample alone.
LEMMA CollectFacts ==
  ASSUME IInv, Collect
  PROVE  /\ \/ batch' = Append(Loaded, taken') /\ file' = file /\ misread' = misread
            \/ batch' = <<taken'>> /\ misread' = taken' /\ file' \in {file, <<>>}
         /\ batch' \in Seq(Samples) /\ Loaded \in Seq(Samples)
         /\ taken' = taken + 1 /\ taken' \in Samples /\ taken \in Nat
         /\ failures' \in 0..MaxFailures /\ failures <= failures'
<1>1. Loaded \in Seq(Samples) /\ taken + 1 \in Samples /\ taken \in Nat
  BY LoadedFacts DEF IInv, QueueInv, TypeOK, Collect
<1>2. /\ \/ batch' = Append(Loaded, taken') /\ file' = file /\ misread' = misread
         \/ batch' = <<taken'>> /\ misread' = taken' /\ file' \in {file, <<>>}
      /\ taken' = taken + 1
  BY DEF Collect, LoadFails
<1>3. batch' \in Seq(Samples)
  <2>1. Append(Loaded, taken') \in Seq(Samples)
    BY <1>1, <1>2, AppendProperties
  <2>2. <<taken'>> \in Seq(Samples)
    BY <1>1, <1>2
  <2>3. CASE batch' = <<taken'>>
    BY <2>2, <2>3
  <2>4. CASE batch' = Append(Loaded, taken')
    BY <2>1, <2>4
  <2>5. QED BY <1>2, <2>3, <2>4
<1>4. failures' \in 0..MaxFailures /\ failures <= failures'
  BY DEF Collect, LoadFails, Fails, IInv, TypeOK
<1>5. QED BY <1>1, <1>2, <1>3, <1>4

\* An iteration starts with a batch that ends with a sample newer than the file.
LEMMA CollectIInv == ASSUME IInv, Collect PROVE IInv'
<1>1. /\ \/ batch' = Append(Loaded, taken') /\ file' = file /\ misread' = misread
         \/ batch' = <<taken'>> /\ misread' = taken' /\ file' \in {file, <<>>}
      /\ batch' \in Seq(Samples) /\ taken' = taken + 1 /\ taken' \in Samples /\ taken \in Nat
      /\ failures' \in 0..MaxFailures /\ failures <= failures'
  BY CollectFacts
<1>2. /\ file' \in Seq(Samples) /\ Ordered(file') /\ Len(file') <= MaxQueue
      /\ \A i \in DOMAIN file' : file'[i] < taken'
  <2>1. CASE file' = file
    BY <1>1, <2>1 DEF IInv, QueueInv, TypeOK
  <2>2. CASE file' = <<>>
    BY <2>2 DEF Ordered
  <2>3. QED BY <1>1, <2>1, <2>2
<1>3. TypeOK'
  BY <1>1, <1>2 DEF IInv, TypeOK, Collect
<1>4. Sending'
  BY <1>1, <1>2 DEF Sending, Loaded
<1>5. \A r \in net' : Range(r.samples) \subseteq 1..taken'
  <2>1. net' = net
    BY DEF Collect
  <2>2. 1..taken \subseteq 1..taken'
    BY <1>1
  <2>3. QED BY <2>1, <2>2 DEF IInv, QueueInv
<1>6. QueueInv'
  <2>1. (setbacks <= failures)' /\ pc' = "send"
    BY <1>1 DEF IInv, QueueInv, TypeOK, Collect
  <2>2. \A i \in DOMAIN file' : file'[i] <= taken'
    BY <1>1, <1>2
  <2>3. QED BY <1>2, <1>4, <1>5, <2>1, <2>2 DEF QueueInv, Ordered
<1>7. QED BY <1>3, <1>6 DEF IInv

\* A step of send_metrics keeps the batch and the file as they are.
LEMMA SendIInv ==
  ASSUME IInv, Post \/ Acknowledged \/ Refused \/ Unanswered \/ TimedOut
  PROVE  IInv'
<1>1. /\ UNCHANGED <<taken, file, batch, stored, misread>>
      /\ pc # "tick" /\ pc' \in {"await", "clear", "send", "save"}
      /\ pc' = "await" => answer' = "none"
      /\ pc' = "clear" => pc = "await" /\ answer = "ok"
  BY DEF Post, Acknowledged, Refused, Unanswered, TimedOut, RetryOrSave
<1>2. Sending'
  BY <1>1 DEF IInv, QueueInv, Sending, Loaded
<1>3. net' \subseteq net \cup {[samples |-> batch, try |-> attempt]}
  BY DEF Post, Acknowledged, Refused, Unanswered, TimedOut
<1>4. Range(batch) \subseteq 1..taken
  BY <1>1, BatchFacts DEF IInv, TypeOK, Range
<1>5. \A r \in net' : Range(r.samples) \subseteq 1..taken'
  BY <1>1, <1>3, <1>4 DEF IInv, QueueInv
<1>6. QueueInv'
  <2>1. (setbacks <= failures)'
    BY DEF IInv, QueueInv, TypeOK, Post, Acknowledged, Refused, Unanswered, TimedOut, Fails
  <2>2. QED BY <1>1, <1>2, <1>5, <2>1 DEF IInv, QueueInv, Ordered
<1>7. TypeOK'
  <2>1. attempt' \in 1..Attempts
    BY DEF IInv, TypeOK, Post, Acknowledged, Refused, Unanswered, TimedOut, RetryOrSave
  <2>2. answer' \in {"none", "ok", "error"} /\ failures' \in 0..MaxFailures
        /\ setbacks' \in 0..MaxFailures
    BY DEF IInv, TypeOK, Post, Acknowledged, Refused, Unanswered, TimedOut, Fails
  <2>3. \A r \in net' : r.samples \in Seq(Samples) /\ r.try \in 1..Attempts
    BY <1>3 DEF IInv, TypeOK
  <2>4. QED BY <1>1, <2>1, <2>2, <2>3 DEF IInv, TypeOK
<1>8. QED BY <1>6, <1>7 DEF IInv

\* What ends an iteration: the file is emptied, replaced by the batch or kept.
LEMMA EndIInv == ASSUME IInv, Clear \/ Save \/ Crash PROVE IInv'
<1>1. /\ pc # "tick" /\ pc' = "tick" /\ batch' = <<>> /\ answer' = "none" /\ attempt' = 1
      /\ UNCHANGED <<taken, net, stored, misread>>
      /\ file' = <<>> \/ file' = batch \/ file' = file
  BY DEF Clear, Save, Crash, NextIteration
<1>2. /\ failures' \in 0..MaxFailures
      /\ setbacks' \in Nat /\ setbacks' <= failures'
  BY DEF IInv, TypeOK, QueueInv, Clear, Save, Crash, Fails
<1>3. /\ file' \in Seq(Samples) /\ Ordered(file') /\ Len(file') <= MaxQueue
      /\ \A i \in DOMAIN file' : file'[i] <= taken
  <2>1. CASE file' = <<>>
    BY <2>1 DEF Ordered
  <2>2. CASE file' = batch
    BY <1>1, <2>2, BatchFacts DEF IInv, TypeOK
  <2>3. CASE file' = file
    BY <2>3 DEF IInv, TypeOK, QueueInv
  <2>4. QED BY <1>1, <2>1, <2>2, <2>3
<1>4. TypeOK'
  BY <1>1, <1>2, <1>3 DEF IInv, TypeOK
<1>5. QueueInv'
  BY <1>1, <1>2, <1>3 DEF IInv, QueueInv, Ordered
<1>6. QED BY <1>4, <1>5 DEF IInv

\* An answer of the API is "ok" only for a batch that it has stored.
LEMMA NetworkIInv ==
  ASSUME IInv, NEW r \in net, Serve(r) \/ Refuse(r)
  PROVE  IInv'
<1>1. /\ UNCHANGED agent /\ net' \subseteq net /\ stored \subseteq stored'
      /\ stored' \subseteq stored \cup Range(r.samples)
      /\ setbacks' = setbacks /\ misread' = misread
  BY DEF Serve, Refuse
<1>2. failures' \in 0..MaxFailures /\ failures <= failures'
  BY DEF IInv, TypeOK, Serve, Refuse, Fails
<1>3. answer' \in {"none", "ok", "error"}
  BY DEF IInv, TypeOK, Serve, Refuse, Answer
<1>4. Range(r.samples) \subseteq Samples
  BY DEF IInv, TypeOK, Range
<1>5. answer' = "ok" /\ pc = "await" => Range(batch) \subseteq stored'
  <2>1. CASE answer = "ok"
    BY <1>1, <2>1 DEF IInv, QueueInv
  <2>2. CASE answer # "ok"
    <3> SUFFICES ASSUME answer' = "ok", pc = "await" PROVE Range(batch) \subseteq stored'
      OBVIOUS
    <3>1. r = Running /\ stored' = stored \cup Range(r.samples)
      BY <2>2 DEF Serve, Refuse, Answer
    <3>2. r.samples = batch
      BY <3>1 DEF Running
    <3>3. QED BY <3>1, <3>2
  <2>3. QED BY <2>1, <2>2
<1>6. TypeOK'
  BY <1>1, <1>2, <1>3, <1>4 DEF IInv, TypeOK, agent
<1>7. Sending' <=> Sending
  BY <1>1 DEF Sending, agent, Loaded
<1>8. QueueInv'
  <2>1. (setbacks <= failures)'
    BY <1>1, <1>2 DEF IInv, QueueInv, TypeOK
  <2>2. QED BY <1>1, <1>5, <1>7, <2>1 DEF IInv, QueueInv, agent, Ordered
<1>9. QED BY <1>6, <1>8 DEF IInv

\* Every step keeps the invariant.
LEMMA NextIInv == ASSUME IInv, [Next]_vars PROVE IInv'
<1>1. CASE AgentStep \/ TimedOut \/ Crash
  BY <1>1, CollectIInv, SendIInv, EndIInv DEF AgentStep
<1>2. CASE NetworkStep
  BY <1>2, NetworkIInv DEF NetworkStep
<1>3. CASE UNCHANGED vars
  BY <1>3 DEF vars, agent, IInv, TypeOK, QueueInv, Sending, Loaded, Ordered
<1>4. QED BY <1>1, <1>2, <1>3 DEF Next

\* Every reachable state satisfies the invariant.
THEOREM Invariance == Spec => []IInv
<1>1. Init => IInv
  BY InitIInv
<1>2. IInv /\ [Next]_vars => IInv'
  BY NextIInv
<1>3. QED BY <1>1, <1>2, PTL DEF Spec

\* Every reachable state is well typed.
THEOREM TypeCorrect == Spec => []TypeOK
<1>1. IInv => TypeOK
  BY DEF IInv
<1>2. QED BY <1>1, Invariance, PTL

\* The queue file and the batch are in order and within the capacity, whatever
\* was retried, refused, late or interrupted (main.rs, queue.rs).
THEOREM QueueAlwaysInOrder == Spec => []QueueInOrder
<1>1. ASSUME IInv PROVE QueueInOrder
  <2>1. Ordered(batch) /\ Len(batch) <= MaxQueue
    <3>1. CASE pc = "tick"
      BY <1>1, <3>1 DEF IInv, QueueInv, Ordered
    <3>2. CASE pc # "tick"
      BY <1>1, <3>2, BatchFacts DEF IInv
    <3>3. QED BY <3>1, <3>2
  <2>2. QED BY <1>1, <2>1 DEF IInv, QueueInv, QueueInOrder
<1>2. QED BY <1>1, Invariance, PTL

-----------------------------------------------------------------------------
(* The agent implements SampleDelivery: the samples it answers for are     *)
(* those in the queue file and in the batch.                               *)

\* What is kept while the loop sends: the queue file and the newest sample.
LEMMA KeptWhileSending ==
  ASSUME IInv, pc # "tick"
  PROVE  Kept = Range(file) \cup {taken} /\ taken \notin Range(file)
<1>1. Range(Loaded) \subseteq Range(file)
  BY LoadedFacts DEF IInv, TypeOK, QueueInv
<1>2. Range(batch) \subseteq Range(Loaded) \cup {taken} /\ taken \in Range(batch)
  BY BatchFacts DEF IInv
<1>3. taken \notin Range(file)
  BY DEF IInv, TypeOK, QueueInv, Sending, Range
<1>4. QED BY <1>1, <1>2, <1>3 DEF Kept

\* With a full queue one sample more is kept than the capacity.
LEMMA KeptWithFullQueue ==
  ASSUME IInv, pc # "tick", Len(file) = MaxQueue
  PROVE  Cardinality(Kept) = MaxQueue + 1
<1> DEFINE all == Append(file, taken)
<1>1. /\ file \in Seq(Samples) /\ taken \in Nat
      /\ \A i \in DOMAIN file : file[i] < taken
      /\ Ordered(file)
  BY DEF IInv, TypeOK, QueueInv, Sending
<1>2. /\ DOMAIN all = 1..(MaxQueue + 1)
      /\ \A i \in 1..MaxQueue : all[i] = file[i]
      /\ all[MaxQueue + 1] = taken
      /\ DOMAIN file = 1..MaxQueue
      /\ \A i \in 1..MaxQueue : file[i] \in Nat
  BY <1>1
<1>3. Range(all) = Kept
  BY <1>1, AppendRange, KeptWhileSending
<1>4. \A i, j \in 1..(MaxQueue + 1) : i < j => all[i] < all[j] /\ all[i] \in Nat /\ all[j] \in Nat
  BY <1>1, <1>2 DEF Ordered
<1>5. \A i, j \in 1..(MaxQueue + 1) : all[i] = all[j] => i = j
  BY <1>4
<1>6. all \in [1..(MaxQueue + 1) -> Kept] /\ \A k \in Kept : \E i \in 1..(MaxQueue + 1) : all[i] = k
  <2>1. file \in Seq(Nat)
    BY <1>1
  <2>2. all \in Seq(Nat) /\ Len(all) = MaxQueue + 1
    BY <1>1, <2>1, AppendProperties
  <2> HIDE DEF all
  <2>3. all \in [1..(MaxQueue + 1) -> Nat]
    BY <2>2
  <2>4. QED BY <1>2, <1>3, <2>3 DEF Range
<1>7. all \in Bijection(1..(MaxQueue + 1), Kept)
  <2> HIDE DEF all
  <2>1. QED BY <1>5, <1>6 DEF Bijection, Injection, Surjection, IsInjective
<1>8. QED BY <1>7, FS_CountingElements DEF ExistsBijection

\* When the file was read, the sample that is in it and not in the batch is the oldest of
\* too many.
LEMMA Overflow ==
  ASSUME IInv, pc # "tick", misread # taken, NEW i \in Range(file) \ Range(batch)
  PROVE  Cardinality(Kept) > MaxQueue /\ \A j \in Kept : i <= j
<1>1. /\ Len(file) < MaxQueue => Loaded = file
      /\ Len(file) = MaxQueue => /\ Len(Loaded) = MaxQueue - 1
                                 /\ \A k \in 1..(MaxQueue - 1) : Loaded[k] = file[k + 1]
      /\ Loaded \in Seq(Samples)
  BY LoadedFacts DEF IInv, TypeOK, QueueInv
<1>2. Range(batch) = Range(Loaded) \cup {taken}
  BY BatchFacts DEF IInv
<1>3. /\ file \in Seq(Samples) /\ Len(file) <= MaxQueue /\ Ordered(file)
      /\ \A k \in DOMAIN file : file[k] < taken
  BY DEF IInv, TypeOK, QueueInv, Sending
<1>4. Len(file) = MaxQueue
  BY <1>1, <1>2, <1>3
<1>5. PICK k \in 1..MaxQueue : i = file[k]
  BY <1>3, <1>4 DEF Range
<1>6. k = 1
  <2> SUFFICES ASSUME k # 1 PROVE FALSE
    OBVIOUS
  <2>1. k - 1 \in 1..(MaxQueue - 1) /\ DOMAIN Loaded = 1..(MaxQueue - 1)
    BY <1>1, <1>4
  <2>2. Loaded[k - 1] = file[k]
    BY <1>1, <1>4, <2>1
  <2>3. i \in Range(Loaded)
    BY <1>5, <2>1, <2>2 DEF Range
  <2>4. QED BY <1>2, <2>3
<1>7. ASSUME NEW j \in Kept PROVE i <= j
  <2>1. CASE j = taken
    <3>1. i \in Nat /\ i < taken /\ taken \in Nat
      BY <1>3, <1>4, <1>5 DEF IInv, TypeOK
    <3>2. QED BY <2>1, <3>1
  <2>2. CASE j \in Range(file)
    <3>1. PICK l \in 1..MaxQueue : j = file[l]
      BY <1>3, <1>4, <2>2 DEF Range
    <3>2. QED BY <1>3, <1>4, <1>5, <1>6, <3>1 DEF Ordered
  <2>3. QED BY <2>1, <2>2, KeptWhileSending
<1>8. Cardinality(Kept) > MaxQueue
  BY <1>4, KeptWithFullQueue
<1>9. QED BY <1>7, <1>8

\* What is in the file while the loop sends is older than the newest sample.
LEMMA OlderThanNewest ==
  ASSUME IInv, pc # "tick", NEW i \in Range(file)
  PROVE  i < taken
BY DEF IInv, QueueInv, Sending, Range

\* What is kept when an iteration begins.
LEMMA CollectKept ==
  ASSUME IInv, Collect
  PROVE  /\ Kept = Range(file)
         /\ file' = file => Kept' = Kept \cup {taken'}
         /\ file' = <<>> /\ batch' = <<taken'>> => Kept' = {taken'}
<1>1. Range(Loaded) \subseteq Range(file) /\ Loaded \in Seq(Samples)
  BY LoadedFacts DEF IInv, TypeOK, QueueInv
<1>2. Range(Append(Loaded, taken')) = Range(Loaded) \cup {taken'} /\ Range(<<taken'>>) = {taken'}
  <2>1. DOMAIN <<taken'>> = {1} /\ <<taken'>>[1] = taken'
    OBVIOUS
  <2>2. Range(<<taken'>>) = {taken'}
    BY <2>1 DEF Range
  <2>3. QED BY <1>1, <2>2, AppendRange
<1>3. batch = <<>> /\ Range(<<>>) = {}
  BY DEF IInv, QueueInv, Collect, Range
<1>4. \/ batch' = Append(Loaded, taken') /\ file' = file
      \/ batch' = <<taken'>>
  BY CollectFacts
<1>5. QED BY <1>1, <1>2, <1>3, <1>4 DEF Kept

\* A step of the agent and of the network is one of SampleDelivery, or none.
LEMMA StepRefines ==
  ASSUME IInv, [Next]_vars
  PROVE  [Delivery!SNext]_(Delivery!svars)
<1> USE DEF Delivery!SNext, Delivery!svars
<1>1. CASE Collect
  <2>1. Kept = Range(file) /\ taken' = taken + 1 /\ stored' = stored
    BY <1>1 DEF IInv, QueueInv, Collect, Kept, Range
  <2>2. CASE batch' = Append(Loaded, taken') /\ file' = file /\ misread' = misread
    <3>1. Kept' = Kept \cup {taken'}
      BY <1>1, <2>1, <2>2, CollectKept
    <3>2. Delivery!Produce
      BY <2>1, <2>2, <3>1 DEF Delivery!Produce
    <3>3. QED BY <3>2
  <2>3. CASE batch' = <<taken'>> /\ misread' = taken' /\ file' \in {file, <<>>}
    <3>1. Kept' \in {Kept \cup {taken'}, {taken'}}
      BY <1>1, <2>1, <2>3, CollectKept
    <3>2. Delivery!ProduceUnread
      BY <2>1, <2>3, <3>1 DEF Delivery!ProduceUnread
    <3>3. QED BY <3>2
  <2>4. QED BY <1>1, <2>2, <2>3, CollectFacts
<1>2. CASE Post \/ Acknowledged \/ Refused \/ Unanswered \/ TimedOut
  <2>1. UNCHANGED <<taken, file, batch, stored, misread>>
    BY <1>2 DEF Post, Acknowledged, Refused, Unanswered, TimedOut
  <2>2. QED BY <2>1 DEF Kept, Range
<1>3. CASE Clear /\ file' = <<>>
  <2>1. Kept' = {} /\ pc = "clear" /\ UNCHANGED <<taken, stored, misread>>
    BY <1>3 DEF Clear, NextIteration, Kept, Range
  <2>2. ASSUME NEW i \in Kept, i \notin stored
        PROVE  \/ Cardinality(Kept) > MaxQueue /\ \A j \in Kept : i <= j
               \/ misread = taken /\ i < taken
    <3>1. i \in Range(file) \ Range(batch)
      BY <2>1, <2>2 DEF IInv, QueueInv, Kept
    <3>2. QED BY <2>1, <3>1, Overflow, OlderThanNewest
  <2>3. \A i \in Kept \ Kept' : \/ i \in stored
                                \/ Cardinality(Kept) > MaxQueue /\ \A j \in Kept : i <= j
                                \/ misread = taken /\ i < taken
    BY <2>2
  <2>4. Kept' \subseteq Kept /\ UNCHANGED <<taken, stored, misread>>
    BY <2>1
  <2>5. Delivery!Release
    BY <2>3, <2>4, Zenon DEF Delivery!Release, Cardinality, Delivery!Cardinality
  <2>6. QED BY <2>5
<1>4. CASE Save /\ file' = batch
  <2>1. Kept' = Range(batch) /\ pc = "save" /\ UNCHANGED <<taken, stored, misread>>
    BY <1>4 DEF Save, NextIteration, Kept, Range
  <2>2. Kept' \subseteq Kept /\ \A i \in Kept \ Kept' : i \in Range(file) \ Range(batch)
    BY <2>1 DEF Kept
  <2>3. \A i \in Kept \ Kept' : \/ Cardinality(Kept) > MaxQueue /\ \A j \in Kept : i <= j
                                \/ misread = taken /\ i < taken
    BY <2>1, <2>2, Overflow, OlderThanNewest
  <2>4. UNCHANGED <<taken, stored, misread>>
    BY <2>1
  <2>5. Delivery!Release
    BY <2>2, <2>3, <2>4, Zenon DEF Delivery!Release, Cardinality, Delivery!Cardinality
  <2>6. QED BY <2>5
<1>5. CASE (Clear \/ Save \/ Crash) /\ file' = file
  <2>1. pc # "tick" /\ batch' = <<>> /\ UNCHANGED <<taken, stored, misread>>
    BY <1>5 DEF Clear, Save, Crash, NextIteration
  <2>2. Kept' = Range(file)
    BY <1>5, <2>1 DEF Kept, Range
  <2>3. Kept' = Kept \ {taken}
    BY <2>1, <2>2, KeptWhileSending
  <2>4. Delivery!LoseNewest
    BY <2>1, <2>3 DEF Delivery!LoseNewest
  <2>5. QED BY <2>4
<1>6. CASE NetworkStep
  <2>1. PICK r \in net : Serve(r) \/ Refuse(r)
    BY <1>6 DEF NetworkStep
  <2>2. UNCHANGED <<taken, file, batch, misread>> /\ stored' \in {stored, stored \cup Range(r.samples)}
    BY <2>1 DEF Serve, Refuse, agent
  <2>3. Kept' = Kept
    BY <2>2 DEF Kept, Range
  <2>4. Range(r.samples) \in SUBSET (1..taken)
    BY DEF IInv, QueueInv
  <2>5. CASE stored' = stored
    BY <2>2, <2>3, <2>5
  <2>6. CASE stored' = stored \cup Range(r.samples)
    <3>1. Delivery!Deliver
      BY <2>2, <2>3, <2>4, <2>6 DEF Delivery!Deliver
    <3>2. QED BY <3>1
  <2>7. QED BY <2>2, <2>5, <2>6
<1>7. CASE UNCHANGED vars
  BY <1>7 DEF vars, agent, Kept, Range
<1>8. ASSUME Clear \/ Save \/ Crash
      PROVE  \/ Clear /\ file' = <<>>
             \/ Save /\ file' = batch
             \/ (Clear \/ Save \/ Crash) /\ file' = file
  BY <1>8 DEF Clear, Save, Crash
<1>9. QED BY <1>1, <1>2, <1>3, <1>4, <1>5, <1>6, <1>7, <1>8 DEF Next, AgentStep

\* The agent lets a sample go only when the API has it, when a failure strikes
\* the newest one, when the oldest one makes room for more than the capacity, or
\* in the iteration in which queue::load took the file for empty.
THEOREM ImplementsDelivery == Spec => DeliverySpec
<1>1. Init => Delivery!SInit
  BY DEF Init, Delivery!SInit, Kept, Range
<1>2. IInv /\ [Next]_vars => [Delivery!SNext]_(Delivery!svars)
  BY StepRefines
<1>3. QED BY <1>1, <1>2, Invariance, PTL DEF Spec, DeliverySpec, Delivery!SSpec

-----------------------------------------------------------------------------
(* A short outage.                                                         *)

\* The newest samples measured since the file was last taken for empty that are neither
\* stored nor kept.
Lost == {i \in 1..taken : misread <= i /\ i + MaxQueue > taken /\ i \notin stored \cup Kept}

\* They can be counted.
LEMMA LostFinite ==
  ASSUME TypeOK
  PROVE  IsFiniteSet(Lost) /\ Cardinality(Lost) \in Nat
<1>1. IsFiniteSet(1..taken)
  BY FS_Interval DEF TypeOK
<1>2. Lost \subseteq 1..taken
  BY DEF Lost
<1>3. QED BY <1>1, <1>2, FS_Subset, FS_CardinalityType

\* A sample that is given up was measured before the file was taken for empty, or it
\* overflows and is older than all that a queue can hold.
LEMMA OverflowIsOld ==
  ASSUME IInv, pc # "tick", NEW i \in Range(file) \ Range(batch)
  PROVE  i \in Nat /\ (i < misread \/ i + MaxQueue <= taken)
<1> SUFFICES ASSUME misread # taken PROVE i \in Nat /\ i + MaxQueue <= taken
  <2>1. i \in Nat /\ i < taken
    BY OlderThanNewest DEF IInv, TypeOK, Range
  <2>2. QED BY <2>1
<1>1. /\ taken \in Nat /\ Range(file) \subseteq 1..taken
      /\ Kept \subseteq 1..taken
  <2>1. taken \in Samples /\ file \in Seq(Samples) /\ \A n \in DOMAIN file : file[n] <= taken
    BY BatchFacts DEF IInv, TypeOK, QueueInv
  <2>2. Range(file) \subseteq 1..taken
    BY <2>1 DEF Range
  <2>3. QED BY <2>1, <2>2, KeptWhileSending
<1>2. i \in 1..taken /\ \A j \in Kept : i <= j
  BY <1>1, Overflow
<1>3. Kept \subseteq i..taken
  BY <1>1, <1>2
<1>4. IsFiniteSet(i..taken) /\ Cardinality(i..taken) = taken - i + 1
  BY <1>1, <1>2, FS_Interval
<1>5. IsFiniteSet(Kept) /\ Cardinality(Kept) <= taken - i + 1
  BY <1>3, <1>4, FS_Subset
<1>6. Cardinality(Kept) > MaxQueue /\ Cardinality(Kept) \in Nat
  BY <1>5, Overflow, FS_CardinalityType
<1>7. QED BY <1>1, <1>2, <1>5, <1>6

\* A step loses a recent sample only by a crash or a failed write, and then one.
LEMMA StepLoses ==
  ASSUME IInv, IInv', [Next]_vars
  PROVE  \/ Lost' \subseteq Lost /\ setbacks' \in {setbacks, setbacks + 1}
         \/ Lost' \subseteq Lost \cup {taken} /\ setbacks' = setbacks + 1
<1>1. taken \in Nat /\ taken' \in Nat /\ setbacks \in Nat /\ misread \in Nat
  BY DEF IInv, TypeOK
<1>2. CASE Collect
  <2>1. taken' = taken + 1 /\ stored' = stored /\ setbacks' = setbacks
    BY <1>2 DEF Collect
  <2>2. taken' \in Kept' /\ (misread' = taken' \/ (Kept \subseteq Kept' /\ misread' = misread))
    BY <1>2, CollectFacts, CollectKept
  <2>3. Lost' \subseteq Lost
    BY <1>1, <2>1, <2>2 DEF Lost
  <2>4. QED BY <2>1, <2>3
<1>3. CASE Post \/ Acknowledged \/ Refused \/ Unanswered \/ TimedOut
  <2>1. UNCHANGED <<taken, file, batch, stored, setbacks, misread>>
    BY <1>3 DEF Post, Acknowledged, Refused, Unanswered, TimedOut
  <2>2. QED BY <2>1 DEF Lost, Kept, Range
<1>4. CASE (Clear /\ file' = <<>>) \/ (Save /\ file' = batch)
  <2>1. /\ pc # "tick" /\ UNCHANGED <<taken, stored, misread>>
        /\ setbacks' \in {setbacks, setbacks + 1}
    BY <1>4 DEF Clear, Save
  <2>2. Kept' = Range(file')
    BY <1>4 DEF Clear, Save, NextIteration, Kept, Range
  <2>3. ASSUME NEW i \in Kept, i \notin stored \cup Kept'
        PROVE  i < misread \/ i + MaxQueue <= taken
    <3>1. CASE Clear /\ file' = <<>>
      <4>1. i \in Range(file) \ Range(batch)
        BY <2>3, <3>1 DEF Clear, IInv, QueueInv, Kept
      <4>2. QED BY <2>1, <4>1, OverflowIsOld
    <3>2. CASE Save /\ file' = batch
      <4>1. i \in Range(file) \ Range(batch)
        BY <2>2, <2>3, <3>2 DEF Kept
      <4>2. QED BY <2>1, <4>1, OverflowIsOld
    <3>3. QED BY <1>4, <3>1, <3>2
  <2>4. Lost' \subseteq Lost
    <3> SUFFICES ASSUME NEW i \in Lost' PROVE i \in Lost
      OBVIOUS
    <3>1. i \in 1..taken /\ misread <= i /\ i + MaxQueue > taken /\ i \notin stored \cup Kept'
      BY <2>1 DEF Lost
    <3>2. i \notin Kept
      BY <1>1, <2>3, <3>1
    <3>3. QED BY <3>1, <3>2 DEF Lost
  <2>5. QED BY <2>1, <2>4
<1>5. CASE (Clear \/ Save \/ Crash) /\ file' = file /\ setbacks' = setbacks + 1
  <2>1. pc # "tick" /\ batch' = <<>> /\ UNCHANGED <<taken, stored, misread>>
    BY <1>5 DEF Clear, Save, Crash, NextIteration
  <2>2. Kept' = Range(file)
    BY <1>5, <2>1 DEF Kept, Range
  <2>3. Kept' = Kept \ {taken}
    BY <2>1, <2>2, KeptWhileSending
  <2>4. Lost' \subseteq Lost \cup {taken}
    BY <2>1, <2>3 DEF Lost
  <2>5. QED BY <1>5, <2>4
<1>6. CASE NetworkStep
  <2>1. PICK r \in net : Serve(r) \/ Refuse(r)
    BY <1>6 DEF NetworkStep
  <2>2. UNCHANGED <<taken, file, batch, setbacks, misread>> /\ stored \subseteq stored'
    BY <2>1 DEF Serve, Refuse, agent
  <2>3. Kept' = Kept
    BY <2>2 DEF Kept, Range
  <2>4. QED BY <2>2, <2>3 DEF Lost
<1>7. CASE UNCHANGED vars
  BY <1>7 DEF vars, agent, Lost, Kept, Range
<1>8. ASSUME Clear \/ Save \/ Crash
      PROVE  \/ (Clear /\ file' = <<>>) \/ (Save /\ file' = batch)
             \/ (Clear \/ Save \/ Crash) /\ file' = file /\ setbacks' = setbacks + 1
  BY <1>8 DEF Clear, Save, Crash
<1>9. QED BY <1>2, <1>3, <1>4, <1>5, <1>6, <1>7, <1>8 DEF Next, AgentStep

\* Of the newest max_queue_size samples, those measured since the queue file was last
\* taken for empty, an outage loses one for each crash or failed write and no other: the
\* drain of main.rs:124-131 takes only samples that are older than all the queue can hold,
\* and a save replaces the file as a whole.
THEOREM ShortOutage == Spec => []ShortOutageLosesNothing
<1> DEFINE I == Cardinality(Lost) <= setbacks
<1>1. Init => I
  <2> SUFFICES ASSUME Init PROVE I
    OBVIOUS
  <2>1. Lost = {}
    BY DEF Init, Lost
  <2>2. QED BY <2>1, FS_EmptySet DEF Init
<1>2. IInv /\ IInv' /\ I /\ [Next]_vars => I'
  <2> SUFFICES ASSUME IInv, IInv', I, [Next]_vars PROVE Cardinality(Lost') <= setbacks'
    OBVIOUS
  <2>1. IsFiniteSet(Lost) /\ Cardinality(Lost) \in Nat /\ setbacks \in Nat
    BY LostFinite DEF IInv, TypeOK
  <2>2. CASE Lost' \subseteq Lost /\ setbacks' \in {setbacks, setbacks + 1}
    <3>1. IsFiniteSet(Lost') /\ Cardinality(Lost') <= Cardinality(Lost)
      BY <2>1, <2>2, FS_Subset
    <3>2. Cardinality(Lost') \in Nat
      BY <3>1, FS_CardinalityType
    <3>3. QED BY <2>1, <2>2, <3>1, <3>2
  <2>3. CASE Lost' \subseteq Lost \cup {taken} /\ setbacks' = setbacks + 1
    <3>1. /\ IsFiniteSet(Lost \cup {taken})
          /\ Cardinality(Lost \cup {taken}) \in {Cardinality(Lost), Cardinality(Lost) + 1}
      BY <2>1, FS_AddElement
    <3>2. IsFiniteSet(Lost') /\ Cardinality(Lost') <= Cardinality(Lost \cup {taken})
      BY <2>3, <3>1, FS_Subset
    <3>3. Cardinality(Lost') \in Nat
      BY <3>2, FS_CardinalityType
    <3>4. QED BY <2>1, <2>3, <3>1, <3>2, <3>3
  <2>4. QED BY <2>2, <2>3, StepLoses
<1>3. I => ShortOutageLosesNothing
  BY DEF Lost, ShortOutageLosesNothing
<1> HIDE DEF I
<1>4. QED BY <1>1, <1>2, <1>3, Invariance, PTL DEF Spec

=============================================================================
