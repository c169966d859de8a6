-------------------------- MODULE SuricataForwarder --------------------------
(***************************************************************************)
(* The IDS sidecar: Suricata appends lines to eve.json while the forwarder *)
(* tails the file and posts the alerts to POST /ingest/ids.                *)
(*                                                                         *)
(* Line i of the log is the bytes 2i-1 and 2i, the second one with the     *)
(* newline, so that a line can be read when only its first half is there.  *)
(* Whether it is an alert is decided when it is parsed, not before.        *)
(* A generation is one file: a rotation puts a new one under the path, a   *)
(* truncation empties the file in place.                                   *)
(***************************************************************************)
EXTENDS Naturals, FiniteSets, Sequences, SequencesExt

CONSTANTS
  BatchMax,        \* BATCH_MAX
  MaxLines,        \* bound: lines Suricata writes
  MaxRotations,    \* bound: log rotations by rename
  MaxTruncations,  \* bound: log rotations in place
  MaxRestarts      \* bound: crashes of the forwarder

ASSUME ForwarderAssumption ==
  /\ BatchMax \in Nat \ {0}
  /\ {MaxLines, MaxRotations, MaxTruncations, MaxRestarts} \subseteq Nat

VARIABLES
  written,      \* bytes written so far, over all generations
  start,        \* per generation: the bytes written before its content
  end,          \* per renamed generation: the last byte of its content
  gen,          \* generation the forwarder has open; 0: none
  offset,       \* bytes of it the forwarder is past
  pc,           \* "open", "read", "check" the inode, "fill" the batch, "post"
  line,         \* the bytes readline has returned; {} at the end of the file
  batch,        \* alerts read and not yet posted
  truncations, restarts,  \* so far
  seen,         \* history: alerts this process has read whole
  posted        \* history: alerts posted, in order

log == <<written, start, end, truncations>>
reader == <<gen, offset, line>>
vars == <<log, reader, pc, batch, restarts, seen, posted>>

Bytes == 1..(2 * MaxLines)
Lines == 1..MaxLines
Current == Len(start)

TypeOK ==
  /\ written \in Bytes \cup {0}
  /\ start \in Seq(Bytes \cup {0}) /\ Len(start) \in 1..(MaxRotations + 1)
  /\ end \in Seq(Bytes \cup {0}) /\ Len(end) = Current - 1
  /\ gen \in 0..Current
  /\ offset \in Bytes \cup {0}
  /\ pc \in {"open", "read", "check", "fill", "post"}
  /\ line \subseteq Bytes /\ Cardinality(line) <= 2
  /\ batch \in Seq(Lines) /\ Len(batch) <= BatchMax
  /\ seen \subseteq Lines
  /\ posted \in Seq(Lines)
  /\ truncations \in 0..MaxTruncations
  /\ restarts \in 0..MaxRestarts

Init ==
  /\ written = 0 /\ start = <<0>> /\ end = <<>>
  /\ gen = 0 /\ offset = 0 /\ line = {}
  /\ pc = "open"
  /\ batch = <<>>
  /\ truncations = 0 /\ restarts = 0
  /\ seen = {} /\ posted = <<>>

-----------------------------------------------------------------------------
(* Suricata and logrotate.                                                 *)

AtLineEnd == written % 2 = 0

\* The first half of a line becomes visible, then the rest.
BeginLine ==
  /\ AtLineEnd /\ written < 2 * MaxLines
  /\ written' = written + 1
  /\ UNCHANGED <<start, end, truncations, reader, pc, batch, restarts, seen, posted>>

EndLine ==
  /\ ~AtLineEnd
  /\ written' = written + 1
  /\ UNCHANGED <<start, end, truncations, reader, pc, batch, restarts, seen, posted>>

\* The file is renamed and Suricata goes on in a new one.
Rotate ==
  /\ AtLineEnd /\ Len(start) <= MaxRotations
  /\ start' = Append(start, written)
  /\ end' = Append(end, written)
  /\ UNCHANGED <<written, truncations, reader, pc, batch, restarts, seen, posted>>

\* The file is emptied in place: its inode stays.
Truncate ==
  /\ AtLineEnd /\ truncations < MaxTruncations
  /\ truncations' = truncations + 1
  /\ start' = [start EXCEPT ![Current] = written]
  /\ UNCHANGED <<written, end, reader, pc, batch, restarts, seen, posted>>

-----------------------------------------------------------------------------
(* The forwarder.                                                          *)

FileEnd(g) == IF g = Current THEN written ELSE end[g]

\* The bytes from a position up to the newline, or to the end of what is there.
LineFrom(first) ==
  {b \in first..(IF first % 2 = 1 THEN first + 1 ELSE first) : b <= FileEnd(gen)}

\* Mutant of NextBytes: a file that has been renamed is not read to its end.
NextBytesIfCurrent == IF gen = Current THEN LineFrom(start[gen] + offset + 1) ELSE {}

\* What readline returns.
NextBytes == LineFrom(start[gen] + offset + 1)

ReadLine == line' = NextBytes /\ offset' = offset + Cardinality(NextBytes)

\* Mutant of StartingPoint: the file is read from its beginning.
BeginningOfFile == 0

\* seek(0, SEEK_END): the history is not replayed.
StartingPoint == written - start[Current]

Open ==
  /\ pc = "open"
  /\ gen' = Current /\ offset' = StartingPoint
  /\ pc' = "read"
  /\ UNCHANGED <<log, line, batch, restarts, seen, posted>>

\* readline at the top of the loop.
Read ==
  /\ pc = "read"
  /\ ReadLine
  /\ pc' = IF NextBytes = {} THEN "check" ELSE "fill"
  /\ UNCHANGED <<log, gen, batch, restarts, seen, posted>>

\* Mutant of Renamed: the inode is not looked at.
NeverRenamed == FALSE

\* The path has another inode than the open file.
Renamed == gen # Current

\* At the end of the file: open the path again, or sleep.
Check ==
  /\ pc = "check"
  /\ IF Renamed THEN gen' = Current /\ offset' = 0 ELSE UNCHANGED <<gen, offset>>
  /\ pc' = "read"
  /\ UNCHANGED <<log, line, batch, restarts, seen, posted>>

\* The lines that some bytes are the whole of: half a line does not parse.
WholeIn(bytes) == {i \in Lines : bytes = {2 * i - 1, 2 * i}}

\* Mutant of Keep: the next line is read before this one is parsed.
KeepNext(bytes) ==
  /\ seen' = seen \cup WholeIn(bytes)
  /\ batch' = batch \o SetToSeq(WholeIn(NextBytes))

\* Parsing: the alert in some bytes, or nothing, as seen' and batch' take it.
Keep(bytes) ==
  \/ UNCHANGED <<batch, seen>>    \* not JSON, another kind of event, or no signature
  \/ \E i \in WholeIn(bytes) : batch' = Append(batch, i) /\ seen' = seen \cup {i}

\* Mutant of Room: the batch may grow one alert too long.
RoomForOneMore == Len(batch) <= BatchMax

Room == Len(batch) < BatchMax

\* The inner loop: keep the line if it is an alert, and read the next one.
Fill ==
  /\ pc = "fill" /\ line # {} /\ Room
  /\ Keep(line)
  /\ ReadLine
  /\ UNCHANGED <<log, gen, pc, restarts, posted>>

\* The inner loop ends.  The line in hand, if there is one, is not looked at
\* again: the outer loop reads another one in its place.
EndBatch ==
  /\ pc = "fill" /\ (line = {} \/ ~Room)
  /\ pc' = IF batch = <<>> THEN "read" ELSE "post"
  /\ seen' \in {seen, seen \cup WholeIn(line)}    \* the line may have been an alert
  /\ line' = {}
  /\ UNCHANGED <<log, gen, offset, batch, restarts, posted>>

\* _flush: one attempt.  Whether the API records the batch, refuses it or does
\* not answer, the forwarder forgets it and goes on.
Post ==
  /\ pc = "post"
  /\ posted' = posted \o batch
  /\ batch' = <<>>
  /\ pc' = "read"
  /\ UNCHANGED <<log, reader, restarts, seen>>

\* The process dies and is started again with nothing but its JWT.
Restart ==
  /\ pc # "open"
  /\ restarts < MaxRestarts /\ restarts' = restarts + 1
  /\ pc' = "open"
  /\ gen' = 0 /\ offset' = 0 /\ line' = {} /\ batch' = <<>>
  /\ seen' = Range(posted)
  /\ UNCHANGED <<log, posted>>

-----------------------------------------------------------------------------
Forward == Open \/ Read \/ Check \/ Fill \/ EndBatch \/ Post
Next == BeginLine \/ EndLine \/ Rotate \/ Truncate \/ Forward \/ Restart

Spec == Init /\ [][Next]_vars

\* The forwarder goes on, and Suricata ends the line it has begun.
FairSpec == Spec /\ WF_vars(Forward) /\ WF_vars(EndLine)

-----------------------------------------------------------------------------
(* Properties.                                                             *)

\* Across rotations, truncations and restarts an alert is posted at most once
\* and in the order of the log: ingest_ids_alerts relies on it and does not
\* deduplicate (network.py:262-263).
PostedOnceInOrder ==
  LET all == posted \o batch IN
  \A i, j \in DOMAIN all : i < j => all[i] < all[j]

\* Alerts read whole that have never been posted and never will be.
Dropped == seen \ (Range(posted) \cup Range(batch))

\* Without a restart an alert read whole is dropped only by a full batch: between
\* two such losses a whole batch of alerts is posted (forwarder.py:126-134).
OneLossPerBatch ==
  \A i, j \in Dropped :
    i < j => Cardinality({k \in Range(posted \o batch) : i < k /\ k < j}) >= BatchMax

Quiet == restarts = MaxRestarts /\ truncations = MaxTruncations /\ pc # "open"

\* Line i is complete, and ahead of the forwarder in generation g.
Ahead(g, i) ==
  /\ start[g] <= 2 * i - 2 /\ 2 * i <= FileEnd(g)
  /\ g = gen => start[g] + offset <= 2 * i - 2

Reading(i) == line = {2 * i - 1, 2 * i}

\* A rotation loses no backlog: once nothing fails, a line that is ahead in the
\* open file is read whole even if the file is renamed meanwhile; only a forwarder
\* that has just seen the end of the file passes over what is still added to it.
BacklogIsRead ==
  \A i \in Lines : Quiet /\ pc # "check" /\ Ahead(gen, i) ~> Reading(i)

\* After the last rotation the forwarder finds its way to the current file and
\* reads every line beyond its offset there.  Nothing is said of the lines below
\* the old offset of a file that was emptied in place: see TruncatedFileIsRead.
CurrentFileIsRead ==
  \A i \in Lines :
    Quiet /\ Current = MaxRotations + 1 /\ Ahead(Current, i) ~> Reading(i)

\* The open file ends before the forwarder's position: it was emptied in place,
\* and no line that it holds now has been read.
Emptied == gen = Current /\ start[gen] + offset > written

\* What forwarder.py:113 says of its check: it handles "inode changé / fichier
\* tronqué".  A forwarder that looks at an emptied file when nothing fails any
\* more goes on to read the lines that are in it.
TruncatedFileIsRead ==
  \A i \in Lines :
    /\ Quiet /\ Current = MaxRotations + 1
    /\ pc = "check" /\ Emptied /\ start[gen] <= 2 * i - 2 /\ 2 * i <= written
    ~> Reading(i)

\* What forwarder.py:4-5 says: it tails eve.json and posts the alerts.  Nothing
\* that it has read and parsed is left out.
EveryAlertPosted == Dropped = {}
=============================================================================
