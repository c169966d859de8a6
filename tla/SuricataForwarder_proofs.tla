---------------------- MODULE SuricataForwarder_proofs ----------------------
(***************************************************************************)
(* Proofs about SuricataForwarder for any batch size, log, numbers of      *)
(* rotations, truncations and restarts: type correctness, that no alert is *)
(* posted twice or out of order, and that an alert is dropped only by a    *)
(* full batch, one alert for each.                                         *)
(***************************************************************************)
EXTENDS SuricataForwarder, FiniteSetTheorems, SequenceTheorems, TLAPS

\* The bounds are numbers.
LEMMA Bounds ==
  /\ MaxLines \in Nat /\ MaxRotations \in Nat /\ MaxTruncations \in Nat /\ MaxRestarts \in Nat
  /\ BatchMax \in Nat \ {0}
  BY ForwarderAssumption

\* Where the forwarder is in the bytes written over all generations.
Position == start[gen] + offset

\* The generations follow each other in the bytes written.
LogInv ==
  /\ \A g \in 1..Current : start[g] <= written
  /\ \A g \in 1..(Current - 1) : end[g] <= written
  /\ \A g, h \in 1..Current : g < h => end[g] <= start[h]

\* The bytes in hand are of the open file, and the forwarder is past them.
ReaderInv ==
  /\ pc # "fill" => line = {}
  /\ pc # "open" => /\ gen \in 1..Current
                    /\ \A b \in line : b <= Position /\ b <= FileEnd(gen)

\* An alert k that was seen was read from bytes that are written, that the forwarder is past,
\* and that come before those in hand.
Behind(k) ==
  /\ 2 * k <= written
  /\ pc # "open" => /\ 2 * k <= Position /\ 2 * k <= FileEnd(gen)
                    /\ \A b \in line : 2 * k < b

\* The alerts posted, and those about to be.
Alerts == posted \o batch

AlertsInv ==
  /\ \A i \in DOMAIN Alerts : Alerts[i] \in seen
  /\ \A k \in seen : Behind(k)
  /\ \A i, j \in DOMAIN Alerts : i < j => Alerts[i] < Alerts[j]

IInv == TypeOK /\ LogInv /\ ReaderInv /\ AlertsInv

\* The types of the numbers, as the provers want them.
LEMMA Numbers ==
  ASSUME TypeOK
  PROVE  /\ written \in Nat /\ written <= 2 * MaxLines /\ offset \in Nat
         /\ Current \in Nat \ {0} /\ DOMAIN start = 1..Current /\ DOMAIN end = 1..(Current - 1)
         /\ \A g \in 1..Current : start[g] \in Nat
         /\ \A g \in 1..(Current - 1) : end[g] \in Nat
  BY Bounds DEF TypeOK, Bytes, Current

\* The alerts are lines, in a sequence.
LEMMA AlertsFacts ==
  ASSUME TypeOK
  PROVE  /\ Alerts \in Seq(Lines)
         /\ DOMAIN Alerts = 1..Len(Alerts)
         /\ \A i \in DOMAIN Alerts : Alerts[i] \in Nat
         /\ \A k \in seen : k \in Nat
  <1>1. posted \in Seq(Lines) /\ batch \in Seq(Lines)
    BY DEF TypeOK
  <1>2. Alerts \in Seq(Lines)
    BY <1>1, ConcatProperties DEF Alerts
  <1>3. QED BY <1>2, Bounds DEF Lines, TypeOK

\* The invariant holds at the start.
LEMMA InitIInv == ASSUME Init PROVE IInv
<1>1. TypeOK
  BY Bounds, FS_EmptySet DEF Init, TypeOK, Current, Bytes
<1>2. LogInv /\ ReaderInv
  BY DEF Init, LogInv, ReaderInv, Current
<1>3. Alerts = <<>>
  BY DEF Init, Alerts
<1>4. AlertsInv
  BY <1>3 DEF AlertsInv, Init
<1>5. QED BY <1>1, <1>2, <1>4 DEF IInv

-----------------------------------------------------------------------------
(* Reading.                                                                *)

\* The end of the open file.
LEMMA EndFacts ==
  ASSUME TypeOK, LogInv, ReaderInv, pc # "open"
  PROVE  /\ gen \in 1..Current /\ Position \in Nat
         /\ FileEnd(gen) \in Nat /\ FileEnd(gen) <= written
<1>1. gen \in 1..Current
  BY DEF ReaderInv
<1>2. Position \in Nat
  BY <1>1, Numbers DEF Position
<1>3. FileEnd(gen) \in Nat /\ FileEnd(gen) <= written
  <2>1. CASE gen = Current
    BY <2>1, Numbers DEF FileEnd
  <2>2. CASE gen # Current
    <3>1. gen \in 1..(Current - 1)
      BY <1>1, <2>2, Numbers
    <3>2. QED BY <2>2, <3>1, Numbers DEF FileEnd, LogInv
  <2>3. QED BY <2>1, <2>2
<1>4. QED BY <1>1, <1>2, <1>3

\* What readline returns lies between the position and the end of the file.
LEMMA NextBytesFacts ==
  ASSUME TypeOK, LogInv, ReaderInv, pc # "open"
  PROVE  /\ NextBytes \subseteq Bytes
         /\ Cardinality(NextBytes) \in 0..2
         /\ \A b \in NextBytes : /\ b \in Nat /\ Position < b
                                 /\ b <= Position + Cardinality(NextBytes)
                                 /\ b <= FileEnd(gen)
         /\ offset + Cardinality(NextBytes) \in Bytes \cup {0}
<1> DEFINE first == Position + 1
           full == IF first % 2 = 1 THEN first + 1 ELSE first
           last == IF full <= FileEnd(gen) THEN full ELSE FileEnd(gen)
<1>1. /\ gen \in 1..Current /\ Position \in Nat
      /\ FileEnd(gen) \in Nat /\ FileEnd(gen) <= written
      /\ written <= 2 * MaxLines /\ written \in Nat
      /\ start[gen] \in Nat /\ offset \in Nat
  BY EndFacts, Numbers
<1>2. /\ first \in Nat /\ full \in first..(first + 1)
      /\ last \in Nat /\ last <= full /\ last <= FileEnd(gen)
  BY <1>1
<1>3. NextBytes = {b \in first..full : b <= FileEnd(gen)}
  BY DEF NextBytes, LineFrom, Position
<1>4. NextBytes = first..last
  BY <1>1, <1>2, <1>3
<1> HIDE DEF full, last
<1>5. Cardinality(NextBytes) = IF first > last THEN 0 ELSE last - first + 1
  <2>1. Cardinality(first..last) = IF first > last THEN 0 ELSE last - first + 1
    <3>1. first \in Int /\ last \in Int
      BY <1>2
    <3> HIDE DEF first
    <3>2. QED BY <3>1, FS_Interval
  <2>2. QED BY <2>1, <1>4
<1>6. first..last \subseteq Bytes
  BY <1>1, <1>2, Bounds DEF Bytes
<1>7. Cardinality(NextBytes) \in 0..2
  BY <1>2, <1>5
<1>8. \A b \in NextBytes : /\ b \in Nat /\ Position < b
                           /\ b <= Position + Cardinality(NextBytes)
                           /\ b <= FileEnd(gen)
  BY <1>1, <1>2, <1>4, <1>5
<1>9. offset + Cardinality(NextBytes) \in Bytes \cup {0}
  <2>1. CASE first > last
    BY <2>1, <1>5 DEF TypeOK, Bytes
  <2>2. CASE ~(first > last)
    <3>1. offset + Cardinality(NextBytes) = last - start[gen]
      BY <1>1, <1>2, <1>5, <2>2 DEF Position
    <3>2. last - start[gen] \in Nat
      BY <1>1, <1>2, <2>2 DEF Position
    <3>3. last - start[gen] <= 2 * MaxLines
      BY <1>1, <1>2, Bounds
    <3>4. QED BY <3>1, <3>2, <3>3, Bounds DEF Bytes
  <2>3. QED BY <2>1, <2>2
<1>10. QED BY <1>4, <1>6, <1>7, <1>8, <1>9

-----------------------------------------------------------------------------
(* Each step keeps the invariant.                                          *)

\* The alerts stay behind a forwarder whose file and position only grow.
LEMMA StillBehind ==
  ASSUME IInv, UNCHANGED <<pc, gen, line, posted, batch, seen>>,
         written' \in Nat, written <= written',
         pc # "open" => /\ Position' \in Nat /\ Position <= Position'
                        /\ FileEnd(gen)' \in Nat /\ FileEnd(gen) <= FileEnd(gen)',
         pc # "open" => gen \in 1..Current'
  PROVE  AlertsInv' /\ ReaderInv'
<1>1. /\ written \in Nat
      /\ pc # "open" => Position \in Nat /\ FileEnd(gen) \in Nat
  BY Numbers, EndFacts DEF IInv
<1>2. ASSUME NEW k \in Nat, Behind(k) PROVE Behind(k)'
  <2>1. 2 * k \in Nat
    BY <1>2
  <2>2. 2 * k <= written'
    BY <1>1, <1>2, <2>1 DEF Behind
  <2>3. pc # "open" => 2 * k <= Position' /\ 2 * k <= FileEnd(gen)'
    BY <1>1, <1>2, <2>1 DEF Behind
  <2>4. QED BY <1>2, <2>2, <2>3 DEF Behind
<1>3. Alerts' = Alerts /\ \A k \in seen : k \in Nat
  BY AlertsFacts DEF IInv, Alerts
<1>4. AlertsInv'
  BY <1>2, <1>3 DEF IInv, AlertsInv
<1>5. ReaderInv'
  <2>1. \A b \in line : b \in Nat
    BY DEF IInv, TypeOK, Bytes
  <2>2. pc # "open" => \A b \in line : b <= Position' /\ b <= FileEnd(gen)'
    BY <1>1, <2>1 DEF IInv, ReaderInv
  <2>3. QED BY <2>2 DEF IInv, ReaderInv
<1>6. QED BY <1>4, <1>5

\* Suricata appends half a line.
LEMMA AppendIInv == ASSUME IInv, BeginLine \/ EndLine PROVE IInv'
<1>1. /\ written' = written + 1
      /\ UNCHANGED <<start, end, truncations, reader, pc, batch, restarts, seen, posted>>
  BY DEF BeginLine, EndLine
<1>2. /\ written \in Nat /\ Current \in Nat
      /\ \A g \in 1..Current : start[g] \in Nat
      /\ \A g \in 1..(Current - 1) : end[g] \in Nat
  BY Numbers DEF IInv
<1>3. written + 1 <= 2 * MaxLines
  BY <1>2, Numbers, Bounds DEF IInv, BeginLine, EndLine, AtLineEnd
<1>4. TypeOK'
  <2>1. written' \in Bytes \cup {0}
    BY <1>1, <1>2, <1>3, Bounds DEF Bytes
  <2>2. QED BY <1>1, <2>1 DEF IInv, TypeOK, reader, Current
<1>5. LogInv'
  BY <1>1, <1>2 DEF IInv, LogInv, Current
<1>6. pc # "open" => /\ Position' = Position /\ Position \in Nat
                     /\ FileEnd(gen)' \in Nat /\ FileEnd(gen) <= FileEnd(gen)'
  <2>1. pc # "open" => Position \in Nat /\ FileEnd(gen) \in Nat
    BY EndFacts DEF IInv
  <2>2. QED BY <1>1, <1>2, <2>1 DEF FileEnd, Position, reader, Current
<1>7. AlertsInv' /\ ReaderInv'
  <2>1. pc # "open" => gen \in 1..Current'
    BY <1>1 DEF IInv, ReaderInv, Current
  <2>2. QED BY <1>1, <1>2, <1>6, <2>1, StillBehind DEF reader
<1>8. QED BY <1>4, <1>5, <1>7 DEF IInv

\* The file is renamed: its end is where it was.
LEMMA RotateIInv == ASSUME IInv, Rotate PROVE IInv'
<1>1. /\ start' = Append(start, written) /\ end' = Append(end, written)
      /\ Current <= MaxRotations
      /\ UNCHANGED <<written, truncations, reader, pc, batch, restarts, seen, posted>>
  BY DEF Rotate, Current
<1>2. /\ written \in Nat /\ written \in Bytes \cup {0} /\ Current \in Nat \ {0}
      /\ start \in Seq(Bytes \cup {0}) /\ end \in Seq(Bytes \cup {0})
      /\ Len(end) = Current - 1
      /\ \A g \in 1..Current : start[g] \in Nat
      /\ \A g \in 1..(Current - 1) : end[g] \in Nat
  BY Numbers DEF IInv, TypeOK
<1>3. /\ Current' = Current + 1
      /\ \A g \in 1..Current : start'[g] = start[g]
      /\ start'[Current + 1] = written
      /\ \A g \in 1..(Current - 1) : end'[g] = end[g]
      /\ end'[Current] = written
  BY <1>1, <1>2 DEF Current
<1>4. start' \in Seq(Bytes \cup {0}) /\ end' \in Seq(Bytes \cup {0}) /\ Len(end') = Current
  BY <1>1, <1>2
<1>5. TypeOK'
  <2>1. Len(start') \in 1..(MaxRotations + 1) /\ gen' \in 0..Current'
    BY <1>1, <1>2, <1>3, Bounds DEF IInv, TypeOK, reader, Current
  <2>2. Len(end') = Current' - 1
    BY <1>2, <1>3, <1>4
  <2>3. QED BY <1>1, <1>4, <2>1, <2>2 DEF IInv, TypeOK, reader
<1>6. LogInv'
  <2>1. /\ written' = written
        /\ \A g \in 1..Current' : g = Current + 1 \/ g \in 1..Current
        /\ \A g \in 1..(Current' - 1) : g = Current \/ g \in 1..(Current - 1)
    BY <1>1, <1>2, <1>3
  <2>2. ASSUME NEW g \in 1..Current' PROVE start'[g] <= written'
    BY <1>2, <1>3, <2>1 DEF IInv, LogInv
  <2>3. ASSUME NEW g \in 1..(Current' - 1) PROVE end'[g] <= written'
    BY <1>2, <1>3, <2>1 DEF IInv, LogInv
  <2>4. ASSUME NEW g \in 1..Current', NEW h \in 1..Current', g < h PROVE end'[g] <= start'[h]
    <3>1. g \in 1..(Current' - 1)
      BY <1>2, <1>3, <2>4
    <3>2. CASE h = Current + 1
      BY <1>3, <2>1, <2>3, <3>1, <3>2
    <3>3. CASE h \in 1..Current
      <4>1. g \in 1..(Current - 1) /\ g \in 1..Current
        BY <1>2, <2>4, <3>3
      <4>2. end[g] <= start[h]
        BY <2>4, <3>3, <4>1 DEF IInv, LogInv
      <4>3. QED BY <1>3, <3>3, <4>1, <4>2
    <3>4. QED BY <2>1, <3>2, <3>3
  <2>5. QED BY <2>2, <2>3, <2>4 DEF LogInv
<1>7. pc # "open" => /\ Position' = Position /\ Position \in Nat /\ gen \in 1..Current'
                     /\ FileEnd(gen)' = FileEnd(gen) /\ FileEnd(gen) \in Nat
  <2> SUFFICES ASSUME pc # "open"
               PROVE  /\ Position' = Position /\ Position \in Nat /\ gen \in 1..Current'
                      /\ FileEnd(gen)' = FileEnd(gen) /\ FileEnd(gen) \in Nat
    OBVIOUS
  <2>1. gen \in 1..Current /\ Position \in Nat /\ FileEnd(gen) \in Nat /\ gen' = gen
    BY <1>1, EndFacts DEF IInv, reader
  <2>2. Position' = Position
    BY <1>1, <1>3, <2>1 DEF Position, reader
  <2>3. FileEnd(gen)' = end'[gen]
    BY <1>2, <1>3, <2>1 DEF FileEnd
  <2>4. FileEnd(gen)' = FileEnd(gen)
    BY <1>2, <1>3, <2>1, <2>3 DEF FileEnd
  <2>5. QED BY <1>2, <1>3, <2>1, <2>2, <2>4
<1>8. AlertsInv' /\ ReaderInv'
  BY <1>1, <1>2, <1>7, StillBehind DEF reader
<1>9. QED BY <1>5, <1>6, <1>8 DEF IInv

\* The file is emptied: what is in it now begins later.
LEMMA TruncateIInv == ASSUME IInv, Truncate PROVE IInv'
<1>1. /\ start' = [start EXCEPT ![Current] = written] /\ truncations' = truncations + 1
      /\ truncations < MaxTruncations
      /\ UNCHANGED <<written, end, reader, pc, batch, restarts, seen, posted>>
  BY DEF Truncate
<1>2. /\ written \in Nat /\ written \in Bytes \cup {0} /\ Current \in Nat \ {0}
      /\ start \in Seq(Bytes \cup {0})
      /\ \A g \in 1..Current : start[g] \in Nat
      /\ \A g \in 1..(Current - 1) : end[g] \in Nat
  BY Numbers DEF IInv, TypeOK
<1>3. /\ start' \in Seq(Bytes \cup {0}) /\ Current' = Current
      /\ \A g \in 1..Current : start'[g] = IF g = Current THEN written ELSE start[g]
  BY <1>1, <1>2 DEF Current
<1>4. TypeOK'
  BY <1>1, <1>3, Bounds DEF IInv, TypeOK, reader, Current
<1>5. LogInv'
  BY <1>1, <1>2, <1>3 DEF IInv, LogInv
<1>6. pc # "open" => /\ Position' \in Nat /\ Position <= Position' /\ gen \in 1..Current'
                     /\ FileEnd(gen)' = FileEnd(gen) /\ FileEnd(gen) \in Nat
  <2> SUFFICES ASSUME pc # "open"
               PROVE  /\ Position' \in Nat /\ Position <= Position' /\ gen \in 1..Current'
                      /\ FileEnd(gen)' = FileEnd(gen) /\ FileEnd(gen) \in Nat
    OBVIOUS
  <2>1. gen \in 1..Current /\ FileEnd(gen) \in Nat /\ gen' = gen /\ offset' = offset
    BY <1>1, EndFacts DEF IInv, reader
  <2>2. start[gen] \in Nat /\ start'[gen] \in Nat /\ start[gen] <= start'[gen] /\ offset \in Nat
    BY <1>2, <1>3, <2>1, Numbers DEF IInv, LogInv
  <2>3. FileEnd(gen)' = FileEnd(gen)
    BY <1>1, <1>3, <2>1 DEF FileEnd
  <2>4. QED BY <1>3, <2>1, <2>2, <2>3 DEF Position
<1>7. AlertsInv' /\ ReaderInv'
  BY <1>1, <1>2, <1>6, StillBehind DEF reader
<1>8. QED BY <1>4, <1>5, <1>7 DEF IInv

\* What the log is does not depend on the forwarder.
LEMMA SameLog ==
  ASSUME IInv, UNCHANGED log
  PROVE  /\ LogInv' /\ Current' = Current /\ written' = written /\ start' = start
         /\ \A g \in 1..Current : FileEnd(g)' = FileEnd(g)
  BY DEF IInv, LogInv, log, Current, FileEnd

\* After readline the forwarder is past the line and all that it had read before.
LEMMA ReadLineFacts ==
  ASSUME IInv, pc # "open", pc' # "open", UNCHANGED log, UNCHANGED gen, ReadLine
  PROVE  /\ offset' \in Bytes \cup {0} /\ line' \subseteq Bytes /\ Cardinality(line') <= 2
         /\ gen' \in 1..Current' /\ \A b \in line' : b <= Position' /\ b <= FileEnd(gen)'
         /\ \A k \in Nat : 2 * k <= Position /\ 2 * k <= FileEnd(gen) => Behind(k)'
<1>1. /\ NextBytes \subseteq Bytes
      /\ Cardinality(NextBytes) \in 0..2
      /\ \A b \in NextBytes : /\ b \in Nat /\ Position < b
                              /\ b <= Position + Cardinality(NextBytes)
                              /\ b <= FileEnd(gen)
      /\ offset + Cardinality(NextBytes) \in Bytes \cup {0}
  BY NextBytesFacts DEF IInv
<1>2. /\ gen \in 1..Current /\ Position \in Nat
      /\ FileEnd(gen) \in Nat /\ FileEnd(gen) <= written
      /\ start[gen] \in Nat /\ offset \in Nat /\ written \in Nat
  BY EndFacts, Numbers DEF IInv
<1>3. line' = NextBytes /\ offset' = offset + Cardinality(NextBytes) /\ gen' = gen
  BY DEF ReadLine
<1>4. Position' = Position + Cardinality(NextBytes)
  BY <1>1, <1>2, <1>3, SameLog DEF Position
<1>5. Current' = Current /\ FileEnd(gen)' = FileEnd(gen) /\ written' = written
  BY <1>2, <1>3, SameLog DEF FileEnd, log, Current
<1>6. ASSUME NEW k \in Nat, 2 * k <= Position, 2 * k <= FileEnd(gen) PROVE Behind(k)'
  <2>1. 2 * k \in Nat
    OBVIOUS
  <2>2. 2 * k <= written' /\ 2 * k <= Position' /\ 2 * k <= FileEnd(gen)'
    BY <1>1, <1>2, <1>4, <1>5, <1>6, <2>1
  <2>3. \A b \in line' : 2 * k < b
    BY <1>1, <1>2, <1>3, <1>6, <2>1
  <2>4. QED BY <2>2, <2>3 DEF Behind
<1>7. Cardinality(line') <= 2
  BY <1>1, <1>3
<1>8. \A b \in line' : b <= Position' /\ b <= FileEnd(gen)'
  BY <1>1, <1>3, <1>4, <1>5
<1>9. QED BY <1>1, <1>2, <1>3, <1>5, <1>6, <1>7, <1>8

\* What is behind the forwarder.
LEMMA BehindFacts ==
  ASSUME IInv, pc # "open", NEW k \in seen
  PROVE  /\ k \in Nat
         /\ 2 * k <= Position /\ 2 * k <= FileEnd(gen)
         /\ 2 * k <= written
         /\ \A b \in line : 2 * k < b
  BY AlertsFacts DEF IInv, AlertsInv, Behind

\* A forwarder that starts is at the end of the file.
LEMMA OpenIInv == ASSUME IInv, Open PROVE IInv'
<1>1. /\ pc = "open" /\ pc' = "read" /\ gen' = Current /\ offset' = written - start[Current]
      /\ UNCHANGED <<log, line, batch, restarts, seen, posted>>
  BY DEF Open, StartingPoint
<1>2. /\ written \in Nat /\ Current \in Nat \ {0} /\ start[Current] \in Nat
      /\ start[Current] <= written /\ written <= 2 * MaxLines
  BY Numbers DEF IInv, LogInv
<1>3. offset' \in Bytes \cup {0}
  BY <1>1, <1>2, Bounds DEF Bytes
<1>4. line' = {}
  BY <1>1 DEF IInv, ReaderInv
<1>5. TypeOK'
  BY <1>1, <1>2, <1>3 DEF IInv, TypeOK, log, Current
<1>6. /\ LogInv' /\ Current' = Current /\ written' = written
      /\ Position' = written /\ FileEnd(gen)' = written
  BY <1>1, <1>2, SameLog DEF Position, FileEnd, Current, log
<1>7. ReaderInv'
  BY <1>1, <1>2, <1>4, <1>6 DEF ReaderInv
<1>8. Alerts' = Alerts /\ seen' = seen
  BY <1>1 DEF Alerts
<1>9. ASSUME NEW k, Behind(k) PROVE Behind(k)'
  BY <1>4, <1>6, <1>9 DEF Behind
<1>10. AlertsInv'
  BY <1>8, <1>9 DEF IInv, AlertsInv
<1>11. QED BY <1>5, <1>6, <1>7, <1>10 DEF IInv

\* The readline at the top of the loop.
LEMMA ReadIInv == ASSUME IInv, Read PROVE IInv'
<1>1. /\ pc = "read" /\ ReadLine /\ pc' \in {"check", "fill"}
      /\ pc' = "check" => line' = {}
      /\ UNCHANGED <<log, gen, batch, restarts, seen, posted>>
  BY DEF Read, ReadLine
<1>2. /\ offset' \in Bytes \cup {0} /\ line' \subseteq Bytes /\ Cardinality(line') <= 2
      /\ gen' \in 1..Current' /\ \A b \in line' : b <= Position' /\ b <= FileEnd(gen)'
      /\ \A k \in Nat : 2 * k <= Position /\ 2 * k <= FileEnd(gen) => Behind(k)'
  BY <1>1, ReadLineFacts
<1>3. TypeOK'
  BY <1>1, <1>2 DEF IInv, TypeOK, log, Current
<1>4. ReaderInv'
  BY <1>1, <1>2 DEF ReaderInv
<1>5. Alerts' = Alerts /\ seen' = seen
  BY <1>1 DEF Alerts
<1>6. AlertsInv'
  BY <1>1, <1>2, <1>5, BehindFacts DEF IInv, AlertsInv
<1>7. QED BY <1>1, <1>3, <1>4, <1>6, SameLog DEF IInv

\* The file is open again under another inode, or is the same.
LEMMA CheckIInv == ASSUME IInv, Check PROVE IInv'
<1>1. /\ pc = "check" /\ pc' = "read" /\ line' = {} /\ line = {}
      /\ UNCHANGED <<log, line, batch, restarts, seen, posted>>
      /\ \/ gen # Current /\ gen' = Current /\ offset' = 0
         \/ UNCHANGED <<gen, offset>>
  BY DEF Check, Renamed, IInv, ReaderInv
<1>2. /\ Current \in Nat \ {0} /\ written \in Nat
      /\ \A g \in 1..Current : start[g] \in Nat
      /\ gen \in 1..Current
  BY <1>1, Numbers, EndFacts DEF IInv
<1>3. TypeOK'
  BY <1>1, <1>2 DEF IInv, TypeOK, log, Current
<1>4. LogInv' /\ ReaderInv'
  BY <1>1, <1>2, SameLog DEF ReaderInv
<1>5. Alerts' = Alerts /\ seen' = seen
  BY <1>1 DEF Alerts
<1>6. ASSUME NEW k \in seen PROVE Behind(k)'
  <2>1. /\ k \in Nat
        /\ 2 * k <= Position /\ 2 * k <= FileEnd(gen)
        /\ 2 * k <= written
    BY <1>1, BehindFacts
  <2>2. CASE gen # Current /\ gen' = Current /\ offset' = 0
    <3>1. gen \in 1..(Current - 1) /\ FileEnd(gen) = end[gen] /\ end[gen] \in Nat
      BY <1>2, <2>2, Numbers DEF IInv, FileEnd
    <3>2. end[gen] <= start[Current]
      BY <1>2, <3>1 DEF IInv, LogInv
    <3>3. Position' = start[Current] /\ FileEnd(gen)' = written /\ written' = written
      BY <1>1, <1>2, <2>2, SameLog DEF Position, FileEnd, Current, log
    <3>4. 2 * k \in Nat /\ start[Current] \in Nat
      BY <1>2, <2>1
    <3>5. QED BY <1>1, <2>1, <3>1, <3>2, <3>3, <3>4 DEF Behind
  <2>3. CASE UNCHANGED <<gen, offset>>
    <3>1. Position' = Position /\ FileEnd(gen)' = FileEnd(gen) /\ written' = written
      BY <1>1, <2>3, SameLog DEF Position, FileEnd, Current, log
    <3>2. QED BY <1>1, <2>1, <3>1 DEF Behind
  <2>4. QED BY <1>1, <2>2, <2>3
<1>7. AlertsInv'
  BY <1>5, <1>6 DEF IInv, AlertsInv
<1>8. QED BY <1>3, <1>4, <1>7 DEF IInv

\* A line is kept: it comes after all alerts kept before.
LEMMA FillIInv == ASSUME IInv, Fill PROVE IInv'
<1>1. /\ pc = "fill" /\ pc' = "fill" /\ ReadLine
      /\ Len(batch) < BatchMax /\ Keep(line)
      /\ UNCHANGED <<log, gen, restarts, posted>>
  BY DEF Fill, Room
<1>2. /\ offset' \in Bytes \cup {0} /\ line' \subseteq Bytes /\ Cardinality(line') <= 2
      /\ gen' \in 1..Current' /\ \A b \in line' : b <= Position' /\ b <= FileEnd(gen)'
      /\ \A k \in Nat : 2 * k <= Position /\ 2 * k <= FileEnd(gen) => Behind(k)'
  BY <1>1, ReadLineFacts
<1>3. ReaderInv'
  BY <1>1, <1>2 DEF ReaderInv
<1>5. CASE UNCHANGED <<batch, seen>>
  <2>1. TypeOK'
    BY <1>1, <1>2, <1>5 DEF IInv, TypeOK, log, Current
  <2>2. Alerts' = Alerts /\ seen' = seen
    BY <1>1, <1>5 DEF Alerts
  <2>3. AlertsInv'
    BY <1>1, <1>2, <2>2, BehindFacts DEF IInv, AlertsInv
  <2>4. QED BY <1>1, <1>3, <2>1, <2>3, SameLog DEF IInv
<1>6. ASSUME NEW n \in WholeIn(line), batch' = Append(batch, n), seen' = seen \cup {n}
      PROVE  IInv'
  <2>1. n \in Lines /\ n \in Nat /\ line = {2 * n - 1, 2 * n}
    BY Bounds DEF WholeIn, Lines
  <2>2. 2 * n <= Position /\ 2 * n <= FileEnd(gen)
    BY <1>1, <2>1 DEF IInv, ReaderInv
  <2>3. \A i \in DOMAIN Alerts : Alerts[i] < n
    <3> SUFFICES ASSUME NEW i \in DOMAIN Alerts PROVE Alerts[i] < n
      OBVIOUS
    <3>1. Alerts[i] \in Nat /\ 2 * Alerts[i] < 2 * n - 1
      BY <1>1, <2>1, BehindFacts DEF IInv, AlertsInv
    <3>2. QED BY <2>1, <3>1
  <2>4. /\ batch \in Seq(Lines) /\ posted \in Seq(Lines) /\ Alerts \in Seq(Lines)
        /\ Len(batch') = Len(batch) + 1 /\ batch' \in Seq(Lines)
    BY <1>6, <2>1, AlertsFacts DEF IInv, TypeOK
  <2>5. TypeOK'
    BY <1>1, <1>2, <1>6, <2>1, <2>4, Bounds DEF IInv, TypeOK, log, Current
  <2>6. Alerts' = Append(Alerts, n)
    BY <1>1, <1>6, <2>1, <2>4 DEF Alerts
  <2>7. /\ DOMAIN Alerts' = 1..(Len(Alerts) + 1) /\ DOMAIN Alerts = 1..Len(Alerts)
        /\ \A i \in 1..Len(Alerts) : Alerts'[i] = Alerts[i]
        /\ Alerts'[Len(Alerts) + 1] = n
        /\ Len(Alerts) \in Nat
    BY <2>1, <2>4, <2>6
  <2>8. (\A i \in DOMAIN Alerts' : Alerts'[i] \in seen') /\ \A k \in seen' : Behind(k)'
    <3>1. \A i \in DOMAIN Alerts' : Alerts'[i] \in seen'
      BY <1>6, <2>7 DEF IInv, AlertsInv
    <3>2. Behind(n)'
      BY <1>2, <2>1, <2>2
    <3>3. \A k \in seen : Behind(k)'
      BY <1>1, <1>2, BehindFacts
    <3>4. QED BY <1>6, <3>1, <3>2, <3>3
  <2>9. ASSUME NEW i \in DOMAIN Alerts', NEW j \in DOMAIN Alerts', i < j
        PROVE  Alerts'[i] < Alerts'[j]
    <3>1. i \in 1..Len(Alerts)
      BY <2>7, <2>9
    <3>2. CASE j = Len(Alerts) + 1
      BY <2>3, <2>7, <3>1, <3>2
    <3>3. CASE j \in 1..Len(Alerts)
      BY <2>7, <2>9, <3>1, <3>3 DEF IInv, AlertsInv
    <3>4. QED BY <2>7, <2>9, <3>2, <3>3
  <2>10. AlertsInv'
    BY <2>8, <2>9 DEF AlertsInv
  <2>11. QED BY <1>1, <1>3, <2>5, <2>10, SameLog DEF IInv
<1>7. QED BY <1>1, <1>5, <1>6 DEF Keep

\* The steps that neither read nor keep a line.
LEMMA PostIInv == ASSUME IInv, EndBatch \/ Post PROVE IInv'
<1>1. /\ pc # "open" /\ pc' \in {"read", "post"} /\ line' = {}
      /\ UNCHANGED <<log, gen, offset, restarts>>
  BY DEF EndBatch, Post, reader, IInv, ReaderInv
<1>2. gen \in 1..Current /\ gen' = gen
  BY <1>1, EndFacts DEF IInv
<1>3. Position' = Position /\ FileEnd(gen)' = FileEnd(gen) /\ written' = written
  BY <1>1, SameLog DEF Position, FileEnd, Current, log
<1>4. LogInv' /\ ReaderInv'
  BY <1>1, <1>2, SameLog DEF ReaderInv
<1>5. /\ batch \in Seq(Lines) /\ posted \in Seq(Lines) /\ seen \subseteq Lines
      /\ Alerts \in Seq(Lines)
  BY AlertsFacts DEF IInv, TypeOK
<1>6. /\ batch' \in Seq(Lines) /\ Len(batch') <= BatchMax /\ posted' \in Seq(Lines)
      /\ Alerts' = Alerts
  <2>1. CASE EndBatch
    BY <2>1 DEF EndBatch, IInv, TypeOK, Alerts
  <2>2. CASE Post
    BY <1>5, <2>2, Bounds, ConcatEmptySeq DEF Post, Alerts
  <2>3. QED BY <2>1, <2>2
<1>7. seen' \subseteq Lines
  BY <1>5 DEF EndBatch, Post, WholeIn
<1>8. TypeOK'
  BY <1>1, <1>6, <1>7, FS_EmptySet DEF IInv, TypeOK, log, Current
<1>9. AlertsInv'
  <2>1. ASSUME NEW k, Behind(k) PROVE Behind(k)'
    BY <1>1, <1>3, <2>1 DEF Behind
  <2>2. ASSUME NEW n \in WholeIn(line), EndBatch PROVE Behind(n)'
    <3>1. n \in Nat /\ 2 * n \in line
      BY Bounds DEF WholeIn, Lines
    <3>2. 2 * n <= Position /\ 2 * n <= FileEnd(gen) /\ 2 * n <= written
      <4>1. 2 * n <= Position /\ 2 * n <= FileEnd(gen)
        BY <1>1, <3>1 DEF IInv, ReaderInv
      <4>2. QED BY <1>1, <3>1, <4>1, EndFacts, Numbers DEF IInv
    <3>3. QED BY <1>1, <1>3, <3>2 DEF Behind
  <2>3. /\ seen \subseteq seen'
        /\ \A k \in seen' : k \in seen \/ (EndBatch /\ k \in WholeIn(line))
    BY DEF EndBatch, Post
  <2>4. QED BY <1>6, <2>1, <2>2, <2>3 DEF IInv, AlertsInv
<1>10. QED BY <1>4, <1>8, <1>9 DEF IInv

\* A forwarder that dies forgets its batch; what it has posted stays.
LEMMA RestartIInv == ASSUME IInv, Restart PROVE IInv'
<1>1. /\ pc' = "open" /\ gen' = 0 /\ offset' = 0 /\ line' = {} /\ batch' = <<>>
      /\ restarts < MaxRestarts /\ restarts' = restarts + 1 /\ seen' = Range(posted)
      /\ UNCHANGED <<log, posted>>
  BY DEF Restart
<1>2. batch \in Seq(Lines) /\ posted \in Seq(Lines) /\ Range(posted) \subseteq Lines
  BY DEF IInv, TypeOK, Range
<1>3. TypeOK'
  BY <1>1, <1>2, Bounds, FS_EmptySet, Numbers DEF IInv, TypeOK, log, Current
<1>4. LogInv' /\ ReaderInv'
  BY <1>1, SameLog DEF ReaderInv
<1>5. /\ Alerts' = posted /\ DOMAIN posted \subseteq DOMAIN Alerts
      /\ \A i \in DOMAIN posted : Alerts[i] = posted[i]
  <2>1. Alerts' = posted
    BY <1>1, <1>2, ConcatEmptySeq DEF Alerts
  <2>2. /\ Len(Alerts) = Len(posted) + Len(batch)
        /\ \A i \in 1..(Len(posted) + Len(batch)) :
             Alerts[i] = IF i <= Len(posted) THEN posted[i] ELSE batch[i - Len(posted)]
    BY <1>2, ConcatProperties DEF Alerts
  <2>3. /\ DOMAIN posted = 1..Len(posted) /\ DOMAIN Alerts = 1..Len(Alerts)
        /\ Len(posted) \in Nat /\ Len(batch) \in Nat
    BY <1>2, AlertsFacts DEF IInv
  <2>4. QED BY <2>1, <2>2, <2>3
<1>6. ASSUME NEW k, Behind(k) PROVE Behind(k)'
  BY <1>1, <1>6 DEF Behind, log
<1>7. AlertsInv'
  <2>1. \A k \in seen' : k \in seen
    BY <1>1, <1>5 DEF IInv, AlertsInv, Range
  <2>2. \A i \in DOMAIN Alerts' : Alerts'[i] \in seen'
    BY <1>1, <1>5 DEF Range
  <2>3. QED BY <1>5, <1>6, <2>1, <2>2 DEF IInv, AlertsInv
<1>8. QED BY <1>3, <1>4, <1>7 DEF IInv

\* Every step keeps the invariant.
LEMMA NextIInv == ASSUME IInv, [Next]_vars PROVE IInv'
<1>1. CASE UNCHANGED vars
  BY <1>1 DEF vars, log, reader, IInv, TypeOK, LogInv, ReaderInv, AlertsInv, Alerts, Behind,
              Position, FileEnd, Current
<1>2. CASE BeginLine \/ EndLine \/ Rotate \/ Truncate \/ Restart
  BY <1>2, AppendIInv, RotateIInv, TruncateIInv, RestartIInv
<1>3. CASE Forward
  BY <1>3, OpenIInv, ReadIInv, CheckIInv, FillIInv, PostIInv DEF Forward
<1>4. QED BY <1>1, <1>2, <1>3 DEF Next

\* Every reachable state satisfies the invariant.
THEOREM Invariance == Spec => []IInv
<1>1. Init => IInv
  BY InitIInv
<1>2. IInv /\ [Next]_vars => IInv'
  BY NextIInv
<1>3. QED BY <1>1, <1>2, PTL DEF Spec

\* Every reachable state is well typed.
THEOREM TypeCorrect == Spec => []TypeOK
<1>1. IInv => TypeOK
  BY DEF IInv
<1>2. QED BY <1>1, Invariance, PTL

\* Whatever is rotated, truncated or restarted, no alert is posted twice or out
\* of order: ingest_ids_alerts needs no deduplication (network.py:262-263).
THEOREM NothingPostedTwice == Spec => []PostedOnceInOrder
<1>1. IInv => PostedOnceInOrder
  BY DEF IInv, AlertsInv, Alerts, PostedOnceInOrder
<1>2. QED BY <1>1, Invariance, PTL

-----------------------------------------------------------------------------
(* Losses.                                                                 *)

\* The alerts posted, or about to be, that lie between two lines.
Between(i, j) == {k \in Range(Alerts) : i < k /\ k < j}

\* Until the batch is complete whatever was dropped lies below all of it: the line
\* that the next full batch makes the forwarder drop will have all of it in between.
LossInv ==
  /\ \A i, j \in Dropped : i < j => Cardinality(Between(i, j)) >= BatchMax
  /\ pc # "post" => \A d \in Dropped, n \in DOMAIN batch : d < batch[n]

\* The elements of a sequence that follows another.
LEMMA ConcatRange ==
  ASSUME NEW p \in Seq(Lines), NEW b \in Seq(Lines)
  PROVE  /\ Range(p \o b) = Range(p) \cup Range(b)
         /\ \A n \in DOMAIN b : Len(p) + n \in DOMAIN (p \o b) /\ (p \o b)[Len(p) + n] = b[n]
<1>1. /\ Len(p) \in Nat /\ Len(b) \in Nat
      /\ DOMAIN p = 1..Len(p) /\ DOMAIN b = 1..Len(b)
  OBVIOUS
<1>2. /\ p \o b \in Seq(Lines)
      /\ Len(p \o b) = Len(p) + Len(b)
      /\ \A i \in 1..(Len(p) + Len(b)) :
           (p \o b)[i] = IF i <= Len(p) THEN p[i] ELSE b[i - Len(p)]
  BY ConcatProperties
<1>3. DOMAIN (p \o b) = 1..(Len(p) + Len(b))
  BY <1>2
<1>4. ASSUME NEW n \in DOMAIN b
      PROVE  Len(p) + n \in DOMAIN (p \o b) /\ (p \o b)[Len(p) + n] = b[n]
  BY <1>1, <1>2, <1>3
<1>5. ASSUME NEW n \in DOMAIN p PROVE n \in DOMAIN (p \o b) /\ (p \o b)[n] = p[n]
  BY <1>1, <1>2, <1>3
<1>6. ASSUME NEW i \in DOMAIN (p \o b) PROVE (p \o b)[i] \in Range(p) \cup Range(b)
  <2>1. CASE i <= Len(p)
    <3>1. i \in DOMAIN p /\ (p \o b)[i] = p[i]
      BY <1>1, <1>2, <1>3, <2>1
    <3>2. QED BY <3>1 DEF Range
  <2>2. CASE ~(i <= Len(p))
    <3>1. i - Len(p) \in DOMAIN b /\ (p \o b)[i] = b[i - Len(p)]
      BY <1>1, <1>2, <1>3, <2>2
    <3>2. QED BY <3>1 DEF Range
  <2>3. QED BY <2>1, <2>2
<1>7. Range(p) \cup Range(b) \subseteq Range(p \o b)
  BY <1>4, <1>5 DEF Range
<1>8. Range(p \o b) \subseteq Range(p) \cup Range(b)
  BY <1>6 DEF Range
<1>9. QED BY <1>4, <1>7, <1>8

\* The alerts posted and those in the batch.
LEMMA AlertsRange ==
  ASSUME TypeOK
  PROVE  /\ Range(Alerts) = Range(posted) \cup Range(batch)
         /\ \A n \in DOMAIN batch :
              Len(posted) + n \in DOMAIN Alerts /\ Alerts[Len(posted) + n] = batch[n]
  BY ConcatRange DEF TypeOK, Alerts

\* What lies between two lines can be counted.
LEMMA FiniteBetween ==
  ASSUME NEW s \in Seq(Lines), NEW i, NEW j
  PROVE  /\ IsFiniteSet({k \in Range(s) : i < k /\ k < j})
         /\ Cardinality({k \in Range(s) : i < k /\ k < j}) \in Nat
<1>1. IsFiniteSet(Lines)
  BY Bounds, FS_Interval DEF Lines
<1>2. {k \in Range(s) : i < k /\ k < j} \subseteq Lines
  BY DEF Range
<1>3. QED BY <1>1, <1>2, FS_Subset, FS_CardinalityType

\* So can the alerts between them.
LEMMA BetweenFinite ==
  ASSUME TypeOK, NEW i, NEW j
  PROVE  IsFiniteSet(Between(i, j)) /\ Cardinality(Between(i, j)) \in Nat
  BY AlertsFacts, FiniteBetween DEF Between

\* The batch is in order.
LEMMA BatchOrdered ==
  ASSUME IInv, NEW k \in DOMAIN batch, NEW l \in DOMAIN batch, batch[k] = batch[l]
  PROVE  k = l
<1>1. /\ Len(posted) \in Nat /\ Len(batch) \in Nat /\ DOMAIN batch = 1..Len(batch)
  BY DEF IInv, TypeOK
<1>2. ASSUME NEW n \in DOMAIN batch
      PROVE  /\ Len(posted) + n \in DOMAIN Alerts /\ Alerts[Len(posted) + n] = batch[n]
             /\ batch[n] \in Nat
  BY AlertsRange, AlertsFacts DEF IInv
<1>3. ASSUME NEW m \in DOMAIN batch, NEW n \in DOMAIN batch, m < n PROVE batch[m] < batch[n]
  <2>1. Len(posted) + m < Len(posted) + n
    BY <1>1, <1>3
  <2>2. QED BY <1>2, <2>1 DEF IInv, AlertsInv
<1>4. k < l \/ l < k \/ k = l
  BY <1>1
<1>5. batch[k] \in Nat /\ batch[l] \in Nat
  BY <1>2
<1>6. CASE k < l
  BY <1>3, <1>5, <1>6
<1>7. CASE l < k
  BY <1>3, <1>5, <1>7
<1>8. QED BY <1>4, <1>6, <1>7

\* A step that neither sees an alert nor changes the batch loses nothing.
LEMMA SameLoss ==
  ASSUME LossInv, UNCHANGED <<seen, posted, batch>>, pc' # "post" => pc # "post"
  PROVE  LossInv'
  BY DEF LossInv, Dropped, Between, Alerts

\* A line is kept: what was dropped came before it.
LEMMA FillLoss == ASSUME IInv, IInv', LossInv, Fill PROVE LossInv'
<1>1. /\ pc = "fill" /\ pc' = "fill" /\ Keep(line) /\ UNCHANGED posted
  BY DEF Fill
<1>2. CASE UNCHANGED <<batch, seen>>
  BY <1>1, <1>2, SameLoss
<1>3. ASSUME NEW n \in WholeIn(line), batch' = Append(batch, n), seen' = seen \cup {n}
      PROVE  LossInv'
  <2>1. n \in Lines /\ n \in Nat /\ line = {2 * n - 1, 2 * n}
    BY Bounds DEF WholeIn, Lines
  <2>2. /\ batch \in Seq(Lines) /\ DOMAIN batch = 1..Len(batch) /\ Len(batch) \in Nat
        /\ DOMAIN batch' = 1..(Len(batch) + 1)
        /\ \A i \in 1..Len(batch) : batch'[i] = batch[i]
        /\ batch'[Len(batch) + 1] = n
    <3>1. batch \in Seq(Lines)
      BY DEF IInv, TypeOK
    <3>2. QED BY <1>3, <2>1, <3>1
  <2>3. Range(batch') = Range(batch) \cup {n}
    BY <2>2 DEF Range
  <2>4. /\ Range(Alerts)' = Range(Alerts) \cup {n} /\ Dropped' \subseteq Dropped
        /\ Alerts' \in Seq(Lines)
    <3>1. posted \in Seq(Lines) /\ batch' \in Seq(Lines)
      BY <1>3, <2>1, <2>2 DEF IInv, TypeOK
    <3>2. Alerts' = posted \o batch'
      BY <1>1 DEF Alerts
    <3>3. Range(Alerts') = Range(posted) \cup Range(batch')
      BY <3>1, <3>2, ConcatRange
    <3>4. Range(Alerts) = Range(posted) \cup Range(batch)
      BY AlertsRange DEF IInv
    <3>5. Dropped' \subseteq Dropped
      BY <1>1, <1>3, <2>3 DEF Dropped
    <3>6. QED BY <2>3, <3>1, <3>2, <3>3, <3>4, <3>5, ConcatProperties
  <2>5. ASSUME NEW d \in Dropped PROVE d < n
    <3>1. d \in Nat /\ 2 * d < 2 * n - 1
      BY <1>1, <2>1, BehindFacts DEF Dropped
    <3>2. QED BY <2>1, <3>1
  <2>6. ASSUME NEW i \in Dropped', NEW j \in Dropped', i < j
        PROVE  Cardinality(Between(i, j)') >= BatchMax
    <3>1. Between(i, j) \subseteq Between(i, j)'
      BY <2>4 DEF Between
    <3>2. IsFiniteSet(Between(i, j)') /\ Cardinality(Between(i, j)') \in Nat
      BY <2>4, FiniteBetween DEF Between
    <3>3. Cardinality(Between(i, j)) <= Cardinality(Between(i, j)')
      BY <3>1, <3>2, FS_Subset
    <3>4. Cardinality(Between(i, j)) >= BatchMax
      BY <2>4, <2>6 DEF LossInv
    <3>5. QED BY <3>2, <3>3, <3>4, BetweenFinite, Bounds DEF IInv
  <2>7. ASSUME NEW d \in Dropped', NEW k \in DOMAIN batch' PROVE d < batch'[k]
    <3>1. CASE k = Len(batch) + 1
      BY <2>2, <2>4, <2>5, <3>1
    <3>2. CASE k \in 1..Len(batch)
      BY <1>1, <2>2, <2>4, <3>2 DEF LossInv
    <3>3. QED BY <2>2, <3>1, <3>2
  <2>8. QED BY <1>1, <2>6, <2>7 DEF LossInv
<1>4. QED BY <1>1, <1>2, <1>3 DEF Keep

\* A full batch makes the forwarder drop the line in hand: the batch lies between
\* that line and whatever was dropped before.
LEMMA EndBatchLoss == ASSUME IInv, IInv', LossInv, EndBatch PROVE LossInv'
<1>1. /\ pc = "fill" /\ UNCHANGED <<batch, posted>> /\ (line = {} \/ ~Room)
      /\ pc' = (IF batch = <<>> THEN "read" ELSE "post")
      /\ seen' \in {seen, seen \cup WholeIn(line)}
  BY DEF EndBatch
<1>2. CASE seen' = seen
  BY <1>1, <1>2, SameLoss
<1>3. CASE line = {}
  <2>1. WholeIn(line) = {}
    BY <1>3 DEF WholeIn
  <2>2. QED BY <1>1, <1>2, <2>1
<1>4. CASE seen' = seen \cup WholeIn(line) /\ ~Room
  <2>1. /\ batch \in Seq(Lines) /\ Len(batch) = BatchMax /\ DOMAIN batch = 1..BatchMax
        /\ BatchMax \in Nat \ {0}
    BY <1>4, Bounds DEF IInv, TypeOK, Room
  <2>2. pc' = "post"
    BY <1>1, <2>1
  <2>3. Alerts' = Alerts /\ Dropped' \subseteq Dropped \cup WholeIn(line) /\ Dropped \subseteq seen
    BY <1>1, <1>4 DEF Alerts, Dropped
  <2>4. ASSUME NEW n \in WholeIn(line)
        PROVE  n \in Nat /\ 2 * n - 1 \in line /\ line = {2 * n - 1, 2 * n}
    BY <2>4, Bounds DEF WholeIn, Lines
  <2>5. ASSUME NEW n \in WholeIn(line), NEW k \in seen PROVE k \in Nat /\ k < n
    <3>1. k \in Nat /\ 2 * k < 2 * n - 1
      BY <1>1, <2>4, BehindFacts
    <3>2. QED BY <2>4, <3>1
  <2>6. ASSUME NEW i \in Dropped', NEW j \in Dropped', i < j
        PROVE  Cardinality(Between(i, j)') >= BatchMax
    <3>1. Between(i, j)' = Between(i, j)
      BY <2>3 DEF Between
    <3>2. CASE i \in Dropped /\ j \in Dropped
      BY <2>6, <3>1, <3>2 DEF LossInv
    <3>3. i \notin WholeIn(line)
      <4> SUFFICES ASSUME i \in WholeIn(line) PROVE FALSE
        OBVIOUS
      <4>1. i \in Nat /\ line = {2 * i - 1, 2 * i}
        BY <2>4
      <4>2. CASE j \in seen
        BY <2>5, <2>6, <4>1, <4>2
      <4>3. CASE j \in WholeIn(line)
        <5>1. j \in Nat /\ 2 * j - 1 \in {2 * i - 1, 2 * i}
          BY <2>4, <4>1, <4>3
        <5>2. QED BY <2>6, <4>1, <5>1
      <4>4. QED BY <2>3, <4>2, <4>3
    <3>4. CASE i \in Dropped /\ j \in WholeIn(line)
      <4>1. ASSUME NEW k \in 1..BatchMax PROVE batch[k] \in Between(i, j)
        <5>1. PICK a \in DOMAIN Alerts : Alerts[a] = batch[k]
          BY <2>1, AlertsRange DEF IInv
        <5>2. batch[k] \in Range(Alerts) /\ batch[k] \in seen
          BY <5>1 DEF Range, IInv, AlertsInv
        <5>3. i < batch[k] /\ batch[k] < j
          BY <1>1, <2>1, <2>5, <3>4, <5>2 DEF LossInv
        <5>4. QED BY <5>2, <5>3 DEF Between
      <4>2. ASSUME NEW k \in 1..BatchMax, NEW l \in 1..BatchMax, batch[k] = batch[l] PROVE k = l
        BY <2>1, <4>2, BatchOrdered
      <4>3. batch \in Injection(1..BatchMax, Between(i, j))
        <5>1. batch \in [1..BatchMax -> Between(i, j)]
          BY <2>1, <4>1
        <5>2. QED BY <4>2, <5>1 DEF Injection, IsInjective
      <4>4. Cardinality(1..BatchMax) <= Cardinality(Between(i, j))
        BY <4>3, BetweenFinite, FS_Injection DEF IInv
      <4>5. Cardinality(1..BatchMax) = BatchMax
        BY <2>1, FS_Interval
      <4>6. QED BY <2>1, <3>1, <4>4, <4>5, BetweenFinite DEF IInv
    <3>5. QED BY <2>3, <3>2, <3>3, <3>4
  <2>7. QED BY <2>2, <2>6 DEF LossInv
<1>5. QED BY <1>1, <1>2, <1>3, <1>4

\* The batch is posted, and there is room again.
LEMMA PostLoss == ASSUME IInv, IInv', LossInv, Post PROVE LossInv'
<1>1. posted' = posted \o batch /\ batch' = <<>> /\ seen' = seen
  BY DEF Post
<1>2. Alerts' = Alerts
  <2>1. posted \o batch \in Seq(Lines)
    BY AlertsFacts DEF IInv, Alerts
  <2>2. QED BY <1>1, <2>1, ConcatEmptySeq DEF Alerts
<1>3. Dropped' = Dropped
  <2>1. Range(posted') = Range(posted) \cup Range(batch)
    BY <1>1, AlertsRange DEF IInv, Alerts
  <2>2. Range(batch') = {}
    BY <1>1 DEF Range
  <2>3. QED BY <1>1, <2>1, <2>2 DEF Dropped
<1>4. QED BY <1>1, <1>2, <1>3 DEF LossInv, Between

\* A forwarder that starts again has dropped nothing.
LEMMA RestartLoss == ASSUME Restart PROVE LossInv'
<1>1. seen' = Range(posted) /\ posted' = posted
  BY DEF Restart
<1>2. Dropped' = {}
  BY <1>1 DEF Dropped
<1>3. QED BY <1>2 DEF LossInv

\* Every step keeps it.
LEMMA NextLoss == ASSUME IInv, IInv', LossInv, [Next]_vars PROVE LossInv'
<1>1. CASE UNCHANGED vars
  BY <1>1, SameLoss DEF vars
<1>2. CASE BeginLine \/ EndLine \/ Rotate \/ Truncate
  BY <1>2, SameLoss DEF BeginLine, EndLine, Rotate, Truncate
<1>3. CASE Open \/ Read \/ Check
  BY <1>3, SameLoss DEF Open, Read, Check
<1>4. CASE Fill \/ EndBatch \/ Post \/ Restart
  BY <1>4, FillLoss, EndBatchLoss, PostLoss, RestartLoss
<1>5. QED BY <1>1, <1>2, <1>3, <1>4 DEF Next, Forward

\* Between two alerts that one process read and dropped lie a whole batch that it
\* posts: a burst costs one alert for each full batch, never two in a row
\* (the inner loop of forwarder.py:126-134, which leaves with a line in hand).
THEOREM LossesApart == Spec => []OneLossPerBatch
<1>1. Init => LossInv
  BY DEF Init, LossInv, Dropped
<1>2. IInv /\ IInv' /\ LossInv /\ [Next]_vars => LossInv'
  BY NextLoss
<1>3. LossInv => OneLossPerBatch
  BY DEF LossInv, OneLossPerBatch, Between, Alerts
<1>4. QED BY <1>1, <1>2, <1>3, Invariance, PTL DEF Spec

=============================================================================
