------------------------- MODULE NetworkIngest_proofs -------------------------
(***************************************************************************)
(* Two inductive invariants of the network tables.  Inv is about the       *)
(* events of flows, whose deduplication reads committed rows without a     *)
(* lock: for the events a request is going to commit, each committed event *)
(* of the same key is older than the window or comes from a request that   *)
(* overlapped it.  Inventory is about the devices: what a scan may rely on *)
(* between its reads, its locks and its commit.                            *)
(***************************************************************************)
EXTENDS NetworkIngest, NaturalSets, FiniteSetTheorems, TLAPS

FlowKinds == {"outbound_suspicious", "port_scan"}

\* A request has the fields that the invariant speaks of.
Shape(t) == {"pc", "kind", "body", "start", "events"} \subseteq DOMAIN t

\* Requests, the clock and the times of the events.
Basic ==
  /\ now \in Nat
  /\ tx = [r \in Requests |-> tx[r]]
  /\ \A r \in Requests : Shape(tx[r]) /\ tx[r].start \in 0..now
  /\ \A e \in events : e.at \in Nat /\ e.at <= now

\* Only a request that works holds events, its own, and of the time it began.
Pending == \A r \in Requests : \A e \in tx[r].events : r \in Active /\ e.of = r /\ e.at = tx[r].start

\* Flow requests have no flush.
FlowsMark == \A r \in Requests : tx[r].kind = "flows" => tx[r].pc \in {"mark", "done"}

Overlaps == \A q, r \in Active : q # r => Overlapped(q, r)

\* What FlowsOnRecord says of the answered batches, said of those in progress as well.
Recorded ==
  \A r \in Requests : tx[r].kind = "flows" =>
    TellOf(events \cup tx[r].events, tx[r].body, tx[r].start)

\* What deduplication has seen, or could not see.
Deduplicated ==
  \A r \in Requests : \A e \in tx[r].events : \A f \in events :
    e.kind \in FlowKinds /\ SameKey(e, f) => f.at + DedupWindow < e.at \/ Overlapped(f.of, r)

Once ==
  \A e, f \in events :
    e.kind \in FlowKinds /\ SameKey(e, f) /\ e.of # f.of
      /\ e.at <= f.at /\ f.at <= e.at + DedupWindow => Overlapped(e.of, f.of)

Inv == Basic /\ Pending /\ FlowsMark /\ Overlaps /\ Recorded /\ Deduplicated /\ Once

LEMMA InvStart == Init => Inv
<1> SUFFICES ASSUME Init PROVE Inv
  OBVIOUS
<1>1. /\ now = 1 /\ events = {}
      /\ tx = [r \in Requests |-> Idle]
  BY DEF Init, EventInit
<1>2. \A r \in Requests : tx[r] = Idle
  BY <1>1
<1>3. \A r \in Requests : Shape(tx[r]) /\ tx[r].start = 0 /\ tx[r].pc = "idle"
                           /\ tx[r].kind = "none" /\ tx[r].events = {}
  BY <1>2 DEF Shape, Idle
<1>4. Basic
  BY <1>1, <1>3 DEF Basic
<1>5. Active = {}
  BY <1>3 DEF Active, Busy
<1> QED
  BY <1>1, <1>3, <1>4, <1>5
  DEF Inv, Pending, FlowsMark, Overlaps, Recorded, Deduplicated, Once

\* Time passes: nothing but the clock and the feed changes.
LEMMA TickKeeps == ASSUME Inv, Tick /\ Others PROVE Inv'
<1>1. /\ UNCHANGED <<events, tx, overlaps>>
      /\ now \in Nat /\ now' = now + 1
  BY DEF Tick, Others, Inv, Basic
<1>2. Active' = Active
  BY <1>1 DEF Active
<1>3. Basic'
  BY <1>1 DEF Inv, Basic, Shape
<1>4. Pending'
  BY <1>1, <1>2 DEF Inv, Pending, Basic
<1> QED
  BY <1>1, <1>2, <1>3, <1>4
  DEF Inv, FlowsMark, Overlaps, Recorded, Deduplicated, Once, Overlapped, TellOf, Tells, TellsScan, WithinWindow, SameKey

(***************************************************************************)
(* A step of one request that inserts nothing and leaves its kind, body    *)
(* and start alone, or forgets them.                                       *)
(***************************************************************************)
LEMMA QuietKeeps ==
  ASSUME Inv, NEW r \in Requests, NEW t,
         tx' = [tx EXCEPT ![r] = t], Shape(t), t.start \in 0..now,
         UNCHANGED <<now, events, overlaps>>,
         t.pc \in Busy => r \in Active,
         \/ t.kind = "none" /\ t.events = {}
         \/ /\ t.kind = tx[r].kind /\ t.body = tx[r].body /\ t.start = tx[r].start
            /\ t.kind = "flows" => t.pc = tx[r].pc
            /\ \A e \in t.events : t.pc \in Busy /\ e.of = r /\ e.at = t.start
            /\ \/ t.events = tx[r].events
               \/ t.kind # "flows" /\ \A e \in t.events : e.kind \notin FlowKinds
  PROVE  Inv'
<1>1. \A q \in Requests : tx'[q] = IF q = r THEN t ELSE tx[q]
  BY DEF Inv, Basic
<1>2. Basic'
  BY <1>1 DEF Inv, Basic, Shape
<1>3. Active' \subseteq Active
  BY <1>1 DEF Active
<1>4. \A q \in Requests : q # r => (q \in Active' <=> q \in Active)
  BY <1>1 DEF Active
<1>5. Pending'
  BY <1>1, <1>4 DEF Inv, Pending, Active
<1>6. FlowsMark'
  BY <1>1 DEF Inv, FlowsMark
<1>7. Overlaps'
  BY <1>3 DEF Inv, Overlaps, Overlapped
<1>8. Recorded'
  BY <1>1 DEF Inv, Recorded, TellOf, Tells, TellsScan, WithinWindow
<1>9. Deduplicated'
  BY <1>1 DEF Inv, Deduplicated, Overlapped, SameKey, FlowKinds
<1>10. Once'
  BY DEF Inv, Once, Overlapped
<1> QED BY <1>2, <1>5, <1>6, <1>7, <1>8, <1>9, <1>10 DEF Inv

LEMMA AcquireKeeps == ASSUME Inv, NEW r \in Requests, Acquire(r) PROVE Inv'
<1> DEFINE t == [tx[r] EXCEPT !.held = @ \cup {NextLock(r)}, !.todo = @ \ {NextLock(r)}]
<1>1. Shape(tx[r]) /\ tx[r].start \in 0..now /\ tx = [q \in Requests |-> tx[q]]
  BY DEF Inv, Basic
<1>2. tx' = [tx EXCEPT ![r] = t]
  BY <1>1 DEF Acquire
<1>3. /\ Shape(t) /\ t.start = tx[r].start /\ t.kind = tx[r].kind /\ t.body = tx[r].body
      /\ t.pc = tx[r].pc /\ t.events = tx[r].events
  BY <1>1 DEF Shape
<1>4. UNCHANGED <<now, events, overlaps>>
  BY DEF Acquire, eventVars
<1>5. t.pc \in Busy => r \in Active
  BY <1>3 DEF Active
<1>6. \A e \in t.events : t.pc \in Busy /\ e.of = r /\ e.at = t.start
  BY <1>3 DEF Inv, Pending, Active
<1> HIDE DEF t
<1> QED BY <1>1, <1>2, <1>3, <1>4, <1>5, <1>6, QuietKeeps

LEMMA RollBackKeeps ==
  ASSUME Inv, NEW r \in Requests, NEW how, how \notin Busy, RollBack(r, how) PROVE Inv'
<1> DEFINE t == [Idle EXCEPT !.pc = how]
<1>1. /\ Shape(t) /\ t.start = 0 /\ t.pc = how /\ t.kind = "none" /\ t.events = {}
  BY DEF Shape, Idle
<1>2. tx' = [tx EXCEPT ![r] = t] /\ UNCHANGED <<now, events, overlaps>>
  BY DEF RollBack, eventVars
<1>3. 0 \in 0..now
  BY DEF Inv, Basic
<1> HIDE DEF t
<1> QED BY <1>1, <1>2, <1>3, QuietKeeps

\* A scan inserts no flow events.
LEMMA ScanEvents ==
  ASSUME NEW r, NEW rowOf, NEW e \in Announced(r, rowOf) \cup ArpEvents(r)
  PROVE  e.of = r /\ e.at = tx[r].start /\ e.kind \notin FlowKinds
<1>1. CASE e \in Announced(r, rowOf)
  BY <1>1 DEF Announced, Event, FlowKinds
<1>2. CASE e \in ArpEvents(r)
  BY <1>2 DEF ArpEvents, Event, FlowKinds
<1> QED BY <1>1, <1>2

LEMMA SyncKeeps == ASSUME Inv, NEW r \in Requests, Sync(r) PROVE Inv'
<1>1. PICK rowOf :
        tx' = [tx EXCEPT ![r].pc = "mark", ![r].rowOf = rowOf, ![r].rows = Synced(r, rowOf),
                         ![r].events = Announced(r, rowOf) \cup ArpEvents(r),
                         ![r].down = Absent(r, Range(rowOf)),
                         ![r].todo = Absent(r, Range(rowOf))]
  BY DEF Sync
<1> DEFINE new == Announced(r, rowOf) \cup ArpEvents(r)
           t == [tx[r] EXCEPT !.pc = "mark", !.rowOf = rowOf, !.rows = Synced(r, rowOf),
                              !.events = new, !.down = Absent(r, Range(rowOf)),
                              !.todo = Absent(r, Range(rowOf))]
<1>2. Shape(tx[r]) /\ tx[r].start \in 0..now /\ tx = [q \in Requests |-> tx[q]]
  BY DEF Inv, Basic
<1>3. tx' = [tx EXCEPT ![r] = t]
  BY <1>1, <1>2
<1>4. /\ Shape(t) /\ t.start = tx[r].start /\ t.kind = tx[r].kind /\ t.body = tx[r].body
      /\ t.pc = "mark" /\ t.events = new
  BY <1>2 DEF Shape
<1>5. tx[r].pc = "flush" /\ UNCHANGED <<now, events, overlaps>>
  BY DEF Sync, eventVars
<1>6. r \in Active /\ tx[r].kind # "flows"
  BY <1>5 DEF Inv, FlowsMark, Active, Busy
<1>7. \A e \in new : e.of = r /\ e.at = tx[r].start /\ e.kind \notin FlowKinds
  BY ScanEvents
<1>8. "mark" \in Busy
  BY DEF Busy
<1> HIDE DEF t, new
<1> QED BY <1>2, <1>3, <1>4, <1>5, <1>6, <1>7, <1>8, QuietKeeps

(***************************************************************************)
(* A request starts.                                                       *)
(***************************************************************************)
LEMMA StartKeeps ==
  ASSUME Inv, NEW r \in Requests, NEW t, Start(r, t),
         Shape(t), t.pc \in Busy, t.start = now,
         \A e \in t.events : e.of = r /\ e.at = now,
         t.kind = "flows" =>
           t.pc = "mark" /\ TellOf(events \cup t.events, t.body, now),
         \A e \in t.events, f \in events :
           e.kind \in FlowKinds /\ SameKey(e, f) => f.at + DedupWindow < now
  PROVE  Inv'
<1>1. /\ tx[r].pc = "idle" /\ tx' = [tx EXCEPT ![r] = t] /\ UNCHANGED <<now, events>>
      /\ overlaps' = overlaps \cup {{q, r} : q \in Active}
  BY DEF Start, eventVars
<1>2. \A q \in Requests : tx'[q] = IF q = r THEN t ELSE tx[q]
  BY <1>1 DEF Inv, Basic
<1>3. Basic'
  BY <1>1, <1>2 DEF Inv, Basic, Shape
<1>4. r \notin Active /\ Active' = Active \cup {r}
  BY <1>1, <1>2 DEF Active, Busy
<1>5. Pending'
  BY <1>1, <1>2, <1>4 DEF Inv, Pending
<1>6. FlowsMark'
  BY <1>2 DEF Inv, FlowsMark
<1>7. Overlaps'
  <2> SUFFICES ASSUME NEW p \in Active', NEW q \in Active', p # q PROVE {p, q} \in overlaps'
    BY DEF Overlaps, Overlapped
  <2>1. CASE p \in Active /\ q \in Active
    BY <1>1, <2>1 DEF Inv, Overlaps, Overlapped
  <2>2. CASE p \in Active /\ q = r
    BY <1>1, <2>2
  <2>3. CASE p = r /\ q \in Active
    <3>1. {p, q} = {q, r}
      BY <2>3
    <3> QED BY <1>1, <2>3, <3>1
  <2> QED BY <1>4, <2>1, <2>2, <2>3
<1>8. Recorded'
  BY <1>1, <1>2 DEF Inv, Recorded, TellOf, Tells, TellsScan, WithinWindow
<1>9. Deduplicated'
  BY <1>1, <1>2 DEF Inv, Deduplicated, Overlapped, SameKey, FlowKinds
<1>10. Once'
  BY <1>1 DEF Inv, Once, Overlapped
<1> QED BY <1>3, <1>5, <1>6, <1>7, <1>8, <1>9, <1>10 DEF Inv

LEMMA StartScanKeeps == ASSUME Inv, NEW r \in Requests, StartScan(r) PROVE Inv'
<1>1. PICK scan, rowOf, todo :
        Start(r, [Idle EXCEPT !.pc = "flush", !.kind = "scan", !.body = scan, !.start = now,
                              !.loaded = devices, !.rowOf = rowOf, !.todo = todo])
  BY DEF StartScan
<1> DEFINE t == [Idle EXCEPT !.pc = "flush", !.kind = "scan", !.body = scan, !.start = now,
                             !.loaded = devices, !.rowOf = rowOf, !.todo = todo]
<1>2. Shape(t) /\ t.pc \in Busy /\ t.start = now /\ t.events = {} /\ t.kind # "flows"
  BY DEF Shape, Idle, Busy
<1>3. Start(r, t)
  BY <1>1
<1> HIDE DEF t
<1> QED BY <1>2, <1>3, StartKeeps

LEMMA StartIdsKeeps == ASSUME Inv, NEW r \in Requests, StartIds(r) PROVE Inv'
<1>1. PICK batch :
        Start(r, [Idle EXCEPT !.pc = "mark", !.kind = "ids", !.body = batch, !.start = now,
                              !.events = IdsEvents(r, batch)])
  BY DEF StartIds
<1> DEFINE t == [Idle EXCEPT !.pc = "mark", !.kind = "ids", !.body = batch, !.start = now,
                             !.events = IdsEvents(r, batch)]
<1>2. /\ Shape(t) /\ t.pc \in Busy /\ t.start = now /\ t.kind # "flows"
      /\ t.events = IdsEvents(r, batch)
  BY DEF Shape, Idle, Busy
<1>3. \A e \in IdsEvents(r, batch) : e.of = r /\ e.at = now /\ e.kind \notin FlowKinds
  BY DEF IdsEvents, Event, FlowKinds
<1>4. Start(r, t)
  BY <1>1
<1> HIDE DEF t
<1> QED BY <1>2, <1>3, <1>4, StartKeeps

\* The events of a batch: what is found and not known.
LEMMA FlowEventsFresh ==
  ASSUME NEW r, NEW flows, NEW list, NEW e \in FlowEvents(r, flows, list)
  PROVE  e.of = r /\ e.at = now /\ ~Known(events, e, now)
<1>1. \/ e \in Suspicious(r, flows, list)
      \/ e \in FanOuts(r, flows)
  BY DEF FlowEvents
<1>2. e \in Suspicious(r, flows, list) => e.of = r /\ e.at = now
  BY DEF Suspicious, Event
<1>3. e \in FanOuts(r, flows) => e.of = r /\ e.at = now
  BY DEF FanOuts, Event
<1>4. ~Known(events, e, now)
  BY DEF FlowEvents
<1> QED BY <1>1, <1>2, <1>3, <1>4

\* What the embedded list or the ports say is suspicious is found, whatever Redis adds.
LEMMA FlowFound ==
  ASSUME NEW r, NEW flows, NEW f \in flows, FlowSeverity(f, EmbeddedIps) # {}, NEW redisUp,
         now \in Nat, DedupWindow \in Nat, \A e \in events : e.at \in Nat /\ e.at <= now
  PROVE  \E e \in events \cup FlowEvents(r, flows, LoadBlocklist(redisUp)) : Tells(e, f, now)
<1> DEFINE list == LoadBlocklist(redisUp)
<1>1. EmbeddedIps \subseteq list
  BY DEF LoadBlocklist
<1>2. PICK s : s \in FlowSeverity(f, list)
  BY <1>1 DEF FlowSeverity
<1> DEFINE e == Event(r, "outbound_suspicious", s, None, f.ip, f.port, now)
<1>3. e.kind = "outbound_suspicious" /\ e.ip = f.ip /\ e.port = f.port /\ e.at = now
  BY DEF Event
<1>4. CASE Known(events, e, now)
  <2>1. PICK g \in events : SameKey(e, g) /\ g.at + DedupWindow >= now
    BY <1>4 DEF Known
  <2>2. Tells(g, f, now)
    BY <1>3, <2>1 DEF Tells, WithinWindow, SameKey
  <2> QED BY <2>2
<1>5. CASE ~Known(events, e, now)
  <2>1. e \in Suspicious(r, flows, list)
    BY <1>2 DEF Suspicious
  <2>2. e \in FlowEvents(r, flows, list)
    BY <1>5, <2>1 DEF FlowEvents
  <2>3. Tells(e, f, now)
    BY <1>3 DEF Tells, WithinWindow
  <2> QED BY <2>2, <2>3
<1> QED BY <1>4, <1>5

\* And so is a port on which many destinations were contacted.
LEMMA ScanFound ==
  ASSUME NEW r, NEW flows, NEW f \in flows, NEW list,
         Cardinality(Targets(flows, f.port)) >= PortscanTargets,
         now \in Nat, DedupWindow \in Nat, \A e \in events : e.at \in Nat /\ e.at <= now
  PROVE  \E e \in events \cup FlowEvents(r, flows, list) : TellsScan(e, f.port, now)
<1> DEFINE e == Event(r, "port_scan", "high", None, None, f.port, now)
<1>1. e.kind = "port_scan" /\ e.ip = None /\ e.port = f.port /\ e.at = now
  BY DEF Event
<1>2. CASE Known(events, e, now)
  <2>1. PICK g \in events : SameKey(e, g) /\ g.at + DedupWindow >= now
    BY <1>2 DEF Known
  <2>2. TellsScan(g, f.port, now)
    BY <1>1, <2>1 DEF TellsScan, WithinWindow, SameKey
  <2> QED BY <2>2
<1>3. CASE ~Known(events, e, now)
  <2>1. e \in FanOuts(r, flows)
    BY DEF FanOuts
  <2>2. e \in FlowEvents(r, flows, list)
    BY <1>3, <2>1 DEF FlowEvents
  <2>3. TellsScan(e, f.port, now)
    BY <1>1 DEF TellsScan, WithinWindow
  <2> QED BY <2>2, <2>3
<1> QED BY <1>2, <1>3

LEMMA StartFlowsKeeps == ASSUME Inv, NEW r \in Requests, StartFlows(r) PROVE Inv'
<1>1. PICK flows, redisUp :
        Start(r, [Idle EXCEPT !.pc = "mark", !.kind = "flows", !.body = flows, !.start = now,
                              !.events = FlowEvents(r, flows, LoadBlocklist(redisUp))])
  BY DEF StartFlows
<1> DEFINE new == FlowEvents(r, flows, LoadBlocklist(redisUp))
           t == [Idle EXCEPT !.pc = "mark", !.kind = "flows", !.body = flows, !.start = now,
                             !.events = new]
<1>2. /\ Shape(t) /\ t.pc \in Busy /\ t.pc = "mark" /\ t.start = now
      /\ t.body = flows /\ t.events = new
  BY DEF Shape, Idle, Busy
<1>3. Start(r, t)
  BY <1>1
<1>4. /\ now \in Nat /\ \A e \in events : e.at \in Nat /\ e.at <= now
      /\ DedupWindow \in Nat
  BY WindowAssumption DEF Inv, Basic
<1>5. \A e \in new : e.of = r /\ e.at = now /\ ~Known(events, e, now)
  BY FlowEventsFresh
<1>6. \A e \in new, f \in events : SameKey(e, f) => f.at + DedupWindow < now
  BY <1>4, <1>5 DEF Known
<1>7. TellOf(events \cup new, flows, now)
  BY <1>4, FlowFound, ScanFound DEF TellOf
<1> HIDE DEF t, new
<1> QED BY <1>2, <1>3, <1>5, <1>6, <1>7, StartKeeps

(***************************************************************************)
(* The commit.                                                             *)
(***************************************************************************)
LEMMA CommitKeeps == ASSUME Inv, NEW r \in Requests, Commit(r) PROVE Inv'
<1>1. /\ tx[r].pc = "mark" /\ events' = events \cup tx[r].events
      /\ tx' = [tx EXCEPT ![r] = [Idle EXCEPT !.pc = "done", !.kind = tx[r].kind,
                                   !.body = tx[r].body, !.start = tx[r].start, !.rowOf = tx[r].rowOf]]
      /\ UNCHANGED <<now, overlaps>>
  BY DEF Commit
<1>2. /\ \A q \in Requests : q # r => tx'[q] = tx[q]
      /\ tx' = [q \in Requests |-> tx'[q]]
      /\ Shape(tx'[r]) /\ tx'[r].pc = "done" /\ tx'[r].kind = tx[r].kind
      /\ tx'[r].body = tx[r].body /\ tx'[r].start = tx[r].start /\ tx'[r].events = {}
  BY <1>1 DEF Inv, Basic, Shape, Idle
<1>3. r \in Active /\ Active' = Active \ {r}
  BY <1>1, <1>2 DEF Active, Busy
<1>4. \A e \in tx[r].events : e.of = r /\ e.at = tx[r].start
  BY DEF Inv, Pending
<1>5. now \in Nat /\ \A q \in Requests : tx[q].start \in 0..now /\ tx'[q].start \in 0..now
  BY <1>2 DEF Inv, Basic
<1>6. \A e \in events' : e.at \in Nat /\ e.at <= now
  BY <1>1, <1>4, <1>5 DEF Inv, Basic
<1>7. Basic'
  BY <1>1, <1>2, <1>5, <1>6 DEF Inv, Basic, Shape
<1>8. Pending'
  BY <1>2, <1>3 DEF Inv, Pending
<1>9. FlowsMark'
  BY <1>1, <1>2 DEF Inv, FlowsMark
<1>10. Overlaps'
  BY <1>1, <1>3 DEF Inv, Overlaps, Overlapped
<1>11. Recorded'
  BY <1>1, <1>2 DEF Inv, Recorded, TellOf, Tells, TellsScan, WithinWindow
<1>12. Deduplicated'
  <2> SUFFICES ASSUME NEW q \in Requests, NEW e \in tx'[q].events, NEW f \in events',
                      e.kind \in FlowKinds, SameKey(e, f)
               PROVE  f.at + DedupWindow < e.at \/ {f.of, q} \in overlaps
    BY <1>1 DEF Deduplicated, Overlapped, SameKey
  <2>1. q # r /\ e \in tx[q].events /\ q \in Active
    BY <1>2 DEF Inv, Pending
  <2>2. CASE f \in events
    BY <2>1, <2>2 DEF Inv, Deduplicated, Overlapped
  <2>3. CASE f \in tx[r].events
    BY <1>3, <1>4, <2>1, <2>3 DEF Inv, Overlaps, Overlapped
  <2> QED BY <1>1, <2>2, <2>3
<1>13. Once'
  <2> SUFFICES ASSUME NEW e \in events', NEW f \in events', e.kind \in FlowKinds, SameKey(e, f),
                      e.of # f.of, e.at <= f.at, f.at <= e.at + DedupWindow
               PROVE  {e.of, f.of} \in overlaps
    BY <1>1 DEF Once, Overlapped, SameKey
  <2>1. e.at \in Nat /\ f.at \in Nat /\ DedupWindow \in Nat
    BY <1>6, WindowAssumption
  <2>2. CASE e \in events /\ f \in events
    BY <2>2 DEF Inv, Once, Overlapped
  <2>3. CASE e \in tx[r].events /\ f \in events
    <3>1. f.at + DedupWindow < e.at \/ {f.of, r} \in overlaps
      BY <2>3 DEF Inv, Deduplicated, Overlapped
    <3>2. e.of = r /\ {e.of, f.of} = {f.of, r}
      BY <1>4, <2>3
    <3> QED BY <2>1, <3>1, <3>2
  <2>4. CASE e \in events /\ f \in tx[r].events
    <3>1. f.kind \in FlowKinds /\ SameKey(f, e)
      BY DEF SameKey
    <3>2. e.at + DedupWindow < f.at \/ {e.of, r} \in overlaps
      BY <2>4, <3>1 DEF Inv, Deduplicated, Overlapped
    <3> QED BY <1>4, <2>1, <2>4, <3>2
  <2>5. CASE e \in tx[r].events /\ f \in tx[r].events
    BY <1>4, <2>5
  <2> QED BY <1>1, <2>2, <2>3, <2>4, <2>5
<1> QED BY <1>7, <1>8, <1>9, <1>10, <1>11, <1>12, <1>13 DEF Inv

LEMMA InvStep == Inv /\ [Next]_vars => Inv'
<1> SUFFICES ASSUME Inv, [Next]_vars PROVE Inv'
  OBVIOUS
<1>1. ASSUME NEW r \in Requests, Step(r) PROVE Inv'
  <2>1. "refused" \notin Busy
    BY DEF Busy
  <2> QED
    BY <1>1, <2>1, AcquireKeeps, RollBackKeeps, SyncKeeps, CommitKeeps
    DEF Step, IntegrityError, DeadlockVictim
<1>2. ASSUME NEW r \in Requests, Crash(r) PROVE Inv'
  <2>1. "crashed" \notin Busy
    BY DEF Busy
  <2> QED BY <1>2, <2>1, RollBackKeeps DEF Crash
<1>3. CASE UNCHANGED vars
  <2>1. UNCHANGED <<now, events, tx, overlaps>>
    BY <1>3 DEF vars, eventVars
  <2>2. Active' = Active
    BY <2>1 DEF Active
  <2> QED
    BY <2>1, <2>2
    DEF Inv, Basic, Shape, Pending, FlowsMark, Overlaps, Recorded, Deduplicated, Once,
        Overlapped, TellOf, Tells, TellsScan, WithinWindow, SameKey
<1> QED
  BY <1>1, <1>2, <1>3, StartScanKeeps, StartFlowsKeeps, StartIdsKeeps, TickKeeps DEF Next, Serve

LEMMA InvFlows == Inv => FlowsOnRecord
<1> SUFFICES ASSUME Inv PROVE FlowsOnRecord
  OBVIOUS
<1>1. ASSUME NEW r \in Requests, tx[r].kind = "flows", tx[r].pc = "done"
      PROVE  TellOf(events, tx[r].body, tx[r].start)
  <2>1. tx[r].events = {}
    BY <1>1 DEF Inv, Pending, Active, Busy
  <2> QED BY <1>1, <2>1 DEF Inv, Recorded
<1>2. \A e, f \in events :
        e.kind \in {"outbound_suspicious", "port_scan"} /\ SameKey(e, f) /\ e.of # f.of
          /\ e.at <= f.at /\ f.at <= e.at + DedupWindow => Overlapped(e.of, f.of)
  BY DEF Inv, Once, FlowKinds
<1> QED BY <1>1, <1>2 DEF FlowsOnRecord

\* A suspicious flow or a port scan is on record within one window of the answered batch
\* that shows it, and the same finding is recorded twice only by batches that overlapped: for any
\* requests, any blocklist and whatever crashes or fails (ingest_flows, record_event).
THEOREM SuspiciousFlowsOnRecord == Spec => []FlowsOnRecord
<1>1. Init => Inv
  BY InvStart
<1>2. Inv /\ [Next]_vars => Inv'
  BY InvStep
<1>3. Inv => FlowsOnRecord
  BY InvFlows
<1> QED BY <1>1, <1>2, <1>3, PTL DEF Spec

(***************************************************************************)
(* The inventory.  Scans overlap, and a request computes what it writes    *)
(* from rows it has read before; the proof keeps, for every scan in        *)
(* progress, what it may rely on at its commit: the rows it locked are as  *)
(* they were, the ids and the MACs it inserts are its own, and whatever    *)
(* appeared since it began was committed by a scan that overlapped it.     *)
(***************************************************************************)
Whole(t) ==
  {"pc", "kind", "body", "start", "loaded", "rowOf", "todo", "held", "rows", "down", "events"}
    \subseteq DOMAIN t

DeviceRow(d) ==
  /\ {"key", "ip", "status", "gateway", "first", "seen", "ports", "vulns", "ifs"} \subseteq DOMAIN d
  /\ d.key \in Macs \cup Nat /\ d.ip \in Nat
  /\ d.status \in {"up", "down"} /\ d.gateway \in BOOLEAN
  /\ d.first \in 1..now /\ d.seen \in 1..now
  /\ \A v \in d.vulns : v.severity \in Severities

\* The committed tables.
Tables ==
  /\ now \in 1..MaxTime /\ nextId \in Nat \ {0}
  /\ devices = [i \in DOMAIN devices |-> devices[i]]
  /\ DOMAIN devices \subseteq 1..(nextId - 1)
  /\ \A i \in DOMAIN devices : DeviceRow(devices[i])
  /\ \A e \in events : /\ e.of \in Requests /\ tx[e.of].pc = "done"
                       /\ e.severity \in Severities /\ e.at \in 1..now
  /\ commits \in Seq(Requests)
  /\ \A n \in DOMAIN commits : tx[commits[n]].pc = "done"

\* A request by itself.
Session(r) ==
  /\ Whole(tx[r]) /\ tx[r].pc \in {"idle"} \cup Busy \cup Ended
  /\ tx[r].pc \notin Busy => tx[r].todo = {} /\ tx[r].held = {}
  /\ tx[r].pc \in Busy => tx[r].start \in 1..now
  /\ \A e \in tx[r].events : e.severity \in Severities
  /\ tx[r].pc = "flush" => tx[r].kind = "scan"
  /\ tx[r].pc \in Busy =>
       IF tx[r].kind = "scan" THEN tx[r].body \in Scans
       ELSE DOMAIN tx[r].rows = {} /\ tx[r].down = {}

\* A lock has one holder, and a MAC that is locked is on no committed row.
Locks ==
  /\ \A q, r \in Requests : q # r => tx[q].held \cap tx[r].held = {}
  /\ \A r \in Requests : \A x \in tx[r].held : ~Taken(x)

Scanning(r) == tx[r].kind = "scan" /\ tx[r].pc \in Busy

\* What a scan has loaded, against what is committed by now.
Loaded(r) ==
  /\ DOMAIN tx[r].loaded \subseteq DOMAIN devices
  /\ \A i \in DOMAIN tx[r].loaded : tx[r].loaded[i].key = devices[i].key
  /\ \A i \in DOMAIN devices \ DOMAIN tx[r].loaded : Overlapped(FirstSeenBy(i), r)
  /\ Quiet(r) => tx[r].loaded = devices

\* No row that the scan has loaded is of this device.
Unknown(r, k) == \A i \in DOMAIN tx[r].loaded : tx[r].loaded[i].key # k

\* The match of a scan that waits for the locks of its flush.
Matched(r) ==
  /\ DOMAIN tx[r].rowOf \subseteq Keys(tx[r].body)
  /\ \A k \in DOMAIN tx[r].rowOf :
       LET i == tx[r].rowOf[k]
       IN  i \in DOMAIN tx[r].loaded /\ tx[r].loaded[i].key = k /\ i \in tx[r].held \cup tx[r].todo
  /\ \A k \in Keys(tx[r].body) \ DOMAIN tx[r].rowOf :
       Unknown(r, k) /\ (k \in Macs => k \in tx[r].held \cup tx[r].todo)

\* Row i, for the device k, as the commit will write it.
Ready(r, k, i) ==
  LET scan == tx[r].body
      ip == Max(Addresses(scan, k))
      row == tx[r].rows[i]
  IN  /\ DeviceRow(row) /\ row.key = k
      /\ row.ports = scan[ip].ports /\ row.vulns = Evaluate(row.ports)
      /\ row.ifs = IF WithIfs(scan, k) # {} THEN scan[Max(WithIfs(scan, k))].ifs
                   ELSE IF i \in DOMAIN devices THEN devices[i].ifs ELSE {}
      /\ row.seen = tx[r].start
      /\ Quiet(r) => row.status = "up" /\ row.ip = ip /\ row.gateway = scan[ip].gateway

\* A row that was known is locked; one that was not is new to the table.
Owned(r, k, i) ==
  IF i \in DOMAIN tx[r].loaded THEN tx[r].loaded[i].key = k /\ i \in tx[r].held
  ELSE /\ i \in 1..(nextId - 1) /\ i \notin DOMAIN devices
       /\ Unknown(r, k) /\ (k \in Macs => k \in tx[r].held)

\* The events that go with row i.
Told(r, i) ==
  IF i \in DOMAIN tx[r].loaded
  THEN \A p \in tx[r].rows[i].ports :
         (\A q \in devices[i].ports : q.port # p.port) =>
           \E e \in tx[r].events : e.kind = "new_open_port" /\ e.about = i /\ e.port = p.port
  ELSE \/ DOMAIN tx[r].loaded = {}
       \/ \E e \in tx[r].events : e.kind = "new_device" /\ e.about = i

\* A scan that has been flushed.
Written(r) ==
  /\ DOMAIN tx[r].rowOf = Keys(tx[r].body)
  /\ DOMAIN tx[r].rows = Range(tx[r].rowOf)
  /\ \A k \in Keys(tx[r].body) :
       LET i == tx[r].rowOf[k] IN Ready(r, k, i) /\ Owned(r, k, i) /\ Told(r, i)
  /\ tx[r].down \subseteq DOMAIN tx[r].loaded
  /\ tx[r].down \subseteq tx[r].held \cup tx[r].todo
  /\ \A i \in DOMAIN tx[r].loaded \ Range(tx[r].rowOf) :
       i \notin tx[r].down => tx[r].loaded[i].status = "down"

InProgress ==
  \A r \in Requests : Scanning(r) =>
    Loaded(r) /\ (tx[r].pc = "flush" => Matched(r)) /\ (tx[r].pc = "mark" => Written(r))

\* No two scans are about to write one row.
Apart ==
  \A q, r \in Requests :
    q # r /\ Scanning(q) /\ Scanning(r) /\ tx[q].pc = "mark" /\ tx[r].pc = "mark" =>
      DOMAIN tx[q].rows \cap DOMAIN tx[r].rows = {}

\* The commits and the rows they left.
History ==
  /\ \A i \in DOMAIN devices : CommitsOf(i) # {}
  /\ \A n \in DOMAIN commits : Range(tx[commits[n]].rowOf) \subseteq DOMAIN devices
  /\ OneRowPerDevice /\ DetailsOfLastScan /\ QuietScanExact

Inventory ==
  /\ Tables /\ \A r \in Requests : Session(r)
  /\ Locks /\ InProgress /\ Apart /\ History

\* A nonempty finite set of naturals has a least and a greatest element, and these are
\* what Min and Max choose.
LEMMA MinIs ==
  ASSUME NEW S \in SUBSET Nat, NEW m \in S, \A x \in S : m <= x
  PROVE  Min(S) = m
<1>1. Min(S) \in S /\ \A y \in S : Min(S) <= y
  BY DEF Min
<1>2. Min(S) \in Nat /\ m \in Nat
  BY <1>1
<1>3. Min(S) <= m /\ m <= Min(S)
  BY <1>1
<1> QED BY <1>2, <1>3

LEMMA MaxIs ==
  ASSUME NEW S \in SUBSET Nat, NEW m \in S, \A x \in S : x <= m
  PROVE  Max(S) = m
<1>1. Max(S) \in S /\ \A y \in S : Max(S) >= y
  BY DEF Max
<1>2. Max(S) \in Nat /\ m \in Nat
  BY <1>1
<1>3. Max(S) <= m /\ m <= Max(S)
  BY <1>1, <1>2
<1> QED BY <1>2, <1>3

LEMMA MinFacts ==
  ASSUME NEW S \in SUBSET Nat, S # {}
  PROVE  Min(S) \in S /\ \A y \in S : Min(S) <= y
<1>1. PICK m \in S : \A y \in S : m <= y
  BY LeastExists
<1> QED BY <1>1, MinIs

\* By counting: of an element with the fewest elements above it, none is above.
LEMMA MaxFacts ==
  ASSUME NEW S \in SUBSET Nat, IsFiniteSet(S), S # {}
  PROVE  Max(S) \in S /\ \A y \in S : y <= Max(S)
<1> DEFINE above(x) == {y \in S : y > x}
           counts == {Cardinality(above(x)) : x \in S}
<1>1. \A T \in SUBSET S : IsFiniteSet(T) /\ Cardinality(T) \in Nat
  BY FS_Subset, FS_CardinalityType
<1>2. counts \in SUBSET Nat /\ counts # {}
  BY <1>1
<1>3. PICK c \in counts : \A d \in counts : c <= d
  BY <1>2, LeastExists
<1>4. PICK x \in S : c = Cardinality(above(x))
  OBVIOUS
<1>5. ASSUME NEW y \in S, y > x PROVE FALSE
  <2>1. above(y) \subseteq above(x) \ {y}
    <3>1. \A z \in S : z > y => z > x /\ z # y
      BY <1>5
    <3> QED BY <3>1
  <2>2. Cardinality(above(x) \ {y}) = Cardinality(above(x)) - 1 /\ IsFiniteSet(above(x) \ {y})
    BY <1>1, <1>5, FS_RemoveElement
  <2>3. Cardinality(above(y)) <= Cardinality(above(x)) - 1
    BY <2>1, <2>2, FS_Subset
  <2>4. Cardinality(above(x)) <= Cardinality(above(y))
    BY <1>3, <1>4, <1>5
  <2> QED BY <1>1, <2>3, <2>4
<1>6. \A y \in S : y <= x
  BY <1>5
<1> QED BY <1>6, MaxIs

\* The parts of a scan.
LEMMA ScanFacts ==
  ASSUME NEW scan \in Scans
  PROVE  /\ IsFiniteSet(Keys(scan)) /\ Keys(scan) \subseteq Macs \cup Nat
         /\ \A k \in Keys(scan) :
              /\ Addresses(scan, k) \in SUBSET Nat /\ Addresses(scan, k) \subseteq DOMAIN scan
              /\ IsFiniteSet(Addresses(scan, k)) /\ Addresses(scan, k) # {}
              /\ Min(Addresses(scan, k)) \in Addresses(scan, k)
              /\ Max(Addresses(scan, k)) \in Addresses(scan, k)
              /\ \A ip \in Addresses(scan, k) : ip <= Max(Addresses(scan, k))
<1>1. IsFiniteSet(DOMAIN scan) /\ DOMAIN scan \subseteq Nat
  BY ScanAssumption
<1>2. IsFiniteSet(Keys(scan))
  <2>1. [ip \in DOMAIN scan |-> Key(scan, ip)] \in Surjection(DOMAIN scan, Keys(scan))
    BY DEF Keys, Surjection
  <2> QED BY <1>1, <2>1, FS_Surjection
<1>3. Keys(scan) \subseteq Macs \cup Nat
  BY ScanAssumption DEF Keys, Key
<1>4. ASSUME NEW k \in Keys(scan)
      PROVE  /\ Addresses(scan, k) \in SUBSET Nat /\ Addresses(scan, k) \subseteq DOMAIN scan
             /\ IsFiniteSet(Addresses(scan, k)) /\ Addresses(scan, k) # {}
  <2>1. Addresses(scan, k) \subseteq DOMAIN scan /\ Addresses(scan, k) # {}
    BY DEF Addresses, Keys
  <2> QED BY <1>1, <2>1, FS_Subset
<1> QED BY <1>2, <1>3, <1>4, MinFacts, MaxFacts

\* The severities of the findings and of the events are those of the columns.
LEMMA FindingSeverity ==
  ASSUME NEW ports, NEW v \in Evaluate(ports) PROVE v.severity \in Severities
<1>1. \A n \in DOMAIN ExposureRules : ExposureRules[n] \in Severities
  BY DEF ExposureRules, Severities
<1>2. \A c \in DOMAIN CveDb : CveDb[c] \in Severities
  BY CveFileAssumption DEF CveDb, Severities
<1> QED BY <1>1, <1>2 DEF Evaluate

\* Nothing is known at first.
LEMMA InventoryStart == Init => Inventory
<1> SUFFICES ASSUME Init PROVE Inventory
  OBVIOUS
<1>1. /\ now = 1 /\ events = {} /\ devices = <<>> /\ nextId = 1 /\ commits = <<>>
      /\ tx = [r \in Requests |-> Idle]
  BY DEF Init, EventInit
<1>2. DOMAIN devices = {} /\ devices = [i \in DOMAIN devices |-> devices[i]]
  BY <1>1
<1>3. \A r \in Requests : tx[r] = Idle
  BY <1>1
<1>4. Tables
  BY <1>1, <1>2, WindowAssumption DEF Tables
<1>5. ASSUME NEW r \in Requests PROVE Session(r) /\ ~Scanning(r) /\ tx[r].held = {}
  BY <1>3, <1>5 DEF Session, Whole, Idle, Busy, Scanning
<1>6. Locks /\ InProgress /\ Apart
  BY <1>5 DEF Locks, InProgress, Apart
<1>7. History
  BY <1>1, <1>2 DEF History, OneRowPerDevice, DetailsOfLastScan, QuietScanExact
<1> QED BY <1>4, <1>5, <1>6, <1>7 DEF Inventory

(***************************************************************************)
(* A step that commits no scan: at most one request changes, one that is   *)
(* not done, and the devices stay.                                         *)
(***************************************************************************)
Calm(S) ==
  /\ S \subseteq Requests /\ \A q, r \in S : q = r
  /\ \A q \in Requests \ S : tx'[q] = tx[q]
  /\ \A q \in S : tx[q].pc # "done"
  /\ \A e \in events' \ events : /\ e.of \in S /\ tx'[e.of].pc = "done"
                                /\ e.severity \in Severities /\ e.at \in 1..now
  /\ UNCHANGED <<devices, commits>>
  /\ now <= now' /\ now' \in 1..MaxTime
  /\ nextId <= nextId' /\ nextId' \in Nat
  /\ overlaps \subseteq overlaps'

\* What the changed request must keep.
Kept(r) ==
  /\ Session(r)'
  /\ \A x \in tx'[r].held : x \in tx[r].held \/ (Holders(x) = {} /\ ~Taken(x))
  /\ Scanning(r)' =>
       /\ Loaded(r)' /\ (tx'[r].pc = "flush" => Matched(r)') /\ (tx'[r].pc = "mark" => Written(r)')
       /\ tx'[r].pc = "mark" =>
            \A q \in Requests \ {r} : Scanning(q) /\ tx[q].pc = "mark" =>
              DOMAIN tx[q].rows \cap DOMAIN tx'[r].rows = {}

\* The commits of a row are what they were.
LEMMA CalmCommits ==
  ASSUME Inventory, NEW S, Calm(S)
  PROVE  /\ \A n \in DOMAIN commits : commits[n] \in Requests /\ tx'[commits[n]] = tx[commits[n]]
         /\ \A i : CommitsOf(i)' = CommitsOf(i) /\ FirstSeenBy(i)' = FirstSeenBy(i) /\ LastSeenBy(i)' = LastSeenBy(i)
         /\ \A r : Quiet(r)' => Quiet(r)
         /\ \A q, r : Overlapped(q, r) => Overlapped(q, r)'
<1>1. commits \in Seq(Requests) /\ \A n \in DOMAIN commits : tx[commits[n]].pc = "done"
  BY DEF Inventory, Tables
<1>2. \A n \in DOMAIN commits : commits[n] \in Requests
  BY <1>1
<1>3. \A n \in DOMAIN commits : tx'[commits[n]] = tx[commits[n]]
  BY <1>1, <1>2 DEF Calm
<1>4. ASSUME NEW i PROVE CommitsOf(i)' = CommitsOf(i)
  BY <1>3 DEF CommitsOf, Calm
<1>5. \A i : FirstSeenBy(i)' = FirstSeenBy(i) /\ LastSeenBy(i)' = LastSeenBy(i)
  BY <1>4 DEF FirstSeenBy, LastSeenBy, Calm
<1>6. \A r : Quiet(r)' => Quiet(r)
  BY DEF Quiet, Overlapped, Calm
<1>7. \A q, r : Overlapped(q, r) => Overlapped(q, r)'
  BY DEF Overlapped, Calm
<1> QED BY <1>2, <1>3, <1>4, <1>5, <1>6, <1>7

LEMMA CalmHistory ==
  ASSUME Inventory, NEW S, Calm(S)
  PROVE  History'
<1>1. /\ UNCHANGED <<devices, commits>>
      /\ \A n \in DOMAIN commits : commits[n] \in Requests /\ tx'[commits[n]] = tx[commits[n]]
      /\ \A i : CommitsOf(i)' = CommitsOf(i) /\ FirstSeenBy(i)' = FirstSeenBy(i) /\ LastSeenBy(i)' = LastSeenBy(i)
      /\ \A r : Quiet(r)' => Quiet(r)
      /\ \A q, r : Overlapped(q, r) => Overlapped(q, r)'
  BY CalmCommits DEF Calm
<1>2. /\ \A i \in DOMAIN devices : CommitsOf(i) # {}
      /\ \A n \in DOMAIN commits : Range(tx[commits[n]].rowOf) \subseteq DOMAIN devices
      /\ OneRowPerDevice /\ DetailsOfLastScan /\ QuietScanExact
  BY DEF Inventory, History
<1>3. \A n \in DOMAIN commits : Range(tx'[commits[n]].rowOf) \subseteq DOMAIN devices
  BY <1>1, <1>2
<1>4. OneRowPerDevice'
  BY <1>1, <1>2 DEF OneRowPerDevice
<1>5. DetailsOfLastScan'
  <2>1. ASSUME NEW i \in DOMAIN devices
        PROVE  /\ LastSeenBy(i) \in {commits[n] : n \in DOMAIN commits}
               /\ \A n \in CommitsOf(i) : n \in DOMAIN commits
    <3>1. CommitsOf(i) \in SUBSET (0..Len(commits)) /\ CommitsOf(i) # {} /\ CommitsOf(i) \in SUBSET Nat
      BY <1>2 DEF CommitsOf, Inventory, Tables
    <3>2. Max(CommitsOf(i)) \in CommitsOf(i)
      <4>1. Len(commits) \in Nat
        BY DEF Inventory, Tables
      <4>2. IsFiniteSet(CommitsOf(i))
        BY <3>1, <4>1, BoundedFinite
      <4> QED BY <3>1, <4>2, MaxFacts
    <3> QED BY <3>2 DEF LastSeenBy, CommitsOf
  <2>2. \A i \in DOMAIN devices : tx'[LastSeenBy(i)] = tx[LastSeenBy(i)]
    BY <1>1, <2>1
  <2>3. ASSUME NEW i \in DOMAIN devices
        PROVE  /\ IfsCommitsOf(i)' = IfsCommitsOf(i)
               /\ IfsCommitsOf(i) # {} => Max(IfsCommitsOf(i)) \in DOMAIN commits
    <3>1. IfsCommitsOf(i)' = IfsCommitsOf(i)
      BY <1>1, <2>1 DEF IfsCommitsOf
    <3>2. IfsCommitsOf(i) \in SUBSET (0..Len(commits)) /\ IfsCommitsOf(i) \in SUBSET Nat /\ Len(commits) \in Nat
      BY <2>1 DEF IfsCommitsOf, Inventory, Tables
    <3>3. IfsCommitsOf(i) # {} => Max(IfsCommitsOf(i)) \in IfsCommitsOf(i)
      BY <3>2, BoundedFinite, MaxFacts
    <3> QED BY <2>1, <3>1, <3>3 DEF IfsCommitsOf
  <2>4. \A i \in DOMAIN devices : IfsCommitsOf(i) # {} =>
          tx'[commits[Max(IfsCommitsOf(i))]] = tx[commits[Max(IfsCommitsOf(i))]]
    BY <1>1, <2>3
  <2> QED BY <1>1, <1>2, <2>2, <2>3, <2>4 DEF DetailsOfLastScan
<1>6. QuietScanExact'
  <2>1. commits # <<>> => Last(commits) \in {commits[n] : n \in DOMAIN commits}
    BY DEF Last, Inventory, Tables
  <2>2. commits # <<>> => tx'[Last(commits)] = tx[Last(commits)]
    BY <1>1, <2>1
  <2> QED BY <1>1, <1>2, <2>2 DEF QuietScanExact
<1> QED BY <1>1, <1>2, <1>3, <1>4, <1>5, <1>6 DEF History

\* A scan that the step leaves alone keeps what it relies on.
LEMMA CalmScan ==
  ASSUME Inventory, NEW S, Calm(S), NEW r \in Requests \ S, Scanning(r)
  PROVE  /\ Loaded(r)'
         /\ tx[r].pc = "flush" => Matched(r)'
         /\ tx[r].pc = "mark" => Written(r)'
<1>1. /\ tx'[r] = tx[r] /\ UNCHANGED devices
      /\ \A i : FirstSeenBy(i)' = FirstSeenBy(i)
      /\ Quiet(r)' => Quiet(r)
      /\ \A q : Overlapped(q, r) => Overlapped(q, r)'
  BY CalmCommits DEF Calm
<1>2. /\ Loaded(r) /\ (tx[r].pc = "flush" => Matched(r)) /\ (tx[r].pc = "mark" => Written(r))
  BY DEF Inventory, InProgress
<1>3. Loaded(r)'
  BY <1>1, <1>2 DEF Loaded
<1>4. \A k : Unknown(r, k)' = Unknown(r, k)
  BY <1>1 DEF Unknown
<1>5. tx[r].pc = "flush" => Matched(r)'
  BY <1>1, <1>2, <1>4 DEF Matched
<1>6. ASSUME tx[r].pc = "mark" PROVE Written(r)'
  <2>1. \A d : DeviceRow(d) => DeviceRow(d)'
    BY DEF DeviceRow, Calm, Inventory, Tables
  <2>2. ASSUME NEW k \in Keys(tx[r].body), NEW i, Ready(r, k, i) PROVE Ready(r, k, i)'
    BY <1>1, <2>1, <2>2 DEF Ready, DeviceRow, Calm, Inventory, Tables
  <2>3. ASSUME NEW k, NEW i, Owned(r, k, i) PROVE Owned(r, k, i)'
    BY <1>1, <1>4, <2>3 DEF Owned, Calm, Inventory, Tables
  <2>4. ASSUME NEW i, Told(r, i) PROVE Told(r, i)'
    BY <1>1, <2>4 DEF Told
  <2> QED BY <1>1, <1>2, <1>6, <2>2, <2>3, <2>4 DEF Written
<1> QED BY <1>3, <1>5, <1>6

LEMMA CalmKeeps ==
  ASSUME Inventory, NEW S, Calm(S), \A r \in S : Kept(r)
  PROVE  Inventory'
<1>1. Tables'
  <2>1. \A i \in DOMAIN devices : DeviceRow(devices[i])'
    BY DEF DeviceRow, Calm, Inventory, Tables
  <2>2. \A e \in events' : /\ e.of \in Requests /\ tx'[e.of].pc = "done"
                           /\ e.severity \in Severities /\ e.at \in 1..now'
    BY DEF Calm, Inventory, Tables
  <2>3. \A n \in DOMAIN commits : tx'[commits[n]].pc = "done"
    BY CalmCommits DEF Inventory, Tables
  <2> QED BY <2>1, <2>2, <2>3 DEF Calm, Inventory, Tables
<1>2. ASSUME NEW r \in Requests PROVE Session(r)'
  <2>1. CASE r \in S
    BY <2>1 DEF Kept
  <2>2. CASE r \notin S
    BY <2>2 DEF Session, Whole, Calm, Inventory, Tables
  <2> QED BY <2>1, <2>2
<1>3. Locks'
  <2>1. ASSUME NEW q \in Requests, NEW r \in Requests, q # r, NEW x, x \in tx'[q].held, x \in tx'[r].held
        PROVE  FALSE
    <3>1. CASE q \notin S /\ r \notin S
      BY <2>1, <3>1 DEF Calm, Inventory, Locks
    <3>2. CASE q \in S
      <4>1. r \notin S /\ x \in tx[r].held
        BY <2>1, <3>2 DEF Calm
      <4>2. x \in tx[q].held
        BY <2>1, <3>2, <4>1 DEF Kept, Holders
      <4> QED BY <2>1, <4>1, <4>2 DEF Inventory, Locks
    <3>3. CASE r \in S
      <4>1. q \notin S /\ x \in tx[q].held
        BY <2>1, <3>3 DEF Calm
      <4>2. x \in tx[r].held
        BY <2>1, <3>3, <4>1 DEF Kept, Holders
      <4> QED BY <2>1, <4>1, <4>2 DEF Inventory, Locks
    <3> QED BY <3>1, <3>2, <3>3
  <2>2. \A x : Taken(x)' <=> Taken(x)
    BY DEF Taken, Calm
  <2>3. \A r \in Requests : \A x \in tx'[r].held : ~Taken(x)
    BY DEF Kept, Calm, Inventory, Locks
  <2> QED BY <2>1, <2>2, <2>3 DEF Locks
<1>4. InProgress'
  <2> SUFFICES ASSUME NEW r \in Requests, Scanning(r)'
               PROVE  Loaded(r)' /\ (tx'[r].pc = "flush" => Matched(r)') /\ (tx'[r].pc = "mark" => Written(r)')
    BY DEF InProgress
  <2>1. CASE r \in S
    BY <2>1 DEF Kept
  <2>2. CASE r \notin S
    <3>1. tx'[r] = tx[r] /\ Scanning(r)
      BY <2>2 DEF Calm, Scanning
    <3> QED BY <2>2, <3>1, CalmScan
  <2> QED BY <2>1, <2>2
<1>5. Apart'
  <2> SUFFICES ASSUME NEW q \in Requests, NEW r \in Requests, q # r, Scanning(q)', Scanning(r)',
                      tx'[q].pc = "mark", tx'[r].pc = "mark"
               PROVE  DOMAIN tx'[q].rows \cap DOMAIN tx'[r].rows = {}
    BY DEF Apart
  <2>1. CASE q \notin S /\ r \notin S
    BY <2>1 DEF Calm, Inventory, Apart, Scanning
  <2>2. CASE q \in S
    <3>1. tx'[r] = tx[r] /\ Scanning(r)
      BY <2>2 DEF Calm, Scanning
    <3> QED BY <2>2, <3>1 DEF Kept
  <2>3. CASE r \in S
    <3>1. tx'[q] = tx[q] /\ Scanning(q)
      BY <2>3 DEF Calm, Scanning
    <3> QED BY <2>3, <3>1 DEF Kept
  <2> QED BY <2>1, <2>2, <2>3
<1>6. History'
  BY CalmHistory
<1> QED BY <1>1, <1>2, <1>3, <1>4, <1>5, <1>6 DEF Inventory

\* Time passes.
LEMMA TickInventory == ASSUME Inventory, Tick /\ Others PROVE Inventory'
<1>1. Calm({})
  BY WindowAssumption DEF Calm, Tick, Others, Inventory, Tables
<1> QED BY <1>1, CalmKeeps

\* A request that is rolled back leaves nothing.
LEMMA RollBackInventory ==
  ASSUME Inv, Inventory, NEW r \in Requests, NEW how \in {"refused", "crashed"}, RollBack(r, how),
         tx[r].pc \in Busy
  PROVE  Inventory'
<1>1. /\ tx' = [tx EXCEPT ![r] = [Idle EXCEPT !.pc = how]]
      /\ UNCHANGED <<now, events, devices, nextId, commits, overlaps>>
  BY DEF RollBack, eventVars
<1>2. \A q \in Requests : tx'[q] = IF q = r THEN [Idle EXCEPT !.pc = how] ELSE tx[q]
  BY <1>1 DEF Inv, Basic
<1>3. tx'[r].pc = how /\ tx'[r].kind = "none" /\ tx'[r].held = {} /\ tx'[r].todo = {} /\ tx'[r].events = {} /\ Whole(tx'[r])
  BY <1>2 DEF Idle, Whole
<1>4. Calm({r})
  BY <1>1, <1>2, <1>3 DEF Calm, Busy, Inventory, Tables
<1>5. Kept(r)
  BY <1>3 DEF Kept, Session, Whole, Scanning, Busy, Ended
<1> QED BY <1>4, <1>5, CalmKeeps

LEMMA AcquireInventory ==
  ASSUME Inv, Inventory, NEW r \in Requests, Acquire(r) PROVE Inventory'
<1> DEFINE x == NextLock(r)
<1>1. /\ tx[r].todo # {} /\ Holders(x) = {} /\ ~Taken(x)
      /\ tx' = [tx EXCEPT ![r].held = @ \cup {x}, ![r].todo = @ \ {x}]
      /\ UNCHANGED <<now, events, devices, nextId, commits, overlaps>>
  BY DEF Acquire, eventVars
<1>2. Whole(tx[r]) /\ tx[r].pc \in Busy /\ Session(r)
  BY <1>1 DEF Inventory, Session
<1> HIDE DEF x
<1>3. /\ \A q \in Requests : q # r => tx'[q] = tx[q]
      /\ tx'[r] = [tx[r] EXCEPT !.held = @ \cup {x}, !.todo = @ \ {x}]
  BY <1>1 DEF Inv, Basic
<1>4. /\ Whole(tx'[r]) /\ tx'[r].held = tx[r].held \cup {x} /\ tx'[r].todo = tx[r].todo \ {x}
      /\ tx'[r].held \cup tx'[r].todo = tx[r].held \cup tx[r].todo \cup {x}
      /\ tx'[r].pc = tx[r].pc /\ tx'[r].kind = tx[r].kind /\ tx'[r].body = tx[r].body
      /\ tx'[r].start = tx[r].start /\ tx'[r].loaded = tx[r].loaded /\ tx'[r].rowOf = tx[r].rowOf
      /\ tx'[r].rows = tx[r].rows /\ tx'[r].down = tx[r].down /\ tx'[r].events = tx[r].events
  BY <1>2, <1>3 DEF Whole
<1>5. Calm({r})
  <2>1. tx[r].pc # "done" /\ tx'[r].pc # "done"
    BY <1>2, <1>4 DEF Busy
  <2>2. now \in 1..MaxTime /\ nextId \in Nat /\ now <= now /\ nextId <= nextId
    BY DEF Inventory, Tables
  <2>3. \A q \in Requests \ {r} : tx'[q] = tx[q]
    BY <1>3
  <2> QED BY <1>1, <2>1, <2>2, <2>3 DEF Calm
<1>6. Session(r)'
  BY <1>1, <1>2, <1>4 DEF Session
<1>7. ASSUME Scanning(r)'
      PROVE  /\ Loaded(r)' /\ (tx'[r].pc = "flush" => Matched(r)') /\ (tx'[r].pc = "mark" => Written(r)')
  <2>1. Scanning(r)
    BY <1>4, <1>7 DEF Scanning
  <2>2. Loaded(r) /\ (tx[r].pc = "flush" => Matched(r)) /\ (tx[r].pc = "mark" => Written(r))
    BY <2>1 DEF Inventory, InProgress
  <2>3. \A k : Unknown(r, k)' = Unknown(r, k)
    BY <1>4 DEF Unknown
  <2>4. /\ \A i : FirstSeenBy(i)' = FirstSeenBy(i)
        /\ Quiet(r)' => Quiet(r)
        /\ \A q : Overlapped(q, r) => Overlapped(q, r)'
    BY <1>5, CalmCommits
  <2>5. Loaded(r)'
    BY <1>1, <1>4, <2>2, <2>4 DEF Loaded
  <2>6. tx[r].pc = "flush" => Matched(r)'
    BY <1>4, <2>2, <2>3 DEF Matched
  <2>7. ASSUME tx[r].pc = "mark" PROVE Written(r)'
    <3>1. ASSUME NEW k \in Keys(tx[r].body), NEW i, Ready(r, k, i) PROVE Ready(r, k, i)'
      BY <1>1, <1>4, <2>4, <3>1 DEF Ready, DeviceRow
    <3>2. ASSUME NEW k, NEW i, Owned(r, k, i) PROVE Owned(r, k, i)'
      BY <1>1, <1>4, <2>3, <3>2 DEF Owned
    <3>3. ASSUME NEW i, Told(r, i) PROVE Told(r, i)'
      BY <1>1, <1>4, <3>3 DEF Told
    <3> QED BY <1>4, <2>2, <2>7, <3>1, <3>2, <3>3 DEF Written
  <2> QED BY <1>4, <2>5, <2>6, <2>7
<1>8. Kept(r)
  <2>1. Scanning(r)' => Scanning(r)
    BY <1>4 DEF Scanning
  <2> QED BY <1>1, <1>4, <1>6, <1>7, <2>1 DEF Kept, Inventory, Apart
<1> QED BY <1>5, <1>8, CalmKeeps

LEMMA StartInventory ==
  ASSUME Inv, Inventory, NEW r \in Requests, NEW t, Start(r, t),
         Whole(t), t.pc \in Busy, t.start = now, t.held = {},
         \A e \in t.events : e.severity \in Severities,
         \/ t.pc = "mark" /\ t.kind # "scan" /\ DOMAIN t.rows = {} /\ t.down = {}
         \/ t.pc = "flush" /\ t.kind = "scan" /\ t.body \in Scans /\ t.loaded = devices /\ Matched(r)'
  PROVE  Inventory'
<1>1. /\ tx[r].pc = "idle" /\ tx' = [tx EXCEPT ![r] = t]
      /\ UNCHANGED <<now, events, devices, nextId, commits>>
      /\ overlaps \subseteq overlaps'
  BY DEF Start, eventVars
<1>2. \A q \in Requests : tx'[q] = IF q = r THEN t ELSE tx[q]
  BY <1>1 DEF Inv, Basic
<1>3. tx'[r] = t
  BY <1>2
<1>4. now \in 1..MaxTime /\ nextId \in Nat /\ now <= now /\ nextId <= nextId
  BY DEF Inventory, Tables
<1>5. Calm({r})
  BY <1>1, <1>2, <1>3, <1>4 DEF Calm, Busy
<1>6. Session(r)'
  BY <1>1, <1>3, <1>4 DEF Session, Busy
<1>7. ASSUME Scanning(r)' PROVE Loaded(r)' /\ tx'[r].pc = "flush" /\ Matched(r)'
  <2>1. t.kind = "scan"
    BY <1>3, <1>7 DEF Scanning
  <2>2. t.loaded = devices /\ t.pc = "flush" /\ Matched(r)'
    BY <2>1
  <2>3. Loaded(r)'
    BY <1>1, <1>3, <2>2 DEF Loaded
  <2> QED BY <1>3, <2>2, <2>3
<1>8. Kept(r)
  BY <1>3, <1>6, <1>7 DEF Kept
<1> QED BY <1>5, <1>8, CalmKeeps

LEMMA StartScanInventory ==
  ASSUME Inv, Inventory, NEW r \in Requests, StartScan(r) PROVE Inventory'
<1>1. PICK scan \in Scans :
        LET known  == Keys(scan) \cap {devices[i].key : i \in DOMAIN devices}
            newMac == (Keys(scan) \ known) \cap Macs
        IN  \E rowOf \in [known -> DOMAIN devices] :
              /\ \A k \in known : devices[rowOf[k]].key = k
              /\ Start(r, [Idle EXCEPT !.pc = "flush", !.kind = "scan", !.body = scan,
                                       !.start = now, !.loaded = devices, !.rowOf = rowOf,
                                       !.todo = Range(rowOf) \cup newMac])
  BY DEF StartScan
<1> DEFINE known == Keys(scan) \cap {devices[i].key : i \in DOMAIN devices}
           newMac == (Keys(scan) \ known) \cap Macs
<1>2. PICK rowOf \in [known -> DOMAIN devices] :
              /\ \A k \in known : devices[rowOf[k]].key = k
              /\ Start(r, [Idle EXCEPT !.pc = "flush", !.kind = "scan", !.body = scan,
                                       !.start = now, !.loaded = devices, !.rowOf = rowOf,
                                       !.todo = Range(rowOf) \cup newMac])
  BY <1>1
<1> DEFINE t == [Idle EXCEPT !.pc = "flush", !.kind = "scan", !.body = scan,
                             !.start = now, !.loaded = devices, !.rowOf = rowOf,
                             !.todo = Range(rowOf) \cup newMac]
<1>3. /\ Whole(t) /\ t.pc = "flush" /\ t.kind = "scan" /\ t.body = scan /\ t.start = now
      /\ t.loaded = devices /\ t.rowOf = rowOf /\ t.todo = Range(rowOf) \cup newMac
      /\ t.held = {} /\ t.events = {}
  BY DEF Whole, Idle
<1>4. Start(r, t)
  BY <1>2
<1> HIDE DEF t
<1>5. tx'[r] = t
  BY <1>4 DEF Start, Inv, Basic
<1>6. \A k \in known : rowOf[k] \in DOMAIN devices /\ devices[rowOf[k]].key = k /\ rowOf[k] \in Range(rowOf)
  BY <1>2 DEF Range
<1>7. ASSUME NEW k \in Keys(scan) \ known
      PROVE  (\A i \in DOMAIN devices : devices[i].key # k) /\ (k \in Macs => k \in newMac)
  BY <1>7
<1>8. Matched(r)'
  <2>1. DOMAIN rowOf = known /\ known \subseteq Keys(scan)
    BY <1>2
  <2> HIDE DEF known, newMac
  <2> QED BY <1>3, <1>5, <1>6, <1>7, <2>1 DEF Matched, Unknown
<1>9. t.pc \in Busy
  BY <1>3 DEF Busy
<1> QED BY <1>3, <1>4, <1>8, <1>9, StartInventory

LEMMA StartFlowsInventory ==
  ASSUME Inv, Inventory, NEW r \in Requests, StartFlows(r) PROVE Inventory'
<1>1. PICK flows, redisUp :
        Start(r, [Idle EXCEPT !.pc = "mark", !.kind = "flows", !.body = flows, !.start = now,
                              !.events = FlowEvents(r, flows, LoadBlocklist(redisUp))])
  BY DEF StartFlows
<1> DEFINE new == FlowEvents(r, flows, LoadBlocklist(redisUp))
           t == [Idle EXCEPT !.pc = "mark", !.kind = "flows", !.body = flows, !.start = now,
                             !.events = new]
<1>2. /\ Whole(t) /\ t.pc = "mark" /\ t.pc \in Busy /\ t.start = now /\ t.kind # "scan" /\ t.held = {}
      /\ t.events = new /\ DOMAIN t.rows = {} /\ t.down = {}
  BY DEF Whole, Idle, Busy
<1>3. Start(r, t)
  BY <1>1
<1>4. \A e \in new : e.severity \in Severities
  BY DEF FlowEvents, Suspicious, FanOuts, Event, FlowSeverity, Severities
<1> HIDE DEF t, new
<1> QED BY <1>2, <1>3, <1>4, StartInventory

LEMMA StartIdsInventory ==
  ASSUME Inv, Inventory, NEW r \in Requests, StartIds(r) PROVE Inventory'
<1>1. PICK batch :
        Start(r, [Idle EXCEPT !.pc = "mark", !.kind = "ids", !.body = batch, !.start = now,
                              !.events = IdsEvents(r, batch)])
  BY DEF StartIds
<1> DEFINE new == IdsEvents(r, batch)
           t == [Idle EXCEPT !.pc = "mark", !.kind = "ids", !.body = batch, !.start = now,
                             !.events = new]
<1>2. /\ Whole(t) /\ t.pc = "mark" /\ t.pc \in Busy /\ t.start = now /\ t.kind # "scan" /\ t.held = {}
      /\ t.events = new /\ DOMAIN t.rows = {} /\ t.down = {}
  BY DEF Whole, Idle, Busy
<1>3. Start(r, t)
  BY <1>1
<1>4. \A e \in new : e.severity \in Severities
  BY DEF IdsEvents, Event, IdsSeverity, Severities
<1> HIDE DEF t, new
<1> QED BY <1>2, <1>3, <1>4, StartInventory

\* The keys of a scan that were not on any row it loaded.
NewKeys(r) == Keys(tx[r].body) \ DOMAIN tx[r].rowOf

\* The ids of the rows to insert come from the sequence, each one once.
LEMMA NewRowsFacts ==
  ASSUME NEW r, tx[r].body \in Scans, nextId \in Nat
  PROVE  /\ Cardinality(NewKeys(r)) \in Nat
         /\ \A k \in NewKeys(r) : NewRows(r)[k] \in nextId..(nextId + Cardinality(NewKeys(r)) - 1)
         /\ \A k, l \in NewKeys(r) : NewRows(r)[k] = NewRows(r)[l] => k = l
<1> DEFINE scan == tx[r].body
           new == NewKeys(r)
           first(k) == Min(Addresses(scan, k))
           before(k) == {l \in new : first(l) < first(k)}
<1>1. IsFiniteSet(new) /\ Cardinality(new) \in Nat
  BY ScanFacts, FS_Subset, FS_CardinalityType DEF NewKeys
<1>2. \A k \in new : /\ IsFiniteSet(before(k)) /\ Cardinality(before(k)) \in Nat
                     /\ NewRows(r)[k] = nextId + Cardinality(before(k))
  <2>1. \A k \in new : before(k) \in SUBSET new
    OBVIOUS
  <2>2. \A T \in SUBSET new : IsFiniteSet(T) /\ Cardinality(T) \in Nat
    BY <1>1, FS_Subset, FS_CardinalityType
  <2>3. \A k \in new : NewRows(r)[k] = nextId + Cardinality(before(k))
    BY DEF NewRows, NewKeys
  <2> QED BY <2>1, <2>2, <2>3
<1>3. ASSUME NEW k \in new PROVE first(k) \in Nat /\ Key(scan, first(k)) = k
  <2>1. first(k) \in Addresses(scan, k) /\ Addresses(scan, k) \in SUBSET Nat
    BY ScanFacts DEF NewKeys
  <2> QED BY <2>1 DEF Addresses
<1> HIDE DEF before, first
<1>4. ASSUME NEW k \in new PROVE Cardinality(before(k)) <= Cardinality(new) - 1
  <2>1. before(k) \in SUBSET (new \ {k})
    BY <1>3 DEF before
  <2>2. Cardinality(new \ {k}) = Cardinality(new) - 1 /\ IsFiniteSet(new \ {k})
    BY <1>1, FS_RemoveElement
  <2> QED BY <2>1, <2>2, FS_Subset
<1>5. ASSUME NEW k \in new, NEW l \in new, first(k) < first(l)
      PROVE  Cardinality(before(k)) < Cardinality(before(l))
  <2>1. before(k) \in SUBSET before(l)
    BY <1>3, <1>5 DEF before
  <2>2. k \in before(l) /\ k \notin before(k)
    BY <1>3, <1>5 DEF before
  <2>3. Cardinality(before(k)) <= Cardinality(before(l)) /\ Cardinality(before(k)) # Cardinality(before(l))
    BY <1>2, <2>1, <2>2, FS_Subset
  <2> QED BY <1>2, <2>3
<1>6. ASSUME NEW k \in new, NEW l \in new, k # l PROVE NewRows(r)[k] # NewRows(r)[l]
  <2>1. first(k) < first(l) \/ first(l) < first(k)
    BY <1>3, <1>6
  <2>2. Cardinality(before(k)) # Cardinality(before(l))
    BY <1>2, <1>5, <2>1
  <2> QED BY <1>2, <2>2
<1>7. \A k \in new : NewRows(r)[k] \in nextId..(nextId + Cardinality(new) - 1)
  BY <1>1, <1>2, <1>4
<1> QED BY <1>1, <1>6, <1>7

\* A scan whose locks are all granted.
Granted(r) == Inventory /\ r \in Requests /\ tx[r].pc = "flush" /\ tx[r].todo = {}

LEMMA GrantedFacts ==
  ASSUME NEW r, Granted(r)
  PROVE  /\ r \in Requests /\ Scanning(r) /\ tx[r].body \in Scans /\ tx[r].start \in 1..now
         /\ nextId \in Nat \ {0} /\ DOMAIN devices \subseteq 1..(nextId - 1)
         /\ \A i \in DOMAIN devices : DeviceRow(devices[i])
         /\ Loaded(r) /\ Matched(r) /\ Whole(tx[r])
BY DEF Granted, Inventory, Tables, Session, InProgress, Scanning, Busy

\* What a scan found or is given for each of its keys.
LEMMA RowOfFacts ==
  ASSUME NEW r, Granted(r)
  PROVE  /\ DOMAIN RowOf(r) = Keys(tx[r].body)
         /\ \A k \in DOMAIN tx[r].rowOf :
              /\ k \in Keys(tx[r].body) /\ RowOf(r)[k] = tx[r].rowOf[k]
              /\ RowOf(r)[k] \in DOMAIN tx[r].loaded /\ RowOf(r)[k] \in DOMAIN devices
              /\ tx[r].loaded[RowOf(r)[k]].key = k /\ devices[RowOf(r)[k]].key = k
              /\ RowOf(r)[k] \in tx[r].held
         /\ \A k \in NewKeys(r) :
              /\ RowOf(r)[k] \in nextId..(nextId + Cardinality(NewKeys(r)) - 1)
              /\ RowOf(r)[k] \notin DOMAIN devices /\ RowOf(r)[k] \notin DOMAIN tx[r].loaded
              /\ Unknown(r, k) /\ (k \in Macs => k \in tx[r].held)
         /\ \A k, l \in Keys(tx[r].body) : RowOf(r)[k] = RowOf(r)[l] => k = l
<1>1. /\ tx[r].body \in Scans /\ nextId \in Nat \ {0} /\ DOMAIN devices \subseteq 1..(nextId - 1)
      /\ Loaded(r) /\ Matched(r) /\ tx[r].todo = {}
  BY GrantedFacts DEF Granted
<1>2. DOMAIN RowOf(r) = Keys(tx[r].body)
  BY DEF RowOf
<1>3. ASSUME NEW k \in DOMAIN tx[r].rowOf
      PROVE  /\ k \in Keys(tx[r].body) /\ RowOf(r)[k] = tx[r].rowOf[k]
             /\ RowOf(r)[k] \in DOMAIN tx[r].loaded /\ RowOf(r)[k] \in DOMAIN devices
             /\ tx[r].loaded[RowOf(r)[k]].key = k /\ devices[RowOf(r)[k]].key = k
             /\ RowOf(r)[k] \in tx[r].held
  BY <1>1 DEF Matched, RowOf, Loaded
<1>4. ASSUME NEW k \in NewKeys(r)
      PROVE  /\ RowOf(r)[k] = NewRows(r)[k]
             /\ RowOf(r)[k] \in nextId..(nextId + Cardinality(NewKeys(r)) - 1)
             /\ RowOf(r)[k] \notin DOMAIN devices /\ RowOf(r)[k] \notin DOMAIN tx[r].loaded
             /\ Unknown(r, k) /\ (k \in Macs => k \in tx[r].held)
  <2>1. RowOf(r)[k] = NewRows(r)[k]
    BY DEF RowOf, NewKeys
  <2>2. NewRows(r)[k] \in nextId..(nextId + Cardinality(NewKeys(r)) - 1) /\ Cardinality(NewKeys(r)) \in Nat
    BY <1>1, NewRowsFacts
  <2>3. RowOf(r)[k] \notin DOMAIN devices
    BY <1>1, <2>1, <2>2
  <2>4. Unknown(r, k) /\ (k \in Macs => k \in tx[r].held)
    BY <1>1 DEF Matched, NewKeys
  <2> QED BY <1>1, <2>1, <2>2, <2>3, <2>4 DEF Loaded
<1>5. ASSUME NEW k \in Keys(tx[r].body), NEW l \in Keys(tx[r].body), RowOf(r)[k] = RowOf(r)[l]
      PROVE  k = l
  <2>1. \A m \in Keys(tx[r].body) : m \in DOMAIN tx[r].rowOf \/ m \in NewKeys(r)
    BY DEF NewKeys
  <2>2. CASE k \in DOMAIN tx[r].rowOf
    BY <1>3, <1>4, <1>5, <2>1, <2>2
  <2>3. CASE k \in NewKeys(r)
    BY <1>1, <1>3, <1>4, <1>5, <2>1, <2>3, NewRowsFacts
  <2> QED BY <2>1, <2>2, <2>3
<1> QED BY <1>2, <1>3, <1>4, <1>5

\* A row as the flush leaves it, and with its details.
LEMMA RowFacts ==
  ASSUME NEW r, Granted(r), NEW k \in Keys(tx[r].body), NEW row,
         row = Details(Flushed(r, k), tx[r].body, Addresses(tx[r].body, k))
  PROVE  LET scan == tx[r].body
             ip == Max(Addresses(scan, k))
             i == RowOf(r)[k]
         IN  /\ DeviceRow(row) /\ row.key = k
             /\ row.ports = scan[ip].ports /\ row.vulns = Evaluate(row.ports)
             /\ row.ifs = IF WithIfs(scan, k) # {} THEN scan[Max(WithIfs(scan, k))].ifs
                          ELSE IF i \in DOMAIN devices THEN devices[i].ifs ELSE {}
             /\ row.seen = tx[r].start
             /\ Quiet(r) => row.status = "up" /\ row.ip = ip /\ row.gateway = scan[ip].gateway
<1> DEFINE scan == tx[r].body
           ip == Max(Addresses(scan, k))
           i == RowOf(r)[k]
           old == Flushed(r, k)
<1>0. scan \in Scans /\ tx[r].start \in 1..now
  BY GrantedFacts
<1>1. ip \in Nat /\ ip \in DOMAIN scan /\ scan[ip].gateway \in BOOLEAN /\ k \in Macs \cup Nat
  BY <1>0, ScanFacts, ScanAssumption
<1>2. /\ {"key", "ip", "status", "gateway", "first", "seen", "ports", "vulns", "ifs"} \subseteq DOMAIN old
      /\ old.key = k /\ old.ip \in Nat /\ old.status \in {"up", "down"} /\ old.gateway \in BOOLEAN
      /\ old.first \in 1..now /\ old.seen \in 1..now /\ old.seen = tx[r].start
      /\ old.ifs = IF i \in DOMAIN devices THEN devices[i].ifs ELSE {}
      /\ Quiet(r) => old.status = "up" /\ old.ip = ip /\ old.gateway = scan[ip].gateway
  <2>1. CASE k \in DOMAIN tx[r].rowOf
    <3> DEFINE was == tx[r].loaded[i]
               is == devices[i]
    <3>1. /\ i = tx[r].rowOf[k] /\ i \in DOMAIN devices /\ is.key = k /\ DeviceRow(is)
          /\ Quiet(r) => was = is
      BY <2>1, RowOfFacts, GrantedFacts DEF Loaded
    <3>2. old = [is EXCEPT !.ip = Assign(was.ip, ip, is.ip), !.status = Assign(was.status, "up", is.status),
                           !.gateway = Assign(was.gateway, scan[ip].gateway, is.gateway), !.seen = tx[r].start]
      BY <2>1, <3>1 DEF Flushed
    <3> HIDE DEF old, ip, was, is, i, scan
    <3>3. /\ {"key", "ip", "status", "gateway", "first", "seen", "ports", "vulns", "ifs"} \subseteq DOMAIN is
          /\ is.ip \in Nat /\ is.status \in {"up", "down"} /\ is.gateway \in BOOLEAN
          /\ is.first \in 1..now
      BY <3>1 DEF DeviceRow
    <3>4. /\ DOMAIN old = DOMAIN is /\ old.key = is.key /\ old.first = is.first /\ old.ifs = is.ifs
          /\ old.seen = tx[r].start
          /\ old.ip = Assign(was.ip, ip, is.ip) /\ old.status = Assign(was.status, "up", is.status)
          /\ old.gateway = Assign(was.gateway, scan[ip].gateway, is.gateway)
      BY <3>2, <3>3
    <3>5. /\ old.ip \in Nat /\ old.status \in {"up", "down"} /\ old.gateway \in BOOLEAN
          /\ was = is => old.status = "up" /\ old.ip = ip /\ old.gateway = scan[ip].gateway
      BY <1>1, <3>3, <3>4 DEF Assign
    <3> QED BY <1>0, <3>1, <3>3, <3>4, <3>5 DEF is
  <2>2. CASE k \notin DOMAIN tx[r].rowOf
    <3>1. old = [key |-> k, ip |-> ip, status |-> "up", gateway |-> scan[ip].gateway,
                 first |-> tx[r].start, seen |-> tx[r].start, ports |-> {}, vulns |-> {}, ifs |-> {}]
      BY <2>2 DEF Flushed
    <3>2. i \notin DOMAIN devices
      BY <2>2, RowOfFacts DEF NewKeys
    <3> HIDE DEF old, ip, i, scan
    <3> QED BY <1>0, <1>1, <3>1, <3>2
  <2> QED BY <2>1, <2>2
<1> DEFINE new == IF WithIfs(scan, k) = {} THEN old.ifs ELSE scan[Max(WithIfs(scan, k))].ifs
<1>3. row = [old EXCEPT !.ports = scan[ip].ports, !.vulns = Evaluate(scan[ip].ports), !.ifs = new]
  BY DEF Details, WithIfs
<1> HIDE DEF old, ip, i, scan, new
<1>4. /\ DOMAIN row = DOMAIN old /\ row.key = old.key /\ row.ip = old.ip /\ row.status = old.status
      /\ row.gateway = old.gateway /\ row.first = old.first /\ row.seen = old.seen
      /\ row.ports = scan[ip].ports /\ row.vulns = Evaluate(scan[ip].ports) /\ row.ifs = new
  BY <1>2, <1>3
<1>5. \A v \in row.vulns : v.severity \in Severities
  BY <1>4, FindingSeverity
<1>6. DeviceRow(row)
  BY <1>1, <1>2, <1>4, <1>5 DEF DeviceRow
<1> QED BY <1>2, <1>4, <1>6 DEF new, i, ip, scan

\* The rows to write, one for each key.
LEMMA SyncedFacts ==
  ASSUME NEW r, Granted(r)
  PROVE  /\ DOMAIN Synced(r, RowOf(r)) = Range(RowOf(r))
         /\ \A k \in Keys(tx[r].body) :
              Synced(r, RowOf(r))[RowOf(r)[k]]
                = Details(Flushed(r, k), tx[r].body, Addresses(tx[r].body, k))
<1>1. DOMAIN Synced(r, RowOf(r)) = Range(RowOf(r))
  BY DEF Synced
<1>2. ASSUME NEW k \in Keys(tx[r].body)
      PROVE  Synced(r, RowOf(r))[RowOf(r)[k]]
               = Details(Flushed(r, k), tx[r].body, Addresses(tx[r].body, k))
  <2> DEFINE l == CHOOSE l \in DOMAIN RowOf(r) : RowOf(r)[l] = RowOf(r)[k]
  <2>1. DOMAIN RowOf(r) = Keys(tx[r].body) /\ RowOf(r)[k] \in Range(RowOf(r))
    BY RowOfFacts DEF Range
  <2>2. l \in Keys(tx[r].body) /\ RowOf(r)[l] = RowOf(r)[k]
    BY <2>1
  <2>3. l = k
    BY <2>2, RowOfFacts
  <2>4. Synced(r, RowOf(r))[RowOf(r)[k]]
          = Details(Flushed(r, l), tx[r].body, Addresses(tx[r].body, l))
    BY <2>1 DEF Synced
  <2> QED BY <2>3, <2>4
<1> QED BY <1>1, <1>2

\* A port that was not stored is announced by the first address that shows it.
LEMMA PortAnnounced ==
  ASSUME NEW r, Granted(r), NEW k \in DOMAIN tx[r].rowOf,
         NEW p \in tx[r].body[Max(Addresses(tx[r].body, k))].ports,
         \A q \in devices[RowOf(r)[k]].ports : q.port # p.port
  PROVE  \E e \in Announced(r, RowOf(r)) :
           e.kind = "new_open_port" /\ e.about = RowOf(r)[k] /\ e.port = p.port
<1> DEFINE scan == tx[r].body
           shown == {ip \in Addresses(scan, k) : \E q \in scan[ip].ports : q.port = p.port}
<1>1. k \in Keys(scan) /\ scan \in Scans /\ RowOf(r)[k] = tx[r].rowOf[k] /\ RowOf(r)[k] \in DOMAIN devices
      /\ DOMAIN tx[r].loaded # {} /\ DeviceRow(devices[RowOf(r)[k]])
  BY RowOfFacts, GrantedFacts
<1>2. /\ Addresses(scan, k) \in SUBSET Nat /\ IsFiniteSet(Addresses(scan, k))
      /\ Addresses(scan, k) \subseteq DOMAIN scan /\ Max(Addresses(scan, k)) \in Addresses(scan, k)
  BY <1>1, ScanFacts
<1>3. PICK j \in shown : \A ip \in shown : j <= ip
  <2>1. shown \in SUBSET Nat /\ shown # {}
    BY <1>2
  <2> QED BY <2>1, LeastExists
<1>4. PICK s \in scan[j].ports : s.port = p.port
  BY <1>3
<1>5. j \in DOMAIN scan /\ Key(scan, j) = k /\ j \in Addresses(scan, k)
  BY <1>3 DEF Addresses
<1> DEFINE earlier == {ip \in Addresses(scan, k) : ip < j}
<1>6. \A q \in StoredPorts(r, j) : q.port # p.port
  <2>1. CASE earlier = {}
    <3>1. StoredPorts(r, j) = Flushed(r, k).ports
      BY <1>5, <2>1 DEF StoredPorts
    <3>2. Flushed(r, k).ports = devices[RowOf(r)[k]].ports
      BY <1>1 DEF Flushed, DeviceRow
    <3> QED BY <3>1, <3>2
  <2>2. CASE earlier # {}
    <3>1. earlier \in SUBSET Nat /\ IsFiniteSet(earlier)
      BY <1>2, FS_Subset
    <3>2. Max(earlier) \in earlier
      BY <2>2, <3>1, MaxFacts
    <3>3. StoredPorts(r, j) = scan[Max(earlier)].ports
      BY <1>5, <2>2 DEF StoredPorts
    <3>4. \A ip \in earlier : ip \notin shown
      <4> SUFFICES ASSUME NEW ip \in earlier, ip \in shown PROVE FALSE
        OBVIOUS
      <4>1. ip < j /\ j <= ip /\ ip \in Nat /\ j \in Nat
        BY <1>2, <1>3
      <4> QED BY <4>1
    <3> QED BY <3>2, <3>3, <3>4
  <2> QED BY <2>1, <2>2
<1> DEFINE new == Keys(scan) \ DOMAIN tx[r].rowOf
           known == {ip \in DOMAIN scan : \/ Key(scan, ip) \notin new
                                          \/ \E i \in Addresses(scan, Key(scan, ip)) : i < ip}
           opened(ip) == {q.port : q \in scan[ip].ports} \ {q.port : q \in StoredPorts(r, ip)}
           portEvent(ip, q) ==
             LET l == Key(scan, ip)
             IN  Event(r, "new_open_port", IF q \in SensitivePorts THEN "medium" ELSE "low",
                       RowOf(r)[l], Max(Addresses(scan, l)), q, tx[r].start)
<1>7. j \in known /\ p.port \in opened(j)
  BY <1>4, <1>5, <1>6
<1>8. portEvent(j, p.port) \in UNION {{portEvent(ip, q) : q \in opened(ip)} : ip \in known}
  BY <1>7
<1>9. portEvent(j, p.port) \in Announced(r, RowOf(r))
  BY <1>1, <1>8 DEF Announced, HadBaseline
<1>10. /\ portEvent(j, p.port).kind = "new_open_port" /\ portEvent(j, p.port).about = RowOf(r)[k]
       /\ portEvent(j, p.port).port = p.port
  BY <1>5 DEF Event
<1> QED BY <1>9, <1>10

\* A new device is announced when something was known.
LEMMA DeviceAnnounced ==
  ASSUME NEW r, Granted(r), NEW k \in NewKeys(r), DOMAIN tx[r].loaded # {}
  PROVE  \E e \in Announced(r, RowOf(r)) : e.kind = "new_device" /\ e.about = RowOf(r)[k]
<1> DEFINE e == Event(r, "new_device", "low", RowOf(r)[k], None, None, tx[r].start)
<1>1. e \in Announced(r, RowOf(r))
  BY DEF Announced, HadBaseline, NewKeys
<1>2. e.kind = "new_device" /\ e.about = RowOf(r)[k]
  BY DEF Event
<1> QED BY <1>1, <1>2

LEMMA ScanSeverity ==
  ASSUME NEW r, NEW rowOf, NEW e \in Announced(r, rowOf) \cup ArpEvents(r)
  PROVE  e.severity \in Severities
<1>1. CASE e \in Announced(r, rowOf)
  BY <1>1 DEF Announced, Event, Severities
<1>2. CASE e \in ArpEvents(r)
  BY <1>2 DEF ArpEvents, Event, Severities
<1> QED BY <1>1, <1>2

LEMMA SyncInventory ==
  ASSUME Inv, Inventory, NEW r \in Requests, Sync(r) PROVE Inventory'
<1> DEFINE down == Absent(r, Range(RowOf(r)))
           new == Announced(r, RowOf(r)) \cup ArpEvents(r)
           t == [tx[r] EXCEPT !.pc = "mark", !.rowOf = RowOf(r), !.rows = Synced(r, RowOf(r)),
                              !.events = new, !.down = down, !.todo = down]
<1>1. Granted(r)
  BY DEF Granted, Sync
<1>2. /\ Scanning(r) /\ tx[r].body \in Scans /\ tx[r].start \in 1..now
      /\ nextId \in Nat \ {0} /\ DOMAIN devices \subseteq 1..(nextId - 1)
      /\ Loaded(r) /\ Matched(r) /\ Whole(tx[r]) /\ tx[r].pc = "flush"
  BY <1>1, GrantedFacts DEF Granted
<1>3. /\ tx' = [tx EXCEPT ![r] = t]
      /\ nextId' = nextId + Cardinality(NewKeys(r))
      /\ UNCHANGED <<now, events, devices, commits, overlaps>>
  BY <1>2 DEF Sync, eventVars, NewKeys, Inv, Basic
<1>4. \A q \in Requests : tx'[q] = IF q = r THEN t ELSE tx[q]
  BY <1>3 DEF Inv, Basic
<1>5. /\ Whole(tx'[r]) /\ tx'[r].pc = "mark" /\ tx'[r].kind = tx[r].kind /\ tx'[r].body = tx[r].body
      /\ tx'[r].start = tx[r].start /\ tx'[r].loaded = tx[r].loaded /\ tx'[r].rowOf = RowOf(r)
      /\ tx'[r].rows = Synced(r, RowOf(r)) /\ tx'[r].events = new
      /\ tx'[r].down = down /\ tx'[r].todo = down /\ tx'[r].held = tx[r].held
  BY <1>2, <1>4 DEF Whole
<1> HIDE DEF t
<1>6. Cardinality(NewKeys(r)) \in Nat
  BY <1>2, NewRowsFacts
<1>7. Calm({r})
  <2>1. tx[r].pc # "done" /\ tx'[r].pc # "done"
    BY <1>2, <1>5
  <2>2. now \in 1..MaxTime /\ now <= now /\ nextId' \in Nat /\ nextId <= nextId'
    BY <1>2, <1>3, <1>6 DEF Inventory, Tables
  <2>3. \A q \in Requests \ {r} : tx'[q] = tx[q]
    BY <1>4
  <2> QED BY <1>3, <2>1, <2>2, <2>3 DEF Calm
<1>8. Session(r)'
  BY <1>2, <1>3, <1>5, ScanSeverity DEF Session, Busy, Scanning
<1>9. /\ \A i : FirstSeenBy(i)' = FirstSeenBy(i)
      /\ Quiet(r)' => Quiet(r)
      /\ \A q : Overlapped(q, r) => Overlapped(q, r)'
  BY <1>7, CalmCommits
<1>10. Loaded(r)'
  BY <1>2, <1>3, <1>5, <1>9 DEF Loaded
<1>11. Written(r)'
  <2>1. \A k : Unknown(r, k)' = Unknown(r, k)
    BY <1>5 DEF Unknown
  <2>2. ASSUME NEW k \in Keys(tx[r].body), NEW i, i = RowOf(r)[k]
        PROVE  Ready(r, k, i)' /\ Owned(r, k, i)' /\ Told(r, i)'
    <3> DEFINE row == Synced(r, RowOf(r))[i]
    <3>1. row = Details(Flushed(r, k), tx[r].body, Addresses(tx[r].body, k))
      BY <1>1, <2>2, SyncedFacts
    <3>2. /\ DeviceRow(row) /\ row.key = k
          /\ row.ports = tx[r].body[Max(Addresses(tx[r].body, k))].ports /\ row.vulns = Evaluate(row.ports)
          /\ row.ifs = IF WithIfs(tx[r].body, k) # {}
                       THEN tx[r].body[Max(WithIfs(tx[r].body, k))].ifs
                       ELSE IF i \in DOMAIN devices THEN devices[i].ifs ELSE {}
          /\ row.seen = tx[r].start
          /\ Quiet(r) => /\ row.status = "up" /\ row.ip = Max(Addresses(tx[r].body, k))
                         /\ row.gateway = tx[r].body[Max(Addresses(tx[r].body, k))].gateway
      BY <1>1, <2>2, <3>1, RowFacts
    <3>3. k \in DOMAIN tx[r].rowOf \/ k \in NewKeys(r)
      BY DEF NewKeys
    <3>4. IF i \in DOMAIN tx[r].loaded THEN tx[r].loaded[i].key = k /\ i \in tx[r].held /\ k \in DOMAIN tx[r].rowOf
          ELSE /\ i \in 1..(nextId' - 1) /\ i \notin DOMAIN devices
               /\ Unknown(r, k) /\ (k \in Macs => k \in tx[r].held) /\ k \in NewKeys(r)
      BY <1>1, <1>2, <1>3, <1>6, <2>2, <3>3, RowOfFacts
    <3>5. IF i \in DOMAIN tx[r].loaded
          THEN \A p \in row.ports : (\A q \in devices[i].ports : q.port # p.port) =>
                 \E e \in new : e.kind = "new_open_port" /\ e.about = i /\ e.port = p.port
          ELSE DOMAIN tx[r].loaded = {} \/ \E e \in new : e.kind = "new_device" /\ e.about = i
      BY <1>1, <2>2, <3>2, <3>4, PortAnnounced, DeviceAnnounced
    <3> HIDE DEF row, new
    <3>6. tx'[r].rows[i] = row
      BY <1>5 DEF row
    <3>7. Ready(r, k, i)'
      <4> DEFINE scan == tx[r].body
                 top == Max(Addresses(scan, k))
                 ifs == IF WithIfs(scan, k) # {} THEN scan[Max(WithIfs(scan, k))].ifs
                        ELSE IF i \in DOMAIN devices THEN devices[i].ifs ELSE {}
      <4>1. /\ DeviceRow(row) /\ row.key = k /\ row.ports = scan[top].ports
            /\ row.vulns = Evaluate(row.ports) /\ row.ifs = ifs
            /\ row.seen = tx[r].start
            /\ Quiet(r) => row.status = "up" /\ row.ip = top /\ row.gateway = scan[top].gateway
        BY <3>2
      <4>2. tx'[r].body = scan /\ tx'[r].start = tx[r].start /\ devices' = devices /\ now' = now
        BY <1>3, <1>5
      <4>3. DeviceRow(tx[r].rows[i])'
        BY <3>6, <4>1, <4>2 DEF DeviceRow
      <4> QED BY <1>9, <3>6, <4>1, <4>2, <4>3 DEF Ready
    <3>8. Owned(r, k, i)'
      BY <1>3, <1>5, <2>1, <3>4 DEF Owned
    <3>9. Told(r, i)'
      BY <1>3, <1>5, <3>5, <3>6 DEF Told
    <3> QED BY <3>7, <3>8, <3>9
  <2>3. DOMAIN RowOf(r) = Keys(tx[r].body) /\ DOMAIN Synced(r, RowOf(r)) = Range(RowOf(r))
    BY <1>1, RowOfFacts, SyncedFacts
  <2>4. /\ down \subseteq DOMAIN tx[r].loaded
        /\ \A i \in DOMAIN tx[r].loaded \ Range(RowOf(r)) : i \notin down => tx[r].loaded[i].status = "down"
    BY DEF Absent
  <2> HIDE DEF down, new
  <2> QED BY <1>5, <2>2, <2>3, <2>4 DEF Written
<1>12. ASSUME NEW q \in Requests \ {r}, Scanning(q), tx[q].pc = "mark",
              NEW i, i \in DOMAIN tx[q].rows, i \in DOMAIN tx'[r].rows
       PROVE  FALSE
  <2>1. Written(q) /\ Loaded(q)
    BY <1>12 DEF Inventory, InProgress
  <2>2. PICK l \in Keys(tx[q].body) : i = tx[q].rowOf[l] /\ Owned(q, l, i)
    BY <1>12, <2>1 DEF Written, Range
  <2>3. PICK k \in Keys(tx[r].body) : i = RowOf(r)[k]
    <3>1. i \in Range(RowOf(r)) /\ DOMAIN RowOf(r) = Keys(tx[r].body)
      BY <1>1, <1>5, <1>12, SyncedFacts, RowOfFacts
    <3> QED BY <3>1 DEF Range
  <2>4. i \in DOMAIN devices \/ i \in 1..(nextId - 1)
    BY <2>1, <2>2 DEF Owned, Loaded
  <2>5. i < nextId
    BY <1>2, <2>4
  <2>6. k \in DOMAIN tx[r].rowOf
    <3>1. k \in NewKeys(r) => i \in nextId..(nextId + Cardinality(NewKeys(r)) - 1)
      BY <1>1, <2>3, RowOfFacts
    <3> QED BY <1>2, <1>6, <2>5, <3>1 DEF NewKeys
  <2>7. i \in DOMAIN devices /\ i \in tx[r].held
    BY <1>1, <2>3, <2>6, RowOfFacts
  <2>8. i \in tx[q].held
    BY <2>2, <2>7 DEF Owned
  <2> QED BY <1>12, <2>7, <2>8 DEF Inventory, Locks
<1>13. Kept(r)
  BY <1>5, <1>8, <1>10, <1>11, <1>12 DEF Kept
<1> QED BY <1>7, <1>13, CalmKeeps

\* A commit of flows or of IDS alerts touches no device.
LEMMA CommitEventsDevices ==
  ASSUME Inventory, NEW r \in Requests, Commit(r), tx[r].kind # "scan"
  PROVE  devices' = devices
<1>1. DOMAIN tx[r].rows = {} /\ tx[r].down = {}
  BY DEF Commit, Inventory, Session, Busy
<1>2. devices' = [i \in DOMAIN devices |-> devices[i]]
  BY <1>1 DEF Commit
<1> QED BY <1>2 DEF Inventory, Tables

\* A commit of flows or of IDS alerts adds events.
LEMMA CommitEventsInventory ==
  ASSUME Inv, Inventory, NEW r \in Requests, Commit(r), tx[r].kind # "scan"
  PROVE  Inventory'
<1>1. /\ tx[r].pc = "mark" /\ tx[r].pc \in Busy /\ r \in Active
      /\ Session(r) /\ DOMAIN tx[r].rows = {} /\ tx[r].down = {}
  BY DEF Commit, Inventory, Session, Busy, Active
<1>2. devices' = devices
  BY CommitEventsDevices
<1>3. /\ events' = events \cup tx[r].events
      /\ UNCHANGED <<now, nextId, commits, overlaps>>
      /\ tx' = [tx EXCEPT ![r] = [Idle EXCEPT !.pc = "done", !.kind = tx[r].kind, !.body = tx[r].body,
                                              !.start = tx[r].start, !.rowOf = tx[r].rowOf]]
  BY DEF Commit
<1>4. \A q \in Requests : q # r => tx'[q] = tx[q]
  BY <1>3 DEF Inv, Basic
<1>5. /\ Whole(tx'[r]) /\ tx'[r].pc = "done" /\ tx'[r].kind # "scan" /\ tx'[r].held = {}
      /\ tx'[r].todo = {} /\ tx'[r].events = {}
  BY <1>3 DEF Inv, Basic, Idle, Whole
<1>6. \A e \in tx[r].events : e.of = r /\ e.severity \in Severities /\ e.at \in 1..now
  BY <1>1 DEF Inv, Pending, Session
<1>7. Calm({r})
  <2>1. now \in 1..MaxTime /\ nextId \in Nat /\ now <= now /\ nextId <= nextId
    BY DEF Inventory, Tables
  <2> QED BY <1>1, <1>2, <1>3, <1>4, <1>5, <1>6, <2>1 DEF Calm
<1>8. Kept(r)
  <2>1. Session(r)' /\ ~Scanning(r)'
    BY <1>5 DEF Session, Scanning, Busy, Ended
  <2> QED BY <1>5, <2>1 DEF Kept
<1> QED BY <1>7, <1>8, CalmKeeps

(***************************************************************************)
(* The commit of a scan.                                                   *)
(***************************************************************************)
Committing(r) == Inv /\ Inventory /\ r \in Requests /\ Commit(r) /\ tx[r].kind = "scan"

LEMMA CommittingFacts ==
  ASSUME NEW r, Committing(r)
  PROVE  /\ r \in Requests /\ r \in Active /\ Scanning(r) /\ Session(r)
         /\ Loaded(r) /\ Written(r) /\ tx[r].pc = "mark" /\ tx[r].todo = {}
         /\ \A q \in Requests : q # r => tx'[q] = tx[q]
         /\ Whole(tx'[r]) /\ tx'[r].pc = "done" /\ tx'[r].kind = "scan" /\ tx'[r].body = tx[r].body
         /\ tx'[r].start = tx[r].start /\ tx'[r].rowOf = tx[r].rowOf
         /\ tx'[r].held = {} /\ tx'[r].todo = {} /\ tx'[r].events = {}
         /\ events' = events \cup tx[r].events /\ commits' = Append(commits, r)
         /\ UNCHANGED <<now, nextId, overlaps>>
         /\ \A e \in tx[r].events : e.of = r /\ e.at = tx[r].start
<1>1. /\ Inv /\ Inventory /\ r \in Requests /\ tx[r].pc = "mark" /\ tx[r].todo = {}
      /\ events' = events \cup tx[r].events /\ commits' = Append(commits, r)
      /\ UNCHANGED <<now, nextId, overlaps>>
      /\ tx' = [tx EXCEPT ![r] = [Idle EXCEPT !.pc = "done", !.kind = tx[r].kind, !.body = tx[r].body,
                                              !.start = tx[r].start, !.rowOf = tx[r].rowOf]]
      /\ tx[r].kind = "scan"
  BY DEF Committing, Commit
<1>2. r \in Active /\ Scanning(r)
  BY <1>1 DEF Active, Scanning, Busy
<1>3. Session(r) /\ Loaded(r) /\ Written(r)
  BY <1>1, <1>2 DEF Inventory, InProgress
<1>4. /\ \A q \in Requests : q # r => tx'[q] = tx[q]
      /\ Whole(tx'[r]) /\ tx'[r].pc = "done" /\ tx'[r].kind = "scan" /\ tx'[r].body = tx[r].body
      /\ tx'[r].start = tx[r].start /\ tx'[r].rowOf = tx[r].rowOf
      /\ tx'[r].held = {} /\ tx'[r].todo = {} /\ tx'[r].events = {}
  BY <1>1 DEF Inv, Basic, Idle, Whole
<1>5. \A e \in tx[r].events : e.of = r /\ e.at = tx[r].start
  BY <1>1 DEF Inv, Pending
<1> QED BY <1>1, <1>2, <1>3, <1>4, <1>5

\* The rows that a scan is about to write.
LEMMA RowsFacts ==
  ASSUME NEW r, Written(r), NEW i \in DOMAIN tx[r].rows
  PROVE  \E k \in Keys(tx[r].body) :
           /\ tx[r].rowOf[k] = i /\ k \in DOMAIN tx[r].rowOf
           /\ Ready(r, k, i) /\ Owned(r, k, i) /\ Told(r, i) /\ tx[r].rows[i].key = k
<1>1. PICK k \in DOMAIN tx[r].rowOf : tx[r].rowOf[k] = i
  BY DEF Written, Range
<1>2. k \in Keys(tx[r].body) /\ Ready(r, k, i) /\ Owned(r, k, i) /\ Told(r, i)
  BY <1>1 DEF Written
<1> QED BY <1>1, <1>2 DEF Ready

\* The committed rows.
LEMMA CommitRows ==
  ASSUME NEW r, Committing(r)
  PROVE  /\ DOMAIN devices' = DOMAIN devices \cup DOMAIN tx[r].rows
         /\ devices' = [i \in DOMAIN devices' |-> devices'[i]]
         /\ \A i \in DOMAIN tx[r].rows : devices'[i] = tx[r].rows[i]
         /\ \A i \in DOMAIN devices \ DOMAIN tx[r].rows :
              devices'[i] = IF i \in tx[r].down THEN [devices[i] EXCEPT !.status = "down"] ELSE devices[i]
         /\ \A i \in DOMAIN devices : devices'[i].key = devices[i].key
         /\ \A q \in Requests \ {r} : \A i \in DOMAIN devices :
              i \in tx[q].held => devices'[i] = devices[i]
<1>1. Loaded(r) /\ Written(r) /\ tx[r].todo = {} /\ r \in Requests
  BY CommittingFacts
<1>2. devices' = [i \in DOMAIN devices \cup DOMAIN tx[r].rows |->
                   IF i \in DOMAIN tx[r].rows THEN tx[r].rows[i]
                   ELSE IF i \in tx[r].down THEN [devices[i] EXCEPT !.status = "down"]
                   ELSE devices[i]]
  BY DEF Committing, Commit
<1>3. /\ DOMAIN devices' = DOMAIN devices \cup DOMAIN tx[r].rows
      /\ devices' = [i \in DOMAIN devices' |-> devices'[i]]
      /\ \A i \in DOMAIN tx[r].rows : devices'[i] = tx[r].rows[i]
      /\ \A i \in DOMAIN devices \ DOMAIN tx[r].rows :
              devices'[i] = IF i \in tx[r].down THEN [devices[i] EXCEPT !.status = "down"] ELSE devices[i]
  BY <1>2
<1>4. ASSUME NEW i \in DOMAIN devices, i \in DOMAIN tx[r].rows
      PROVE  tx[r].rows[i].key = devices[i].key /\ i \in tx[r].held
  <2>1. PICK k : Owned(r, k, i) /\ tx[r].rows[i].key = k
    BY <1>1, <1>4, RowsFacts
  <2>2. i \in DOMAIN tx[r].loaded /\ tx[r].loaded[i].key = k /\ i \in tx[r].held
    BY <1>4, <2>1 DEF Owned
  <2> QED BY <1>1, <2>1, <2>2 DEF Loaded
<1>5. ASSUME NEW i \in DOMAIN devices PROVE devices'[i].key = devices[i].key
  <2>1. CASE i \in DOMAIN tx[r].rows
    BY <1>3, <1>4, <2>1
  <2>2. CASE i \notin DOMAIN tx[r].rows
    <3>1. DeviceRow(devices[i])
      BY DEF Committing, Inventory, Tables
    <3>2. [devices[i] EXCEPT !.status = "down"].key = devices[i].key
      BY <3>1 DEF DeviceRow
    <3> QED BY <1>3, <2>2, <3>2
  <2> QED BY <2>1, <2>2
<1>6. ASSUME NEW q \in Requests \ {r}, NEW i \in DOMAIN devices, i \in tx[q].held
      PROVE  devices'[i] = devices[i]
  <2>1. i \notin tx[r].held
    BY <1>1, <1>6 DEF Committing, Inventory, Locks
  <2>2. i \notin DOMAIN tx[r].rows
    BY <1>4, <2>1
  <2>3. i \notin tx[r].down
    BY <1>1, <2>1 DEF Written
  <2> QED BY <1>3, <2>2, <2>3
<1> QED BY <1>3, <1>5, <1>6

\* Which commits touched a row, before and after.
LEMMA CommitCommits ==
  ASSUME NEW r, Committing(r)
  PROVE  /\ commits \in Seq(Requests) /\ commits' \in Seq(Requests) /\ Len(commits') = Len(commits) + 1
         /\ commits'[Len(commits) + 1] = r /\ commits' # <<>> /\ Last(commits)' = r
         /\ \A n \in DOMAIN commits : /\ n \in DOMAIN commits' /\ commits'[n] = commits[n]
                                      /\ commits[n] \in Requests /\ commits[n] # r
                                      /\ tx'[commits[n]] = tx[commits[n]]
         /\ \A i : CommitsOf(i) \in SUBSET (1..Len(commits))
         /\ \A i : CommitsOf(i)' = CommitsOf(i) \cup (IF i \in Range(tx[r].rowOf) THEN {Len(commits) + 1} ELSE {})
<1>1. /\ commits \in Seq(Requests) /\ r \in Requests /\ commits' = Append(commits, r) /\ tx[r].pc = "mark"
      /\ \A n \in DOMAIN commits : tx[commits[n]].pc = "done"
      /\ tx'[r].rowOf = tx[r].rowOf
      /\ \A q \in Requests : q # r => tx'[q] = tx[q]
  BY CommittingFacts DEF Committing, Inventory, Tables
<1>2. /\ commits' \in Seq(Requests) /\ Len(commits') = Len(commits) + 1
      /\ commits'[Len(commits) + 1] = r /\ commits' # <<>>
      /\ DOMAIN commits = 1..Len(commits) /\ DOMAIN commits' = 1..(Len(commits) + 1) /\ Len(commits) \in Nat
  BY <1>1
<1>3. Last(commits)' = r
  BY <1>2 DEF Last
<1>4. \A n \in DOMAIN commits : /\ n \in DOMAIN commits' /\ commits'[n] = commits[n]
                                /\ commits[n] \in Requests /\ commits[n] # r
                                /\ tx'[commits[n]] = tx[commits[n]]
  BY <1>1, <1>2
<1>5. \A i : CommitsOf(i) \in SUBSET (1..Len(commits))
  BY <1>2 DEF CommitsOf
<1>6. ASSUME NEW i, NEW n
      PROVE  n \in CommitsOf(i)' <=>
               n \in CommitsOf(i) \cup (IF i \in Range(tx[r].rowOf) THEN {Len(commits) + 1} ELSE {})
  <2>1. n \in DOMAIN commits' <=> n \in DOMAIN commits \/ n = Len(commits) + 1
    BY <1>2
  <2>2. n \in DOMAIN commits => n # Len(commits) + 1
    BY <1>2
  <2> QED BY <1>1, <1>2, <1>4, <2>1, <2>2 DEF CommitsOf
<1>7. \A i : CommitsOf(i)' = CommitsOf(i) \cup (IF i \in Range(tx[r].rowOf) THEN {Len(commits) + 1} ELSE {})
  BY <1>6
<1> QED BY <1>1, <1>2, <1>3, <1>4, <1>5, <1>7

\* The first and the last commit of a row, before and after.
LEMMA CommitScans ==
  ASSUME NEW r, Committing(r)
  PROVE  /\ \A i \in DOMAIN devices : FirstSeenBy(i)' = FirstSeenBy(i)
         /\ \A i \in DOMAIN tx[r].rows \ DOMAIN devices : FirstSeenBy(i)' = r
         /\ \A i \in DOMAIN tx[r].rows : LastSeenBy(i)' = r
         /\ \A i \in DOMAIN devices \ DOMAIN tx[r].rows : LastSeenBy(i)' = LastSeenBy(i)
         /\ \A i \in DOMAIN devices : Max(CommitsOf(i)) \in CommitsOf(i)
<1> DEFINE n == Len(commits) + 1
<1>1. /\ Len(commits) \in Nat /\ commits'[n] = r /\ DOMAIN tx[r].rows = Range(tx[r].rowOf)
      /\ \A m \in DOMAIN commits : commits'[m] = commits[m]
      /\ DOMAIN commits = 1..Len(commits)
      /\ \A i : CommitsOf(i) \in SUBSET (1..Len(commits))
      /\ \A i : CommitsOf(i)' = CommitsOf(i) \cup (IF i \in Range(tx[r].rowOf) THEN {n} ELSE {})
  <2>1. Written(r) /\ commits \in Seq(Requests)
    BY CommittingFacts, CommitCommits
  <2> QED BY <2>1, CommitCommits DEF Written
<1>2. \A i \in DOMAIN devices : CommitsOf(i) # {}
  BY DEF Committing, Inventory, History
<1>3. \A i \in DOMAIN tx[r].rows \ DOMAIN devices : CommitsOf(i) = {}
  BY DEF Committing, Inventory, History, CommitsOf
<1> HIDE DEF n
<1>4. ASSUME NEW i \in DOMAIN devices PROVE FirstSeenBy(i)' = FirstSeenBy(i)
  <2>1. CommitsOf(i) \in SUBSET Nat /\ CommitsOf(i) # {}
    BY <1>1, <1>2
  <2>2. Min(CommitsOf(i)) \in CommitsOf(i) /\ \A y \in CommitsOf(i) : Min(CommitsOf(i)) <= y
    BY <2>1, MinFacts
  <2>3. CommitsOf(i)' \in SUBSET Nat /\ Min(CommitsOf(i)) \in CommitsOf(i)'
    BY <1>1, <2>2 DEF n
  <2>4. \A y \in CommitsOf(i)' : Min(CommitsOf(i)) <= y
    BY <1>1, <2>2 DEF n
  <2>5. Min(CommitsOf(i)') = Min(CommitsOf(i))
    BY <2>3, <2>4, MinIs
  <2> QED BY <1>1, <2>2, <2>5 DEF FirstSeenBy
<1>5. ASSUME NEW i \in DOMAIN tx[r].rows \ DOMAIN devices PROVE FirstSeenBy(i)' = r
  <2>1. CommitsOf(i)' = {n} /\ n \in Nat
    BY <1>1, <1>3 DEF n
  <2>2. Min(CommitsOf(i)') = n
    BY <2>1, MinIs
  <2> QED BY <1>1, <2>2 DEF FirstSeenBy
<1>6. ASSUME NEW i \in DOMAIN tx[r].rows PROVE LastSeenBy(i)' = r
  <2>1. CommitsOf(i)' \in SUBSET Nat /\ n \in CommitsOf(i)' /\ \A y \in CommitsOf(i)' : y <= n
    BY <1>1 DEF n
  <2>2. Max(CommitsOf(i)') = n
    BY <2>1, MaxIs
  <2> QED BY <1>1, <2>2 DEF LastSeenBy
<1>7. ASSUME NEW i \in DOMAIN devices PROVE Max(CommitsOf(i)) \in CommitsOf(i)
  <2>1. CommitsOf(i) \in SUBSET (0..Len(commits)) /\ CommitsOf(i) \in SUBSET Nat
    BY <1>1
  <2>2. IsFiniteSet(CommitsOf(i))
    BY <1>1, <2>1, BoundedFinite
  <2> QED BY <1>2, <2>1, <2>2, MaxFacts
<1>8. ASSUME NEW i \in DOMAIN devices \ DOMAIN tx[r].rows PROVE LastSeenBy(i)' = LastSeenBy(i)
  <2>1. CommitsOf(i)' = CommitsOf(i) /\ Max(CommitsOf(i)) \in DOMAIN commits
    BY <1>1, <1>7
  <2> QED BY <1>1, <2>1 DEF LastSeenBy
<1> QED BY <1>4, <1>5, <1>6, <1>7, <1>8

\* Another scan in progress is not quiet any more.
LEMMA CommitQuiet ==
  ASSUME NEW r, Committing(r)
  PROVE  /\ Quiet(r)' => Quiet(r)
         /\ \A q \in Active \ {r} : Overlapped(r, q) /\ Overlapped(q, r) /\ ~Quiet(q)'
<1>1. overlaps' = overlaps /\ r \in Active
  BY CommittingFacts
<1>2. \A q \in Active \ {r} : Overlapped(q, r) /\ Overlapped(r, q)
  BY <1>1 DEF Committing, Inv, Overlaps
<1>3. r \in Range(commits)' /\ Range(commits) \subseteq Range(commits)'
  <2>1. \A n \in DOMAIN commits : n \in DOMAIN commits' /\ commits'[n] = commits[n]
    BY CommitCommits
  <2>2. Len(commits) + 1 \in DOMAIN commits' /\ commits'[Len(commits) + 1] = r
    BY CommitCommits
  <2> QED BY <2>1, <2>2 DEF Range
<1> QED BY <1>1, <1>2, <1>3 DEF Quiet, Overlapped

LEMMA CommitTables ==
  ASSUME NEW r, Committing(r) PROVE Tables' /\ Locks' /\ Apart' /\ \A q \in Requests : Session(q)'
<1>1. /\ r \in Requests /\ Session(r) /\ Written(r) /\ Loaded(r) /\ tx[r].pc \in Busy /\ tx[r].pc = "mark"
      /\ \A q \in Requests : q # r => tx'[q] = tx[q]
      /\ Whole(tx'[r]) /\ tx'[r].pc = "done" /\ tx'[r].held = {} /\ tx'[r].todo = {} /\ tx'[r].events = {}
      /\ events' = events \cup tx[r].events
      /\ UNCHANGED <<now, nextId, overlaps>>
      /\ \A e \in tx[r].events : e.of = r /\ e.at = tx[r].start
  BY CommittingFacts DEF Scanning
<1>2. Tables /\ Locks /\ Apart /\ \A q \in Requests : Session(q)
  BY DEF Committing, Inventory
<1>3. \A d : DeviceRow(d)' <=> DeviceRow(d)
  BY <1>1 DEF DeviceRow
<1>4. Tables'
  <2>1. DOMAIN devices' \subseteq 1..(nextId' - 1)
    <3>1. ASSUME NEW i \in DOMAIN tx[r].rows PROVE i \in 1..(nextId - 1)
      <4>1. PICK k : Owned(r, k, i)
        BY <1>1, <3>1, RowsFacts
      <4> QED BY <1>1, <1>2, <4>1 DEF Owned, Loaded, Tables
    <3> QED BY <1>1, <1>2, <3>1, CommitRows DEF Tables
  <2>2. ASSUME NEW i \in DOMAIN devices' PROVE DeviceRow(devices'[i])
    <3>1. CASE i \in DOMAIN tx[r].rows
      <4>1. DeviceRow(tx[r].rows[i])
        BY <1>1, <3>1, RowsFacts DEF Ready
      <4> QED BY <3>1, <4>1, CommitRows
    <3>2. CASE i \notin DOMAIN tx[r].rows
      <4>1. i \in DOMAIN devices
        BY <3>2, CommitRows
      <4>2. DeviceRow(devices[i])
        BY <1>2, <4>1 DEF Tables
      <4>3. DeviceRow([devices[i] EXCEPT !.status = "down"])
        BY <4>2 DEF DeviceRow
      <4> QED BY <3>2, <4>1, <4>2, <4>3, CommitRows
    <3> QED BY <3>1, <3>2
  <2>3. \A e \in events' : /\ e.of \in Requests /\ tx'[e.of].pc = "done"
                           /\ e.severity \in Severities /\ e.at \in 1..now
    BY <1>1, <1>2 DEF Tables, Session
  <2>4. commits' \in Seq(Requests) /\ \A n \in DOMAIN commits' : tx'[commits'[n]].pc = "done"
    <3>1. \A n \in DOMAIN commits' : n \in DOMAIN commits \/ n = Len(commits) + 1
      BY CommitCommits
    <3> QED BY <1>1, <1>2, <3>1, CommitCommits DEF Tables
  <2>5. devices' = [i \in DOMAIN devices' |-> devices'[i]]
    BY CommitRows
  <2>6. \A i \in DOMAIN devices' : DeviceRow(devices[i])'
    BY <1>1, <2>2 DEF DeviceRow
  <2> QED BY <1>1, <1>2, <2>1, <2>3, <2>4, <2>5, <2>6 DEF Tables
<1>5. ASSUME NEW q \in Requests PROVE Session(q)'
  <2>1. CASE q = r
    BY <1>1, <2>1 DEF Session, Busy, Ended
  <2>2. CASE q # r
    BY <1>1, <1>2, <2>2 DEF Session, Whole
  <2> QED BY <2>1, <2>2
<1>6. Locks'
  <2>1. \A p, q \in Requests : p # q => tx'[p].held \cap tx'[q].held = {}
    BY <1>1, <1>2 DEF Locks
  <2>2. ASSUME NEW q \in Requests, NEW x \in tx'[q].held, NEW i \in DOMAIN devices', devices'[i].key = x, x \in Macs
        PROVE  FALSE
    <3>1. q # r /\ x \in tx[q].held
      BY <1>1, <2>2
    <3>2. ~Taken(x)
      BY <1>2, <3>1 DEF Locks
    <3>3. i \notin DOMAIN devices
      BY <2>2, <3>2, CommitRows DEF Taken
    <3>4. i \in DOMAIN tx[r].rows /\ devices'[i] = tx[r].rows[i]
      BY <3>3, CommitRows
    <3>5. PICK k : Owned(r, k, i) /\ tx[r].rows[i].key = k
      BY <1>1, <3>4, RowsFacts
    <3>6. x \in tx[r].held
      BY <1>1, <2>2, <3>3, <3>4, <3>5 DEF Owned, Loaded
    <3> QED BY <1>1, <1>2, <3>1, <3>6 DEF Locks
  <2> QED BY <2>1, <2>2 DEF Locks, Taken
<1>7. Apart'
  BY <1>1, <1>2 DEF Apart, Scanning, Busy
<1> QED BY <1>4, <1>5, <1>6, <1>7

LEMMA CommitScanned ==
  ASSUME NEW r, Committing(r) PROVE InProgress'
<1>1. /\ r \in Requests /\ tx[r].pc = "mark" /\ Scanning(r) /\ Written(r) /\ Loaded(r)
      /\ \A q \in Requests : q # r => tx'[q] = tx[q]
      /\ tx'[r].pc = "done" /\ UNCHANGED <<now, nextId, overlaps>>
  BY CommittingFacts
<1>2. SUFFICES ASSUME NEW q \in Requests, Scanning(q)'
               PROVE  Loaded(q)' /\ (tx'[q].pc = "flush" => Matched(q)') /\ (tx'[q].pc = "mark" => Written(q)')
  BY DEF InProgress
<1>3. q # r /\ tx'[q] = tx[q] /\ Scanning(q) /\ q \in Active
  BY <1>1, <1>2 DEF Scanning, Busy, Active
<1>4. Loaded(q) /\ (tx[q].pc = "flush" => Matched(q)) /\ (tx[q].pc = "mark" => Written(q))
  BY <1>3 DEF Committing, Inventory, InProgress
<1>5. /\ DOMAIN devices \subseteq DOMAIN devices'
      /\ \A i \in DOMAIN devices : devices'[i].key = devices[i].key
      /\ \A i \in DOMAIN devices : i \in tx[q].held => devices'[i] = devices[i]
      /\ \A i \in DOMAIN devices' \ DOMAIN devices : i \in DOMAIN tx[r].rows
  BY <1>3, CommitRows
<1>6. Overlapped(r, q) /\ ~Quiet(q)'
  BY <1>3, CommitQuiet
<1>7. Loaded(q)'
  <2>1. \A i \in DOMAIN devices' \ DOMAIN tx[q].loaded : Overlapped(FirstSeenBy(i)', q)
    BY <1>4, <1>5, <1>6, CommitScans DEF Loaded
  <2> QED BY <1>1, <1>3, <1>4, <1>5, <1>6, <2>1 DEF Loaded, Overlapped
<1>8. \A k : Unknown(q, k)' = Unknown(q, k)
  BY <1>3 DEF Unknown
<1>9. tx[q].pc = "flush" => Matched(q)'
  BY <1>3, <1>4, <1>8 DEF Matched
<1>10. ASSUME tx[q].pc = "mark" PROVE Written(q)'
  <2>1. Written(q)
    BY <1>4, <1>10
  <2>2. ASSUME NEW k \in Keys(tx[q].body), NEW i, i = tx[q].rowOf[k], Ready(q, k, i), Owned(q, k, i), Told(q, i)
        PROVE  Ready(q, k, i)' /\ Owned(q, k, i)' /\ Told(q, i)'
    <3>1. i \in DOMAIN tx[q].rows
      BY <2>1, <2>2 DEF Written, Range
    <3>2. i \notin DOMAIN tx[r].rows
      BY <1>1, <1>3, <1>10, <3>1 DEF Committing, Inventory, Apart
    <3>3. (i \in DOMAIN devices' <=> i \in DOMAIN devices) /\ (i \in DOMAIN devices => i \in DOMAIN tx[q].loaded)
      BY <1>5, <2>2, <3>2 DEF Owned
    <3>4. i \in DOMAIN devices => devices'[i] = devices[i]
      BY <1>5, <2>2, <3>3 DEF Owned
    <3>5. DeviceRow(tx[q].rows[i])'
      BY <1>1, <1>3, <2>2 DEF Ready, DeviceRow
    <3>6. Ready(q, k, i)'
      BY <1>3, <1>6, <2>2, <3>3, <3>4, <3>5 DEF Ready
    <3>7. Owned(q, k, i)'
      BY <1>1, <1>3, <1>8, <2>2, <3>3 DEF Owned
    <3>8. Told(q, i)'
      <4>1. i \in DOMAIN tx[q].loaded => i \in DOMAIN devices
        BY <1>4 DEF Loaded
      <4> QED BY <1>3, <2>2, <3>4, <4>1 DEF Told
    <3> QED BY <3>6, <3>7, <3>8
  <2> QED BY <1>3, <2>1, <2>2 DEF Written
<1> QED BY <1>3, <1>7, <1>9, <1>10

\* Two rows of one device, one of them new: no row is both old and of this MAC, and the
\* others were committed by scans that overlapped.
LEMMA CommitOneRow ==
  ASSUME NEW r, Committing(r) PROVE OneRowPerDevice'
<1>1. /\ r \in Requests /\ Written(r) /\ Loaded(r) /\ overlaps' = overlaps
  BY CommittingFacts
<1>2. OneRowPerDevice /\ Locks
  BY DEF Committing, Inventory, History
<1>3. ASSUME NEW i \in DOMAIN devices' \ DOMAIN devices
      PROVE  /\ i \in DOMAIN tx[r].rows /\ FirstSeenBy(i)' = r
             /\ Unknown(r, devices'[i].key)
             /\ \E k \in Keys(tx[r].body) : k \in DOMAIN tx[r].rowOf /\ i = tx[r].rowOf[k] /\ devices'[i].key = k
             /\ \A j \in DOMAIN devices : devices[j].key # devices'[i].key \/ devices'[i].key \notin Macs
  <2>1. i \in DOMAIN tx[r].rows /\ devices'[i] = tx[r].rows[i]
    BY <1>3, CommitRows
  <2>2. PICK k \in Keys(tx[r].body) : k \in DOMAIN tx[r].rowOf /\ tx[r].rowOf[k] = i /\ Owned(r, k, i)
                                     /\ tx[r].rows[i].key = k
    BY <1>1, <2>1, RowsFacts
  <2>3. i \notin DOMAIN tx[r].loaded
    BY <1>1, <1>3 DEF Loaded
  <2>4. Unknown(r, k) /\ (k \in Macs => k \in tx[r].held)
    BY <2>2, <2>3 DEF Owned
  <2>5. \A j \in DOMAIN devices : devices[j].key # k \/ k \notin Macs
    BY <1>1, <1>2, <2>4 DEF Locks, Taken
  <2>6. FirstSeenBy(i)' = r
    BY <1>3, <2>1, CommitScans
  <2> QED BY <2>1, <2>2, <2>4, <2>5, <2>6
<1>4. ASSUME NEW i \in DOMAIN devices' \ DOMAIN devices, NEW j \in DOMAIN devices,
             devices'[i].key = devices'[j].key
      PROVE  devices'[i].key \notin Macs /\ {FirstSeenBy(j)', r} \in overlaps'
  <2>1. devices'[j].key = devices[j].key /\ FirstSeenBy(j)' = FirstSeenBy(j)
    BY CommitRows, CommitScans
  <2>2. j \notin DOMAIN tx[r].loaded
    BY <1>1, <1>3, <1>4, <2>1 DEF Unknown, Loaded
  <2>3. {FirstSeenBy(j), r} \in overlaps
    BY <1>1, <2>2 DEF Loaded, Overlapped
  <2> QED BY <1>1, <1>3, <1>4, <2>1, <2>3
<1>5. ASSUME NEW i \in DOMAIN devices', NEW j \in DOMAIN devices', i # j, devices'[i].key = devices'[j].key
      PROVE  devices'[i].key \notin Macs /\ {FirstSeenBy(i)', FirstSeenBy(j)'} \in overlaps'
  <2>1. CASE i \in DOMAIN devices /\ j \in DOMAIN devices
    <3>1. /\ devices'[i].key = devices[i].key /\ devices'[j].key = devices[j].key
          /\ FirstSeenBy(i)' = FirstSeenBy(i) /\ FirstSeenBy(j)' = FirstSeenBy(j)
      BY <2>1, CommitRows, CommitScans
    <3> QED BY <1>1, <1>2, <1>5, <2>1, <3>1 DEF OneRowPerDevice, Overlapped
  <2>2. CASE i \notin DOMAIN devices /\ j \in DOMAIN devices
    <3>1. FirstSeenBy(i)' = r /\ devices'[i].key \notin Macs /\ {FirstSeenBy(j)', r} \in overlaps'
      BY <1>3, <1>4, <1>5, <2>2
    <3>2. {FirstSeenBy(i)', FirstSeenBy(j)'} = {FirstSeenBy(j)', r}
      BY <3>1
    <3> QED BY <3>1, <3>2
  <2>3. CASE i \in DOMAIN devices /\ j \notin DOMAIN devices
    BY <1>3, <1>4, <1>5, <2>3
  <2>4. CASE i \notin DOMAIN devices /\ j \notin DOMAIN devices
    <3>1. /\ \E k \in Keys(tx[r].body) : i = tx[r].rowOf[k] /\ devices'[i].key = k
          /\ \E k \in Keys(tx[r].body) : j = tx[r].rowOf[k] /\ devices'[j].key = k
      BY <1>3, <1>5, <2>4
    <3> QED BY <1>5, <3>1
  <2> QED BY <2>1, <2>2, <2>3, <2>4
<1> QED BY <1>5 DEF OneRowPerDevice, Overlapped

LEMMA CommitExact ==
  ASSUME NEW r, Committing(r) PROVE QuietScanExact'
<1>1. /\ r \in Requests /\ Written(r) /\ Loaded(r)
      /\ tx'[r].body = tx[r].body /\ tx'[r].rowOf = tx[r].rowOf /\ tx'[r].start = tx[r].start
      /\ Last(commits)' = r
  BY CommittingFacts, CommitCommits
<1>2. ASSUME Quiet(r)'
      PROVE  /\ \A k \in Keys(tx[r].body) : tx[r].rowOf[k] \in DOMAIN devices'
             /\ \A i \in DOMAIN devices' :
                  IF i \in Range(tx[r].rowOf)
                  THEN LET ip == Max(Addresses(tx[r].body, devices'[i].key))
                       IN  /\ devices'[i].status = "up" /\ devices'[i].ip = ip
                           /\ devices'[i].gateway = tx[r].body[ip].gateway /\ devices'[i].seen = tx[r].start
                  ELSE devices'[i].status = "down"
  <2>1. Quiet(r) /\ tx[r].loaded = devices
    BY <1>1, <1>2, CommitQuiet DEF Loaded
  <2>2. ASSUME NEW k \in Keys(tx[r].body) PROVE tx[r].rowOf[k] \in DOMAIN devices'
    BY <1>1, CommitRows DEF Written, Range
  <2>3. ASSUME NEW i \in DOMAIN tx[r].rows
        PROVE  LET ip == Max(Addresses(tx[r].body, devices'[i].key))
               IN  /\ devices'[i].status = "up" /\ devices'[i].ip = ip
                   /\ devices'[i].gateway = tx[r].body[ip].gateway /\ devices'[i].seen = tx[r].start
    <3>1. PICK k : Ready(r, k, i)
      BY <1>1, <2>3, RowsFacts
    <3>2. devices'[i] = tx[r].rows[i]
      BY <2>3, CommitRows
    <3> QED BY <2>1, <3>1, <3>2 DEF Ready
  <2>4. ASSUME NEW i \in DOMAIN devices', i \notin DOMAIN tx[r].rows PROVE devices'[i].status = "down"
    <3>1. i \in DOMAIN devices /\ devices'[i] = IF i \in tx[r].down THEN [devices[i] EXCEPT !.status = "down"] ELSE devices[i]
      BY <2>4, CommitRows
    <3>2. i \notin tx[r].down => devices[i].status = "down"
      BY <1>1, <2>1, <2>4, <3>1 DEF Written
    <3>3. DeviceRow(devices[i])
      BY <3>1 DEF Committing, Inventory, Tables
    <3> QED BY <3>1, <3>2, <3>3 DEF DeviceRow
  <2> QED BY <1>1, <2>2, <2>3, <2>4 DEF Written
<1> QED BY <1>1, <1>2 DEF QuietScanExact

\* The commits that saw interfaces of a known row, unless this one does.
LEMMA CommitIfs ==
  ASSUME NEW r, Committing(r), NEW i \in DOMAIN devices,
         i \in DOMAIN tx[r].rows => WithIfs(tx[r].body, devices[i].key) = {}
  PROVE  /\ IfsCommitsOf(i)' = IfsCommitsOf(i)
         /\ IfsCommitsOf(i) # {} =>
              tx'[commits'[Max(IfsCommitsOf(i))]] = tx[commits[Max(IfsCommitsOf(i))]]
<1>1. /\ devices'[i].key = devices[i].key /\ tx'[r].body = tx[r].body
      /\ DOMAIN tx[r].rows = Range(tx[r].rowOf)
      /\ Written(r)
  BY CommittingFacts, CommitRows DEF Written
<1>2. /\ Len(commits) \in Nat /\ DOMAIN commits = 1..Len(commits)
      /\ commits'[Len(commits) + 1] = r
      /\ \A n \in DOMAIN commits : commits'[n] = commits[n] /\ tx'[commits[n]] = tx[commits[n]]
      /\ CommitsOf(i) \in SUBSET (1..Len(commits))
      /\ CommitsOf(i)' = CommitsOf(i) \cup (IF i \in Range(tx[r].rowOf) THEN {Len(commits) + 1} ELSE {})
  <2>1. commits \in Seq(Requests)
    BY CommitCommits
  <2> QED BY <2>1, CommitCommits
<1>3. ASSUME NEW n PROVE n \in IfsCommitsOf(i)' <=> n \in IfsCommitsOf(i)
  <2>1. n \in IfsCommitsOf(i)' <=>
          n \in CommitsOf(i)' /\ WithIfs(tx'[commits'[n]].body, devices[i].key) # {}
    BY <1>1 DEF IfsCommitsOf
  <2>2. n \in IfsCommitsOf(i) <=>
          n \in CommitsOf(i) /\ WithIfs(tx[commits[n]].body, devices[i].key) # {}
    BY DEF IfsCommitsOf
  <2>3. n \in CommitsOf(i) => tx'[commits'[n]] = tx[commits[n]]
    BY <1>2
  <2>4. n \in CommitsOf(i)' /\ n \notin CommitsOf(i) =>
          WithIfs(tx'[commits'[n]].body, devices[i].key) = {}
    BY <1>1, <1>2
  <2>5. n \in CommitsOf(i) => n \in CommitsOf(i)'
    BY <1>2
  <2> QED BY <2>1, <2>2, <2>3, <2>4, <2>5
<1>4. IfsCommitsOf(i)' = IfsCommitsOf(i)
  BY <1>3
<1>5. ASSUME IfsCommitsOf(i) # {} PROVE Max(IfsCommitsOf(i)) \in DOMAIN commits
  <2>1. IfsCommitsOf(i) \in SUBSET (0..Len(commits)) /\ IfsCommitsOf(i) \in SUBSET Nat
    BY <1>2 DEF IfsCommitsOf
  <2>2. Max(IfsCommitsOf(i)) \in IfsCommitsOf(i)
    BY <1>2, <1>5, <2>1, BoundedFinite, MaxFacts
  <2> QED BY <1>2, <2>2 DEF IfsCommitsOf
<1> QED BY <1>2, <1>4, <1>5

LEMMA CommitDetails ==
  ASSUME NEW r, Committing(r) PROVE DetailsOfLastScan'
<1>1. /\ r \in Requests /\ Written(r) /\ Loaded(r) /\ tx'[r].body = tx[r].body
      /\ DOMAIN tx[r].rows = Range(tx[r].rowOf)
  BY CommittingFacts DEF Written
<1>2. DetailsOfLastScan
  BY DEF Committing, Inventory, History
<1> DEFINE Good(i) ==
      LET k == devices'[i].key
          last == tx'[LastSeenBy(i)'].body
          ports == last[Max(Addresses(last, k))].ports
          scan == tx'[commits'[Max(IfsCommitsOf(i)')]].body
      IN  /\ devices'[i].ports = ports
          /\ devices'[i].vulns = Evaluate(ports)
          /\ devices'[i].ifs = IF IfsCommitsOf(i)' = {} THEN {} ELSE scan[Max(WithIfs(scan, k))].ifs
<1>3. ASSUME NEW i \in DOMAIN devices,
             i \in DOMAIN tx[r].rows => WithIfs(tx[r].body, devices[i].key) = {}
      PROVE  devices[i].ifs =
               IF IfsCommitsOf(i)' = {} THEN {}
               ELSE tx'[commits'[Max(IfsCommitsOf(i)')]].body[
                      Max(WithIfs(tx'[commits'[Max(IfsCommitsOf(i)')]].body, devices[i].key))].ifs
  <2>1. /\ IfsCommitsOf(i)' = IfsCommitsOf(i)
        /\ IfsCommitsOf(i) # {} =>
              tx'[commits'[Max(IfsCommitsOf(i))]] = tx[commits[Max(IfsCommitsOf(i))]]
    BY <1>3, CommitIfs
  <2> QED BY <1>2, <2>1 DEF DetailsOfLastScan
<1>4. ASSUME NEW i \in DOMAIN tx[r].rows PROVE Good(i)
  <2>1. PICK k \in Keys(tx[r].body) : Ready(r, k, i) /\ Owned(r, k, i) /\ tx[r].rows[i].key = k
    BY <1>1, <1>4, RowsFacts
  <2>2. devices'[i] = tx[r].rows[i] /\ devices'[i].key = k /\ LastSeenBy(i)' = r
    BY <2>1, CommitRows, CommitScans
  <2>3. /\ devices'[i].ports = tx[r].body[Max(Addresses(tx[r].body, k))].ports
        /\ devices'[i].vulns = Evaluate(devices'[i].ports)
    BY <2>1, <2>2 DEF Ready
  <2>4. devices'[i].ifs =
          IF IfsCommitsOf(i)' = {} THEN {}
          ELSE tx'[commits'[Max(IfsCommitsOf(i)')]].body[
                 Max(WithIfs(tx'[commits'[Max(IfsCommitsOf(i)')]].body, k))].ifs
    <3>1. CASE WithIfs(tx[r].body, k) # {}
      <4> DEFINE n == Len(commits) + 1
      <4>1. /\ commits'[n] = r /\ Len(commits) \in Nat
            /\ CommitsOf(i) \in SUBSET (1..Len(commits)) /\ CommitsOf(i)' = CommitsOf(i) \cup {n}
        <5>1. commits \in Seq(Requests)
          BY CommitCommits
        <5> QED BY <1>1, <1>4, <5>1, CommitCommits
      <4>2. n \in IfsCommitsOf(i)'
        BY <1>1, <2>2, <3>1, <4>1 DEF IfsCommitsOf
      <4>3. IfsCommitsOf(i)' \in SUBSET Nat /\ \A y \in IfsCommitsOf(i)' : y <= n
        <5>1. IfsCommitsOf(i)' \subseteq CommitsOf(i)'
          BY DEF IfsCommitsOf
        <5>2. \A y \in CommitsOf(i)' : y \in Nat /\ y <= n
          BY <4>1
        <5> QED BY <5>1, <5>2
      <4>4. Max(IfsCommitsOf(i)') = n
        BY <4>2, <4>3, MaxIs
      <4>5. devices'[i].ifs = tx[r].body[Max(WithIfs(tx[r].body, k))].ifs
        BY <2>1, <2>2, <3>1 DEF Ready
      <4> QED BY <1>1, <4>1, <4>2, <4>4, <4>5
    <3>2. CASE WithIfs(tx[r].body, k) = {} /\ i \in DOMAIN devices
      <4>1. devices[i].key = k /\ devices'[i].ifs = devices[i].ifs
        BY <2>1, <2>2, <3>2, CommitRows DEF Ready
      <4> QED BY <1>3, <3>2, <4>1
    <3>3. CASE WithIfs(tx[r].body, k) = {} /\ i \notin DOMAIN devices
      <4>1. CommitsOf(i) = {}
        BY <3>3 DEF Committing, Inventory, History, CommitsOf
      <4>2. CommitsOf(i)' = {Len(commits) + 1} /\ commits'[Len(commits) + 1] = r
        BY <1>1, <1>4, <4>1, CommitCommits
      <4>3. IfsCommitsOf(i)' = {}
        BY <1>1, <2>2, <3>3, <4>2 DEF IfsCommitsOf
      <4>4. devices'[i].ifs = {}
        BY <2>1, <2>2, <3>3 DEF Ready
      <4> QED BY <4>3, <4>4
    <3> QED BY <3>1, <3>2, <3>3
  <2> QED BY <1>1, <2>2, <2>3, <2>4
<1>5. ASSUME NEW i \in DOMAIN devices', i \notin DOMAIN tx[r].rows PROVE Good(i)
  <2>1. /\ i \in DOMAIN devices /\ LastSeenBy(i)' = LastSeenBy(i) /\ devices'[i].key = devices[i].key
        /\ devices'[i] = IF i \in tx[r].down THEN [devices[i] EXCEPT !.status = "down"] ELSE devices[i]
    BY <1>5, CommitRows, CommitScans
  <2>2. DeviceRow(devices[i])
    BY <2>1 DEF Committing, Inventory, Tables
  <2>3. devices'[i].ports = devices[i].ports /\ devices'[i].vulns = devices[i].vulns /\ devices'[i].ifs = devices[i].ifs
    BY <2>1, <2>2 DEF DeviceRow
  <2>4. tx'[LastSeenBy(i)] = tx[LastSeenBy(i)]
    <3>1. Max(CommitsOf(i)) \in DOMAIN commits
      BY <2>1, CommitScans DEF CommitsOf
    <3> QED BY <3>1, CommitCommits DEF LastSeenBy
  <2>5. /\ devices[i].ports = tx[LastSeenBy(i)].body[Max(Addresses(tx[LastSeenBy(i)].body, devices[i].key))].ports
        /\ devices[i].vulns = Evaluate(devices[i].ports)
    BY <1>2, <2>1 DEF DetailsOfLastScan
  <2> QED BY <1>3, <1>5, <2>1, <2>3, <2>4, <2>5
<1>6. \A i \in DOMAIN devices' : Good(i)
  BY <1>4, <1>5
<1> QED BY <1>6 DEF DetailsOfLastScan

LEMMA CommitInventory ==
  ASSUME Inv, Inventory, NEW r \in Requests, Commit(r) PROVE Inventory'
<1>1. CASE tx[r].kind # "scan"
  BY <1>1, CommitEventsInventory
<1>2. CASE tx[r].kind = "scan"
  <2>1. Committing(r)
    BY <1>2 DEF Committing
  <2>2. Written(r) /\ tx'[r].rowOf = tx[r].rowOf
    BY <2>1, CommittingFacts
  <2>3. \A i \in DOMAIN devices' : CommitsOf(i)' # {}
    <3>1. ASSUME NEW i \in DOMAIN devices' PROVE CommitsOf(i)' # {}
      <4>1. CASE i \in DOMAIN devices
        BY <2>1, <4>1, CommitCommits DEF Inventory, History
      <4>2. CASE i \notin DOMAIN devices
        <5>1. i \in Range(tx[r].rowOf)
          BY <2>1, <2>2, <4>2, CommitRows DEF Written
        <5>2. CommitsOf(i)' = CommitsOf(i) \cup {Len(commits) + 1}
          BY <2>1, <5>1, CommitCommits
        <5> QED BY <5>2
      <4> QED BY <4>1, <4>2
    <3> QED BY <3>1
  <2>4. \A n \in DOMAIN commits' : Range(tx'[commits'[n]].rowOf) \subseteq DOMAIN devices'
    <3>1. \A n \in DOMAIN commits' : n \in DOMAIN commits \/ n = Len(commits) + 1
      BY <2>1, CommitCommits
    <3>2. DOMAIN devices \subseteq DOMAIN devices' /\ Range(tx[r].rowOf) \subseteq DOMAIN devices'
      BY <2>1, <2>2, CommitRows DEF Written
    <3> QED BY <2>1, <2>2, <3>1, <3>2, CommitCommits DEF Inventory, History
  <2>5. History'
    BY <2>1, <2>3, <2>4, CommitOneRow, CommitDetails, CommitExact DEF History
  <2> QED BY <2>1, <2>5, CommitTables, CommitScanned DEF Inventory
<1> QED BY <1>1, <1>2

LEMMA InventoryStep == Inv /\ Inventory /\ [Next]_vars => Inventory'
<1> SUFFICES ASSUME Inv, Inventory, [Next]_vars PROVE Inventory'
  OBVIOUS
<1>1. ASSUME NEW r \in Requests, Step(r) PROVE Inventory'
  <2>1. CASE Acquire(r)
    BY <2>1, AcquireInventory
  <2>2. CASE IntegrityError(r)
    <3>1. tx[r].pc \in Busy
      BY <2>2 DEF IntegrityError, Inventory, Session
    <3> QED BY <2>2, <3>1, RollBackInventory DEF IntegrityError
  <2>3. CASE DeadlockVictim(r)
    <3>1. tx[r].pc \in Busy
      BY <2>3 DEF DeadlockVictim, Active
    <3> QED BY <2>3, <3>1, RollBackInventory DEF DeadlockVictim
  <2>4. CASE Sync(r)
    BY <2>4, SyncInventory
  <2>5. CASE Commit(r)
    BY <2>5, CommitInventory
  <2> QED BY <1>1, <2>1, <2>2, <2>3, <2>4, <2>5 DEF Step
<1>2. ASSUME NEW r \in Requests, Crash(r) PROVE Inventory'
  <2>1. tx[r].pc \in Busy
    BY <1>2 DEF Crash, Active
  <2> QED BY <1>2, <2>1, RollBackInventory DEF Crash
<1>3. CASE UNCHANGED vars
  <2>1. Calm({})
    BY <1>3 DEF Calm, vars, eventVars, Inventory, Tables
  <2> QED BY <2>1, CalmKeeps
<1> QED
  BY <1>1, <1>2, <1>3, StartScanInventory, StartFlowsInventory, StartIdsInventory, TickInventory
  DEF Next, Serve

\* The invariant of the flow events and that of the inventory, together.
THEOREM InventoryKept == Spec => [](Inv /\ Inventory)
<1>1. Init => Inv /\ Inventory
  BY InvStart, InventoryStart
<1>2. Inv /\ Inventory /\ [Next]_vars => (Inv /\ Inventory)'
  BY InvStep, InventoryStep
<1> QED BY <1>1, <1>2, PTL DEF Spec

\* The rows and the events hold what their columns admit, and every id comes from the
\* sequence: for any scans, any number of requests at once and whatever is rolled back
\* (ingest_scan, the models Device and NetworkEvent).
THEOREM TypesOfTheTables == Spec => []TypeOK
<1>1. Inv /\ Inventory => TypeOK
  BY DEF Inventory, Tables, Session, DeviceRow, TypeOK, Range
<1> QED BY <1>1, InventoryKept, PTL

\* A MAC has one row, and two rows for one address without a MAC were inserted by two
\* scans that overlapped (the match in memory of ingest_scan, the unique constraint).
THEOREM RowsUnique == Spec => []OneRowPerDevice
<1>1. Inv /\ Inventory => OneRowPerDevice
  BY DEF Inventory, History
<1> QED BY <1>1, InventoryKept, PTL

\* The ports, findings and interfaces of a row are those of the last committed scan that
\* saw them, never a mixture of two (_sync_ports_and_vulns, _sync_interfaces).
THEOREM DetailsNotMixed == Spec => []DetailsOfLastScan
<1>1. Inv /\ Inventory => DetailsOfLastScan
  BY DEF Inventory, History
<1> QED BY <1>1, InventoryKept, PTL

\* A scan that no committed scan overlapped leaves the inventory as it saw the network
\* (the upsert and the mark-down of ingest_scan).
THEOREM QuietScanRepairs == Spec => []QuietScanExact
<1>1. Inv /\ Inventory => QuietScanExact
  BY DEF Inventory, History
<1> QED BY <1>1, InventoryKept, PTL

\* What the commit of a scan adds.
LEMMA CommitTells ==
  ASSUME NEW r, Committing(r), NEW i \in DOMAIN devices'
  PROVE  IF i \in DOMAIN devices
         THEN \A p \in devices'[i].ports :
                (\A q \in devices[i].ports : q.port # p.port) =>
                  \E e \in events' \ events : e.kind = "new_open_port" /\ e.about = i /\ e.port = p.port
         ELSE \/ devices = <<>> \/ ~Quiet(Last(commits))'
              \/ \E e \in events' \ events : e.kind = "new_device" /\ e.about = i
<1>1. /\ r \in Requests /\ Written(r) /\ Loaded(r) /\ tx[r].pc = "mark" /\ Last(commits)' = r
      /\ events' = events \cup tx[r].events
      /\ \A e \in tx[r].events : e.of = r
  BY CommittingFacts, CommitCommits
<1>2. \A e \in tx[r].events : e \in events' \ events
  BY <1>1 DEF Committing, Inventory, Tables
<1>3. CASE i \in DOMAIN tx[r].rows
  <2>1. Told(r, i) /\ devices'[i] = tx[r].rows[i] /\ \E k : Owned(r, k, i)
    BY <1>1, <1>3, RowsFacts, CommitRows
  <2>2. CASE i \in DOMAIN devices
    <3>1. i \in DOMAIN tx[r].loaded
      BY <2>1, <2>2 DEF Owned
    <3> QED BY <1>2, <2>1, <2>2, <3>1 DEF Told
  <2>3. CASE i \notin DOMAIN devices
    <3>1. i \notin DOMAIN tx[r].loaded
      BY <1>1, <2>3 DEF Loaded
    <3>2. CASE DOMAIN tx[r].loaded = {}
      <4>1. Quiet(r)' => DOMAIN devices = {}
        BY <1>1, <3>2, CommitQuiet DEF Loaded
      <4>2. devices = [j \in DOMAIN devices |-> devices[j]]
        BY DEF Committing, Inventory, Tables
      <4>3. DOMAIN devices = {} => devices = <<>>
        BY <4>2
      <4> QED BY <1>1, <2>3, <4>1, <4>3 DEF Quiet, Overlapped
    <3> QED BY <1>2, <2>1, <2>3, <3>1, <3>2 DEF Told
  <2> QED BY <2>2, <2>3
<1>4. CASE i \notin DOMAIN tx[r].rows
  <2>1. /\ i \in DOMAIN devices
        /\ devices'[i] = IF i \in tx[r].down THEN [devices[i] EXCEPT !.status = "down"] ELSE devices[i]
    BY <1>4, CommitRows
  <2>2. DeviceRow(devices[i])
    BY <2>1 DEF Committing, Inventory, Tables
  <2>3. devices'[i].ports = devices[i].ports
    BY <2>1, <2>2 DEF DeviceRow
  <2> QED BY <2>1, <2>3
<1> QED BY <1>3, <1>4

\* No commit adds a port to a known device without a new_open_port event, nor, unless
\* scans overlapped, a device to a known network without a new_device event (ingest_scan).
THEOREM ChangesAnnounced == Spec => NothingAppearsSilently
<1> DEFINE A == \A i \in DOMAIN devices' :
       LET fresh == events' \ events
       IN  IF i \in DOMAIN devices
           THEN \A p \in devices'[i].ports :
                  (\A q \in devices[i].ports : q.port # p.port) =>
                    \E e \in fresh : e.kind = "new_open_port" /\ e.about = i /\ e.port = p.port
           ELSE \/ devices = <<>> \/ ~Quiet(Last(commits))'
                \/ \E e \in fresh : e.kind = "new_device" /\ e.about = i
<1>1. ASSUME Inv, Inventory, Next PROVE A
  <2>1. devices' = devices => A
    OBVIOUS
  <2>2. ASSUME NEW r \in Requests, Commit(r) PROVE A
    <3>1. CASE tx[r].kind = "scan"
      <4>1. Committing(r)
        BY <1>1, <2>2, <3>1 DEF Committing
      <4> QED BY <4>1, CommitTells
    <3>2. CASE tx[r].kind # "scan"
      BY <1>1, <2>1, <2>2, <3>2, CommitEventsDevices
    <3> QED BY <3>1, <3>2
  <2>3. ASSUME NEW r \in Requests, Step(r), ~Commit(r) PROVE devices' = devices
    BY <2>3 DEF Step, Acquire, IntegrityError, DeadlockVictim, Sync, RollBack
  <2>4. ASSUME NEW r \in Requests, StartScan(r) \/ StartFlows(r) \/ StartIds(r) \/ Crash(r)
        PROVE  devices' = devices
    BY <2>4 DEF StartScan, StartFlows, StartIds, Start, Crash, RollBack
  <2>5. Tick /\ Others => devices' = devices
    BY DEF Others
  <2> HIDE DEF A
  <2> QED BY <1>1, <2>1, <2>2, <2>3, <2>4, <2>5 DEF Next, Serve
<1>2. Inv /\ Inventory /\ [Next]_vars => [A]_vars
  BY <1>1
<1>3. NothingAppearsSilently <=> [][A]_vars
  BY DEF NothingAppearsSilently
<1> HIDE DEF A
<1> QED BY <1>2, <1>3, InventoryKept, PTL DEF Spec
=============================================================================
