------------------------- MODULE NetworkState_proofs -------------------------
(***************************************************************************)
(* What a summary shows of the network, whatever requests commit between   *)
(* its queries.                                                            *)
(***************************************************************************)
EXTENDS NetworkState, NetworkIngest_proofs

(***************************************************************************)
(* The tables are finite, so that a count is positive exactly when there   *)
(* is something to count.                                                  *)
(***************************************************************************)
Finite ==
  /\ IsFiniteSet(events)
  /\ \A r \in Requests : IsFiniteSet(tx[r].events)

\* The image of a finite set.
LEMMA ImageFinite ==
  ASSUME NEW S, IsFiniteSet(S), NEW f, f = [x \in S |-> f[x]]
  PROVE  IsFiniteSet({f[x] : x \in S})
<1> DEFINE T == {f[x] : x \in S}
<1>1. f \in Surjection(S, T)
  BY DEF Surjection
<1> QED BY <1>1, FS_Surjection

LEMMA FlowEventsFinite ==
  ASSUME NEW r, NEW flows \in FlowSets, NEW list
  PROVE  IsFiniteSet(FlowEvents(r, flows, list))
<1>0. IsFiniteSet(flows)
  BY BatchAssumption
<1> DEFINE Found(s) == {Event(r, "outbound_suspicious", s, None, f.ip, f.port, now) : f \in flows}
           Wide == {Event(r, "port_scan", "high", None, None, p, now) : p \in {f.port : f \in flows}}
<1>1. ASSUME NEW s PROVE IsFiniteSet(Found(s))
  <2> DEFINE g == [f \in flows |-> Event(r, "outbound_suspicious", s, None, f.ip, f.port, now)]
  <2>1. IsFiniteSet({g[f] : f \in flows})
    BY <1>0, ImageFinite
  <2>2. Found(s) = {g[f] : f \in flows}
    OBVIOUS
  <2> QED BY <2>1, <2>2
<1>2. IsFiniteSet(Wide)
  <2> DEFINE g == [f \in flows |-> Event(r, "port_scan", "high", None, None, f.port, now)]
  <2>1. IsFiniteSet({g[f] : f \in flows})
    BY <1>0, ImageFinite
  <2>2. Wide = {g[f] : f \in flows}
    OBVIOUS
  <2> QED BY <2>1, <2>2
<1>3. IsFiniteSet(Found("critical") \cup Found("high") \cup Wide)
  <2> HIDE DEF Found, Wide
  <2> QED BY <1>1, <1>2, FS_Union
<1>4. Suspicious(r, flows, list) \subseteq Found("critical") \cup Found("high")
  BY DEF Suspicious, FlowSeverity
<1>5. FanOuts(r, flows) \subseteq Wide
  BY DEF FanOuts
<1>6. FlowEvents(r, flows, list) \subseteq Found("critical") \cup Found("high") \cup Wide
  BY <1>4, <1>5 DEF FlowEvents
<1> HIDE DEF Found, Wide
<1> QED BY <1>3, <1>6, FS_Subset

LEMMA IdsEventsFinite ==
  ASSUME NEW r, NEW batch \in IdsBatches
  PROVE  IsFiniteSet(IdsEvents(r, batch))
<1> DEFINE g == [l \in DOMAIN batch |->
                   Event(r, "ids_alert", IdsSeverity(batch[l]), l, None, None, now)]
<1>1. IsFiniteSet({g[l] : l \in DOMAIN batch})
  BY BatchAssumption, ImageFinite
<1>2. IdsEvents(r, batch) = {g[l] : l \in DOMAIN batch}
  BY DEF IdsEvents
<1> QED BY <1>1, <1>2

LEMMA KeysFinite ==
  ASSUME NEW scan \in Scans
  PROVE  IsFiniteSet(DOMAIN scan) /\ IsFiniteSet(Keys(scan))
<1>1. IsFiniteSet(DOMAIN scan)
  BY ScanAssumption
<1> DEFINE g == [ip \in DOMAIN scan |-> Key(scan, ip)]
<1>2. IsFiniteSet({g[ip] : ip \in DOMAIN scan})
  BY <1>1, ImageFinite
<1>3. Keys(scan) = {g[ip] : ip \in DOMAIN scan}
  BY DEF Keys
<1> QED BY <1>1, <1>2, <1>3

LEMMA AnnouncedFinite ==
  ASSUME NEW r, tx[r].body \in Scans, NEW rowOf
  PROVE  IsFiniteSet(Announced(r, rowOf))
<1> DEFINE scan == tx[r].body
           New(k) == Event(r, "new_device", "low", rowOf[k], None, None, tx[r].start)
           Opened(ip, p) ==
             LET k == Key(scan, ip)
             IN  Event(r, "new_open_port", IF p \in SensitivePorts THEN "medium" ELSE "low",
                       rowOf[k], Max(Addresses(scan, k)), p, tx[r].start)
           Ports(ip) == {Opened(ip, p.port) : p \in scan[ip].ports}
<1>1. IsFiniteSet({New(k) : k \in Keys(scan)})
  <2> DEFINE g == [k \in Keys(scan) |-> New(k)]
  <2>1. IsFiniteSet({g[k] : k \in Keys(scan)})
    BY KeysFinite, ImageFinite
  <2>2. {New(k) : k \in Keys(scan)} = {g[k] : k \in Keys(scan)}
    OBVIOUS
  <2> QED BY <2>1, <2>2
<1>2. ASSUME NEW ip \in DOMAIN scan PROVE IsFiniteSet(Ports(ip))
  <2> DEFINE g == [p \in scan[ip].ports |-> Opened(ip, p.port)]
  <2>0. IsFiniteSet(scan[ip].ports)
    BY ScanAssumption
  <2>1. IsFiniteSet({g[p] : p \in scan[ip].ports})
    BY <2>0, ImageFinite
  <2>2. Ports(ip) = {g[p] : p \in scan[ip].ports}
    OBVIOUS
  <2> QED BY <2>1, <2>2
<1>3. IsFiniteSet({Ports(ip) : ip \in DOMAIN scan})
  <2> DEFINE g == [ip \in DOMAIN scan |-> Ports(ip)]
  <2>1. IsFiniteSet({g[ip] : ip \in DOMAIN scan})
    BY KeysFinite, ImageFinite
  <2>2. {Ports(ip) : ip \in DOMAIN scan} = {g[ip] : ip \in DOMAIN scan}
    OBVIOUS
  <2> QED BY <2>1, <2>2
<1>4. IsFiniteSet(UNION {Ports(ip) : ip \in DOMAIN scan})
  <2> HIDE DEF Ports
  <2>1. \A S \in {Ports(ip) : ip \in DOMAIN scan} : IsFiniteSet(S)
    BY <1>2
  <2> QED BY <1>3, <2>1, FS_UNION
<1>5. IsFiniteSet({New(k) : k \in Keys(scan)} \cup UNION {Ports(ip) : ip \in DOMAIN scan})
  BY <1>1, <1>4, FS_Union
<1>6. Announced(r, rowOf) \subseteq {New(k) : k \in Keys(scan)} \cup UNION {Ports(ip) : ip \in DOMAIN scan}
  <2> SUFFICES ASSUME NEW e \in Announced(r, rowOf)
               PROVE  e \in {New(k) : k \in Keys(scan)} \cup UNION {Ports(ip) : ip \in DOMAIN scan}
    OBVIOUS
  <2>1. \/ \E k \in Keys(scan) : e = New(k)
        \/ \E ip \in DOMAIN scan : \E p \in {q.port : q \in scan[ip].ports} : e = Opened(ip, p)
    BY DEF Announced
  <2> HIDE DEF New, Opened, scan
  <2> QED BY <2>1
<1> QED BY <1>5, <1>6, FS_Subset

LEMMA ArpEventsFinite ==
  ASSUME NEW r, tx[r].body \in Scans
  PROVE  IsFiniteSet(ArpEvents(r))
<1> DEFINE scan == tx[r].body
           g == [m \in Keys(scan) |-> Event(r, "arp_spoof", "high", m, None, None, tx[r].start)]
<1>1. IsFiniteSet({g[m] : m \in Keys(scan)})
  BY KeysFinite, ImageFinite
<1>2. ASSUME NEW m, Cardinality(Addresses(scan, m)) > 1 PROVE m \in Keys(scan)
  <2>1. Addresses(scan, m) # {}
    BY <1>2, FS_EmptySet
  <2> QED BY <2>1 DEF Addresses, Keys
<1>3. \A e \in ArpEvents(r) : \E m \in Keys(scan) : e = g[m]
  BY <1>2 DEF ArpEvents
<1>4. ArpEvents(r) \subseteq {g[m] : m \in Keys(scan)}
  <2> HIDE DEF g, scan
  <2> QED BY <1>3
<1> QED BY <1>1, <1>4, FS_Subset

LEMMA FiniteStart == Init => Finite
<1> SUFFICES ASSUME Init PROVE Finite
  OBVIOUS
<1>1. events = {} /\ \A r \in Requests : tx[r].events = {}
  BY DEF Init, EventInit, Idle
<1> QED BY <1>1, FS_EmptySet DEF Finite

\* One request changes, and only its own events are inserted.
LEMMA FiniteKeeps ==
  ASSUME Inv, Finite, NEW r \in Requests, NEW t, tx' = [tx EXCEPT ![r] = t],
         IsFiniteSet(t.events), events' \in {events, events \cup tx[r].events}
  PROVE  Finite'
<1>1. \A q \in Requests : tx'[q] = IF q = r THEN t ELSE tx[q]
  BY DEF Inv, Basic
<1>2. IsFiniteSet(events')
  BY FS_Union DEF Finite
<1> QED BY <1>1, <1>2 DEF Finite

LEMMA FiniteStep == Inv /\ Inventory /\ Finite /\ [Next]_vars => Finite'
<1> SUFFICES ASSUME Inv, Inventory, Finite, [Next]_vars PROVE Finite'
  OBVIOUS
<1>0. tx = [q \in Requests |-> tx[q]] /\ \A r \in Requests : Whole(tx[r])
  BY DEF Inv, Basic, Inventory, Session
<1>1. ASSUME NEW r \in Requests, StartScan(r) PROVE Finite'
  <2>1. PICK scan, rowOf, todo :
          Start(r, [Idle EXCEPT !.pc = "flush", !.kind = "scan", !.body = scan, !.start = now,
                                !.loaded = devices, !.rowOf = rowOf, !.todo = todo])
    BY <1>1 DEF StartScan
  <2> DEFINE t == [Idle EXCEPT !.pc = "flush", !.kind = "scan", !.body = scan, !.start = now,
                               !.loaded = devices, !.rowOf = rowOf, !.todo = todo]
  <2>2. IsFiniteSet(t.events)
    BY FS_EmptySet DEF Idle
  <2>3. tx' = [tx EXCEPT ![r] = t] /\ events' = events
    BY <2>1 DEF Start, eventVars
  <2> HIDE DEF t
  <2> QED BY <2>2, <2>3, FiniteKeeps
<1>2. ASSUME NEW r \in Requests, StartFlows(r) PROVE Finite'
  <2>1. PICK flows \in FlowSets, redisUp \in BOOLEAN :
          Start(r, [Idle EXCEPT !.pc = "mark", !.kind = "flows", !.body = flows, !.start = now,
                                !.events = FlowEvents(r, flows, LoadBlocklist(redisUp))])
    BY <1>2 DEF StartFlows
  <2> DEFINE t == [Idle EXCEPT !.pc = "mark", !.kind = "flows", !.body = flows, !.start = now,
                               !.events = FlowEvents(r, flows, LoadBlocklist(redisUp))]
  <2>2. IsFiniteSet(t.events)
    BY FlowEventsFinite DEF Idle
  <2>3. tx' = [tx EXCEPT ![r] = t] /\ events' = events
    BY <2>1 DEF Start, eventVars
  <2> HIDE DEF t
  <2> QED BY <2>2, <2>3, FiniteKeeps
<1>3. ASSUME NEW r \in Requests, StartIds(r) PROVE Finite'
  <2>1. PICK batch \in IdsBatches :
          Start(r, [Idle EXCEPT !.pc = "mark", !.kind = "ids", !.body = batch, !.start = now,
                                !.events = IdsEvents(r, batch)])
    BY <1>3 DEF StartIds
  <2> DEFINE t == [Idle EXCEPT !.pc = "mark", !.kind = "ids", !.body = batch, !.start = now,
                               !.events = IdsEvents(r, batch)]
  <2>2. IsFiniteSet(t.events)
    BY IdsEventsFinite DEF Idle
  <2>3. tx' = [tx EXCEPT ![r] = t] /\ events' = events
    BY <2>1 DEF Start, eventVars
  <2> HIDE DEF t
  <2> QED BY <2>2, <2>3, FiniteKeeps
<1>4. ASSUME NEW r \in Requests, Acquire(r) PROVE Finite'
  <2> DEFINE x == NextLock(r)
             t == [tx[r] EXCEPT !.held = @ \cup {x}, !.todo = @ \ {x}]
  <2>1. tx' = [tx EXCEPT ![r] = t] /\ events' = events
    BY <1>0, <1>4 DEF Acquire, eventVars
  <2>2. t.events = tx[r].events
    BY <1>0 DEF Whole
  <2> HIDE DEF t
  <2> QED BY <2>1, <2>2, FiniteKeeps DEF Finite
<1>5. ASSUME NEW r \in Requests, NEW how, RollBack(r, how) PROVE Finite'
  <2> DEFINE t == [Idle EXCEPT !.pc = how]
  <2>1. tx' = [tx EXCEPT ![r] = t] /\ events' = events
    BY <1>5 DEF RollBack, eventVars
  <2>2. IsFiniteSet(t.events)
    BY FS_EmptySet DEF Idle
  <2> HIDE DEF t
  <2> QED BY <2>1, <2>2, FiniteKeeps
<1>6. ASSUME NEW r \in Requests, Sync(r) PROVE Finite'
  <2>1. PICK rowOf :
          tx' = [tx EXCEPT ![r].pc = "mark", ![r].rowOf = rowOf, ![r].rows = Synced(r, rowOf),
                           ![r].events = Announced(r, rowOf) \cup ArpEvents(r),
                           ![r].down = Absent(r, Range(rowOf)), ![r].todo = Absent(r, Range(rowOf))]
    BY <1>6 DEF Sync
  <2> DEFINE absent == Absent(r, Range(rowOf))
             t == [tx[r] EXCEPT !.pc = "mark", !.rowOf = rowOf, !.rows = Synced(r, rowOf),
                                !.events = Announced(r, rowOf) \cup ArpEvents(r),
                                !.down = absent, !.todo = absent]
  <2>2. tx' = [tx EXCEPT ![r] = t] /\ events' = events
    BY <1>0, <1>6, <2>1 DEF Sync, eventVars
  <2>3. t.events = Announced(r, rowOf) \cup ArpEvents(r)
    BY <1>0 DEF Whole
  <2>4. tx[r].body \in Scans
    BY <1>6 DEF Sync, Inventory, Session, Busy
  <2>5. IsFiniteSet(t.events)
    BY <2>3, <2>4, AnnouncedFinite, ArpEventsFinite, FS_Union
  <2> HIDE DEF t
  <2> QED BY <2>2, <2>5, FiniteKeeps
<1>7. ASSUME NEW r \in Requests, Commit(r) PROVE Finite'
  <2> DEFINE t == [Idle EXCEPT !.pc = "done", !.kind = tx[r].kind, !.body = tx[r].body,
                               !.start = tx[r].start, !.rowOf = tx[r].rowOf]
  <2>1. tx' = [tx EXCEPT ![r] = t] /\ events' = events \cup tx[r].events
    BY <1>7 DEF Commit
  <2>2. IsFiniteSet(t.events)
    BY FS_EmptySet DEF Idle
  <2> HIDE DEF t
  <2> QED BY <2>1, <2>2, FiniteKeeps
<1>8. Tick /\ Others => Finite'
  BY DEF Tick, Others, Finite
<1>9. UNCHANGED vars => Finite'
  BY DEF vars, eventVars, Finite
<1> QED
  BY <1>1, <1>2, <1>3, <1>4, <1>5, <1>6, <1>7, <1>8, <1>9
  DEF Next, Serve, Step, IntegrityError, DeadlockVictim, Crash

(***************************************************************************)
(* The times of the scans: what a summary may conclude from last_seen_at.  *)
(***************************************************************************)
\* A request in progress is younger than the committed scans that it did not overlap.
Later == \A r \in Range(commits), q \in Active : Overlapped(q, r) \/ tx[r].start <= tx[q].start

\* After a scan that found a device and that no committed scan overlapped, some device has
\* been seen since.
Fresh ==
  \A r \in Range(commits) :
    Quiet(r) /\ DOMAIN tx[r].body # {} => \E i \in DOMAIN devices : tx[r].start <= devices[i].seen

LEMMA FreshStart == Init => Later /\ Fresh
<1>1. Init => Range(commits) = {}
  BY DEF Init, Range
<1> QED BY <1>1 DEF Later, Fresh

\* What is committed stays as it is.
LEMMA FreshKeeps ==
  ASSUME Inv, Inventory, Later, Fresh, UNCHANGED <<devices, commits>>, overlaps \subseteq overlaps',
         \A r \in Requests : tx[r].pc = "done" => tx'[r] = tx[r],
         \A q \in Active' : \/ q \in Active /\ tx'[q].start = tx[q].start
                            \/ tx'[q].start = now
  PROVE  Later' /\ Fresh'
<1>1. \A r \in Range(commits) : r \in Requests /\ tx'[r] = tx[r]
  BY DEF Inventory, Tables, Range
<1>2. Later'
  BY <1>1 DEF Later, Overlapped, Inv, Basic
<1>3. \A r : Quiet(r)' => Quiet(r)
  BY DEF Quiet, Overlapped
<1>4. Fresh'
  BY <1>1, <1>3 DEF Fresh
<1> QED BY <1>2, <1>4

LEMMA FreshCommit ==
  ASSUME NEW r, Committing(r), Later, Fresh PROVE Later' /\ Fresh'
<1>1. /\ r \in Requests /\ r \in Active /\ Written(r) /\ tx[r].pc = "mark" /\ tx'[r].pc = "done"
      /\ tx'[r].start = tx[r].start /\ tx'[r].body = tx[r].body
      /\ \A q \in Requests : q # r => tx'[q] = tx[q]
      /\ overlaps' = overlaps
  BY CommittingFacts
<1>2. Range(commits)' = Range(commits) \cup {r}
  BY CommitCommits DEF Range
<1>3. \A p \in Range(commits) : p \in Requests /\ p # r /\ tx'[p] = tx[p]
  BY CommitCommits DEF Range
<1>4. \A p \in Requests : tx[p].start \in Nat
  BY DEF Committing, Inv, Basic
<1>5. Active' \subseteq Active /\ r \notin Active' /\ \A q \in Active' : tx'[q] = tx[q]
  BY <1>1 DEF Active, Busy
<1>6. Later'
  <2> SUFFICES ASSUME NEW p \in Range(commits)', NEW q \in Active'
               PROVE  Overlapped(q, p)' \/ tx'[p].start <= tx'[q].start
    BY DEF Later
  <2>1. CASE p \in Range(commits)
    BY <1>1, <1>3, <1>5, <2>1 DEF Later, Overlapped
  <2>2. CASE p = r
    <3>1. Overlapped(q, r)
      BY <1>1, <1>5 DEF Committing, Inv, Overlaps
    <3> QED BY <1>1, <2>2, <3>1 DEF Overlapped
  <2> QED BY <1>2, <2>1, <2>2
<1>7. \A i \in DOMAIN tx[r].rows : i \in DOMAIN devices' /\ devices'[i].seen = tx[r].start
  <2> SUFFICES ASSUME NEW i \in DOMAIN tx[r].rows PROVE i \in DOMAIN devices' /\ devices'[i].seen = tx[r].start
    OBVIOUS
  <2>1. PICK k : Ready(r, k, i)
    BY <1>1, RowsFacts
  <2>2. tx[r].rows[i].seen = tx[r].start
    BY <2>1 DEF Ready
  <2>3. i \in DOMAIN devices' /\ devices'[i] = tx[r].rows[i]
    BY CommitRows
  <2> QED BY <2>2, <2>3
<1>8. \A i \in DOMAIN devices \ DOMAIN tx[r].rows : i \in DOMAIN devices' /\ devices'[i].seen = devices[i].seen
  <2> SUFFICES ASSUME NEW i \in DOMAIN devices \ DOMAIN tx[r].rows
               PROVE  i \in DOMAIN devices' /\ devices'[i].seen = devices[i].seen
    OBVIOUS
  <2>1. DeviceRow(devices[i])
    BY DEF Committing, Inventory, Tables
  <2>2. [devices[i] EXCEPT !.status = "down"].seen = devices[i].seen
    BY <2>1 DEF DeviceRow
  <2> QED BY <2>2, CommitRows
<1>9. Fresh'
  <2> SUFFICES ASSUME NEW p \in Range(commits)', Quiet(p)', DOMAIN tx'[p].body # {}
               PROVE  \E i \in DOMAIN devices' : tx'[p].start <= devices'[i].seen
    BY DEF Fresh
  <2>1. CASE p \in Range(commits)
    <3>1. Quiet(p) /\ ~Overlapped(r, p)
      BY <1>1, <1>2 DEF Quiet, Overlapped
    <3>2. tx[p].start <= tx[r].start
      BY <1>1, <2>1, <3>1 DEF Later
    <3>3. PICK i \in DOMAIN devices : tx[p].start <= devices[i].seen
      BY <1>3, <2>1, <3>1 DEF Fresh
    <3> QED BY <1>3, <1>7, <1>8, <2>1, <3>2, <3>3
  <2>2. CASE p = r
    <3>1. PICK ip \in DOMAIN tx[r].body : TRUE
      BY <1>1, <2>2
    <3>2. Key(tx[r].body, ip) \in Keys(tx[r].body)
      BY DEF Keys
    <3>3. tx[r].rowOf[Key(tx[r].body, ip)] \in DOMAIN tx[r].rows
      BY <1>1, <3>2 DEF Written, Range
    <3>4. tx[r].start <= tx[r].start
      BY <1>1, <1>4
    <3> QED BY <1>1, <1>7, <2>2, <3>3, <3>4
  <2> QED BY <1>2, <2>1, <2>2
<1> QED BY <1>6, <1>9

LEMMA FreshStep == Inv /\ Inventory /\ Later /\ Fresh /\ [Next]_vars => Later' /\ Fresh'
<1> SUFFICES ASSUME Inv, Inventory, Later, Fresh, [Next]_vars PROVE Later' /\ Fresh'
  OBVIOUS
<1>1. ASSUME NEW r \in Requests, Commit(r) PROVE Later' /\ Fresh'
  <2>1. CASE tx[r].kind = "scan"
    BY <1>1, <2>1, FreshCommit DEF Committing
  <2>2. CASE tx[r].kind # "scan"
    <3>0. devices' = devices
      BY <1>1, <2>2, CommitEventsDevices
    <3>1. UNCHANGED <<devices, commits, overlaps>> /\ tx[r].pc = "mark"
      BY <1>1, <2>2, <3>0 DEF Commit
    <3>2. tx'[r].pc = "done" /\ \A q \in Requests : q # r => tx'[q] = tx[q]
      BY <1>1 DEF Commit, Inv, Basic, Idle
    <3>3. \A q \in Active' : q \in Active /\ tx'[q].start = tx[q].start
      BY <3>2 DEF Active, Busy
    <3> QED BY <3>1, <3>2, <3>3, FreshKeeps
  <2> QED BY <2>1, <2>2
<1>2. ASSUME NEW r \in Requests, NEW how \in {"refused", "crashed"}, RollBack(r, how), tx[r].pc # "done"
      PROVE  Later' /\ Fresh'
  <2>1. UNCHANGED <<devices, commits, overlaps>>
    BY <1>2 DEF RollBack
  <2>2. tx'[r].pc \notin Busy /\ \A q \in Requests : q # r => tx'[q] = tx[q]
    BY <1>2 DEF RollBack, Inv, Basic, Idle, Busy
  <2>3. \A q \in Active' : q \in Active /\ tx'[q].start = tx[q].start
    BY <2>2 DEF Active
  <2> QED BY <1>2, <2>1, <2>2, <2>3, FreshKeeps
<1>3. ASSUME NEW r \in Requests, Acquire(r) \/ Sync(r) PROVE Later' /\ Fresh'
  <2>1. UNCHANGED <<devices, commits, overlaps>>
    BY <1>3 DEF Acquire, Sync
  <2>2. /\ tx'[r].start = tx[r].start /\ tx[r].pc \in Busy
        /\ \A q \in Requests : q # r => tx'[q] = tx[q]
    <3>1. Whole(tx[r]) /\ tx = [q \in Requests |-> tx[q]] /\ tx[r].pc \in Busy
      BY <1>3 DEF Inventory, Session, Inv, Basic, Acquire, Sync, Busy
    <3> QED BY <1>3, <3>1 DEF Acquire, Sync, Whole
  <2>3. \A q \in Active' : q \in Active /\ tx'[q].start = tx[q].start
    BY <2>2 DEF Active
  <2> QED BY <2>1, <2>2, <2>3, FreshKeeps DEF Busy
<1>4. ASSUME NEW r \in Requests, StartScan(r) \/ StartFlows(r) \/ StartIds(r) PROVE Later' /\ Fresh'
  <2>1. PICK t : Start(r, t) /\ t.start = now
    <3>1. CASE StartScan(r)
      <4>1. PICK scan, rowOf, todo :
              Start(r, [Idle EXCEPT !.pc = "flush", !.kind = "scan", !.body = scan, !.start = now,
                                    !.loaded = devices, !.rowOf = rowOf, !.todo = todo])
        BY <3>1 DEF StartScan
      <4> DEFINE t == [Idle EXCEPT !.pc = "flush", !.kind = "scan", !.body = scan, !.start = now,
                                   !.loaded = devices, !.rowOf = rowOf, !.todo = todo]
      <4>2. Start(r, t) /\ t.start = now
        BY <4>1 DEF Idle
      <4> HIDE DEF t
      <4> QED BY <4>2
    <3>2. ASSUME NEW kind, NEW body, NEW new,
                 Start(r, [Idle EXCEPT !.pc = "mark", !.kind = kind, !.body = body, !.start = now,
                                       !.events = new])
          PROVE  \E t : Start(r, t) /\ t.start = now
      <4> DEFINE t == [Idle EXCEPT !.pc = "mark", !.kind = kind, !.body = body, !.start = now,
                                   !.events = new]
      <4>1. Start(r, t) /\ t.start = now
        BY <3>2 DEF Idle
      <4> HIDE DEF t
      <4> QED BY <4>1
    <3>3. CASE StartFlows(r) \/ StartIds(r)
      BY <3>2, <3>3 DEF StartFlows, StartIds
    <3> QED BY <1>4, <3>1, <3>3
  <2>2. /\ UNCHANGED <<devices, commits>> /\ overlaps \subseteq overlaps' /\ tx[r].pc = "idle"
        /\ \A q \in Requests : tx'[q] = IF q = r THEN t ELSE tx[q]
    BY <2>1 DEF Start, Inv, Basic
  <2>3. \A q \in Active' : (q \in Active /\ tx'[q].start = tx[q].start) \/ tx'[q].start = now
    BY <2>1, <2>2 DEF Active
  <2> QED BY <2>2, <2>3, FreshKeeps
<1>5. CASE (Tick /\ Others) \/ UNCHANGED vars
  <2>1. UNCHANGED <<devices, commits, overlaps, tx>>
    BY <1>5 DEF Tick, Others, vars
  <2>2. Active' = Active
    BY <2>1 DEF Active
  <2> QED BY <2>1, <2>2, FreshKeeps
<1>6. ASSUME NEW r \in Requests, IntegrityError(r) \/ DeadlockVictim(r) \/ Crash(r)
      PROVE  \E how \in {"refused", "crashed"} : RollBack(r, how) /\ tx[r].pc # "done"
  BY <1>6 DEF IntegrityError, DeadlockVictim, Crash, Active, Inventory, Session, Busy
<1> QED BY <1>1, <1>2, <1>3, <1>4, <1>5, <1>6 DEF Next, Serve, Step

(***************************************************************************)
(* The queries.                                                            *)
(***************************************************************************)
\* Sets of rows can be counted.
LEMMA Counted ==
  ASSUME Tables, NEW S \in SUBSET DOMAIN devices
  PROVE  /\ Cardinality(S) \in Nat
         /\ Cardinality(S) > 0 <=> S # {}
         /\ \A T \in SUBSET S : /\ Cardinality(T) \in Nat /\ Cardinality(T) <= Cardinality(S)
                                /\ T # S => Cardinality(T) < Cardinality(S)
<1>1. nextId \in Nat /\ S \in SUBSET (0..nextId)
  BY DEF Tables
<1>2. IsFiniteSet(S) /\ Cardinality(S) \in Nat /\ \A T \in SUBSET S : Cardinality(T) \in Nat
  BY <1>1, BoundedFinite
<1>3. Cardinality(S) > 0 <=> S # {}
  BY <1>2, FS_EmptySet
<1>4. \A T \in SUBSET S : Cardinality(T) <= Cardinality(S) /\ (T # S => Cardinality(T) < Cardinality(S))
  BY <1>2, FS_Subset
<1> QED BY <1>2, <1>3, <1>4

\* The rows and the events that a query counts.
DownRows == {i \in DOMAIN devices : devices[i].status = "down"}
DownGateways == {i \in DOMAIN devices : devices[i].gateway /\ devices[i].status = "down"}
NewRowsAt(window, t) == {i \in DOMAIN devices : devices[i].first + window >= t}
RowsWith(s) == {i \in DOMAIN devices : \E v \in devices[i].vulns : v.severity = s}
EventsAt(kind, t) == {e \in events : e.kind = kind /\ e.at + EventWindow >= t}

LEMMA QueryIs ==
  ASSUME NEW t
  PROVE  /\ Query("total", t) = Cardinality(DOMAIN devices)
         /\ Query("down", t) = Cardinality(DownRows)
         /\ Query("down_gateways", t) = Cardinality(DownGateways)
         /\ Query("last_scan_at", t) = LastScan
         /\ Query("now", t) = now
         /\ Query("new_last_window", t) = Cardinality(NewRowsAt(NewWindow, t))
         /\ \A s \in {"critical", "high", "medium"} : Query(s, t) = Cardinality(RowsWith(s))
         /\ \A k \in {"arp_spoof", "outbound_suspicious", "port_scan", "new_open_port"} :
              Query(k, t) = Cardinality(EventsAt(k, t))
         /\ Query("recent_new", t) = Cardinality(NewRowsAt(SatWindow, t))
BY DEF Query, Count, WithSeverity, EventsOf, Recent, DownRows, DownGateways, NewRowsAt, RowsWith, EventsAt

LEMMA EventsCounted ==
  ASSUME Finite, NEW kind, NEW t
  PROVE  /\ Cardinality(EventsAt(kind, t)) \in Nat
         /\ Cardinality(EventsAt(kind, t)) > 0 <=> EventsAt(kind, t) # {}
<1>1. IsFiniteSet(EventsAt(kind, t))
  BY FS_Subset DEF Finite, EventsAt
<1> QED BY <1>1, FS_CardinalityType, FS_EmptySet

\* The last sighting of the rows d at time n.
LEMMA LastOf ==
  ASSUME NEW d, NEW n \in Nat, \A i \in DOMAIN d : d[i].seen \in 1..n
  PROVE  LET last == Max({0} \cup {d[i].seen : i \in DOMAIN d})
         IN  /\ last \in 0..n
             /\ \A i \in DOMAIN d : d[i].seen <= last
             /\ last # 0 => \E i \in DOMAIN d : d[i].seen = last
<1> DEFINE T == {0} \cup {d[i].seen : i \in DOMAIN d}
<1>1. T \in SUBSET (0..n) /\ T \in SUBSET Nat /\ 0 \in T
  OBVIOUS
<1>2. IsFiniteSet(T)
  BY <1>1, BoundedFinite
<1>3. Max(T) \in T /\ \A y \in T : y <= Max(T)
  BY <1>1, <1>2, MaxFacts
<1> QED BY <1>1, <1>3

LEMMA LastScanFacts ==
  ASSUME Tables
  PROVE  /\ LastScan \in 0..now
         /\ \A i \in DOMAIN devices : devices[i].seen <= LastScan
         /\ LastScan # 0 => \E i \in DOMAIN devices : devices[i].seen = LastScan
<1>1. now \in Nat /\ \A i \in DOMAIN devices : devices[i].seen \in 1..now
  BY WindowAssumption DEF Tables, DeviceRow
<1> QED BY <1>1, LastOf DEF LastScan

\* The risk of a device against its findings.
LEMMA RiskFacts ==
  ASSUME NEW vulns, \A v \in vulns : v.severity \in Severities
  PROVE  /\ Risk(vulns) = "critical" <=> \E v \in vulns : v.severity = "critical"
         /\ Risk(vulns) = "vulnerable" => \E v \in vulns : v.severity \in {"high", "medium"}
<1> DEFINE sev == {v.severity : v \in vulns}
           T == {SeverityRank[s] : s \in sev}
<1>1. sev \subseteq Severities
  OBVIOUS
<1>2. /\ \A s \in Severities : SeverityRank[s] \in 0..4
      /\ \A s \in Severities : SeverityRank[s] = 4 <=> s = "critical"
      /\ \A s \in Severities : SeverityRank[s] \in 2..3 <=> s \in {"high", "medium"}
      /\ SeverityRank.critical = 4 /\ SeverityRank.medium = 2
  BY DEF SeverityRank, Severities
<1>3. CASE sev = {}
  <2>1. Risk(vulns) = "safe" /\ vulns = {}
    BY <1>3 DEF Risk, RiskFromSeverities
  <2> QED BY <2>1
<1>4. CASE sev # {}
  <2>1. T \in SUBSET (0..4) /\ T \in SUBSET Nat /\ T # {}
    BY <1>1, <1>2, <1>4
  <2>2. IsFiniteSet(T)
    BY <2>1, BoundedFinite
  <2>3. Max(T) \in T /\ \A y \in T : y <= Max(T)
    BY <2>1, <2>2, MaxFacts
  <2>4. Risk(vulns) = IF Max(T) >= 4 THEN "critical" ELSE IF Max(T) >= 2 THEN "vulnerable" ELSE "safe"
    BY <1>2, <1>4 DEF Risk, RiskFromSeverities
  <2>5. PICK s \in sev : Max(T) = SeverityRank[s]
    BY <2>3
  <2>6. Max(T) \in 0..4
    BY <2>1, <2>3
  <2>7. Risk(vulns) = "critical" <=> Max(T) = 4
    BY <2>4, <2>6
  <2>8. Risk(vulns) = "vulnerable" => Max(T) \in 2..3
    BY <2>4, <2>6
  <2>9. Max(T) = 4 <=> "critical" \in sev
    <3>1. "critical" \in sev => 4 \in T
      BY <1>2
    <3>2. 4 \in T => Max(T) = 4
      <4>1. 4 \in T => 4 <= Max(T)
        BY <2>3
      <4> HIDE DEF T
      <4> QED BY <2>6, <4>1
    <3> HIDE DEF T
    <3> QED BY <1>1, <1>2, <2>5, <3>1, <3>2
  <2> QED BY <1>1, <1>2, <2>5, <2>7, <2>8, <2>9
<1> QED BY <1>3, <1>4

(***************************************************************************)
(* The faults and the queries that look for them.                          *)
(***************************************************************************)
\* The query that each fault shows in.
Witness ==
  [gateway |-> "down_gateways", host |-> "down", risk_critical |-> "critical", high |-> "high",
   medium |-> "medium", arp_spoof |-> "arp_spoof", outbound_suspicious |-> "outbound_suspicious",
   port_scan |-> "port_scan", new_open_port |-> "new_open_port",
   new_device |-> "new_last_window", growth |-> "recent_new"]

\* The least result that shows it.
Least(f) == IF f = "growth" THEN SatDevices ELSE 1

\* The faults that one query looks for.
Single == DOMAIN Deserved \ {"risk_vulnerable"}

LEMMA WindowsAreNaturals ==
  /\ StaleAfter \in Nat /\ NewWindow \in Nat /\ EventWindow \in Nat /\ SatWindow \in Nat
  /\ SatDevices \in Nat
BY SummaryAssumption

LEMMA SingleFaults ==
  /\ Single = DOMAIN Witness
  /\ \A f \in Single : f \in Faults <=>
       CASE f = "gateway" -> DownGateways # {}
         [] f = "host" -> \E i \in DownRows : ~devices[i].gateway
         [] f = "risk_critical" -> \E i \in DOMAIN devices : Risk(devices[i].vulns) = "critical"
         [] f \in {"high", "medium"} -> RowsWith(f) # {}
         [] f = "growth" -> Cardinality(NewRowsAt(SatWindow, now)) >= SatDevices
         [] f = "new_device" -> NewRowsAt(NewWindow, now) # {}
         [] OTHER -> EventsAt(f, now) # {}
<1>1. Single = DOMAIN Witness
  BY DEF Single, Deserved, Witness
<1>2. ASSUME NEW f \in Single
      PROVE  f \in Faults <=>
       CASE f = "gateway" -> DownGateways # {}
         [] f = "host" -> \E i \in DownRows : ~devices[i].gateway
         [] f = "risk_critical" -> \E i \in DOMAIN devices : Risk(devices[i].vulns) = "critical"
         [] f \in {"high", "medium"} -> RowsWith(f) # {}
         [] f = "growth" -> Cardinality(NewRowsAt(SatWindow, now)) >= SatDevices
         [] f = "new_device" -> NewRowsAt(NewWindow, now) # {}
         [] OTHER -> EventsAt(f, now) # {}
  BY DEF Single, Deserved, Faults, InNetwork, Happened, Count, Recent, DownRows, DownGateways,
         NewRowsAt, RowsWith, EventsAt
<1> QED BY <1>1, <1>2

\* A fault of now is counted by its query, whose window ends now or ended before.
LEMMA FaultCounted ==
  ASSUME Tables, Finite, NEW f \in Faults \cap Single, NEW t \in Nat, t <= now
  PROVE  Query(Witness[f], t) \in Nat /\ Query(Witness[f], t) >= Least(f)
<1>0. now \in Nat
  BY WindowAssumption DEF Tables
<1>1. ASSUME NEW window \in Nat
      PROVE  /\ NewRowsAt(window, now) \in SUBSET NewRowsAt(window, t)
             /\ NewRowsAt(window, t) \in SUBSET DOMAIN devices
  BY <1>0, <1>1 DEF NewRowsAt, Tables, DeviceRow
<1>2. \A k : EventsAt(k, now) \subseteq EventsAt(k, t)
  BY <1>0, WindowsAreNaturals DEF EventsAt, Tables
<1>3. /\ DownGateways \in SUBSET DOMAIN devices /\ DownRows \in SUBSET DOMAIN devices
      /\ \A s : RowsWith(s) \in SUBSET DOMAIN devices
  BY DEF DownGateways, DownRows, RowsWith
<1>4. CASE f = "gateway"
  BY <1>3, <1>4, SingleFaults, QueryIs, Counted DEF Witness, Least
<1>5. CASE f = "host"
  BY <1>3, <1>5, SingleFaults, QueryIs, Counted DEF Witness, Least
<1>6. CASE f = "risk_critical"
  <2>1. PICK i \in DOMAIN devices : Risk(devices[i].vulns) = "critical"
    BY <1>6, SingleFaults
  <2>2. \A v \in devices[i].vulns : v.severity \in Severities
    BY DEF Tables, DeviceRow
  <2>3. i \in RowsWith("critical")
    BY <2>1, <2>2, RiskFacts DEF RowsWith
  <2> QED BY <1>3, <1>6, <2>3, QueryIs, Counted DEF Witness, Least
<1>7. CASE f \in {"high", "medium"}
  BY <1>3, <1>7, SingleFaults, QueryIs, Counted DEF Witness, Least
<1>8. CASE f = "growth"
  <2>1. /\ NewRowsAt(SatWindow, now) \in SUBSET NewRowsAt(SatWindow, t)
        /\ NewRowsAt(SatWindow, t) \in SUBSET DOMAIN devices
    BY <1>1, WindowsAreNaturals
  <2>2. Cardinality(NewRowsAt(SatWindow, now)) >= SatDevices
    BY <1>8, SingleFaults
  <2>3. Query("recent_new", t) = Cardinality(NewRowsAt(SatWindow, t))
    BY QueryIs
  <2> QED BY <1>8, <2>1, <2>2, <2>3, Counted, WindowsAreNaturals DEF Witness, Least
<1>9. CASE f = "new_device"
  <2>1. /\ NewRowsAt(NewWindow, now) \in SUBSET NewRowsAt(NewWindow, t)
        /\ NewRowsAt(NewWindow, t) \in SUBSET DOMAIN devices
    BY <1>1, WindowsAreNaturals
  <2>2. NewRowsAt(NewWindow, now) # {}
    BY <1>9, SingleFaults
  <2>3. Query("new_last_window", t) = Cardinality(NewRowsAt(NewWindow, t))
    BY QueryIs
  <2> QED BY <1>9, <2>1, <2>2, <2>3, Counted DEF Witness, Least
<1>10. CASE f \in {"arp_spoof", "outbound_suspicious", "port_scan", "new_open_port"}
  <2>1. EventsAt(f, now) # {}
    BY <1>10, SingleFaults
  <2>2. Query(f, t) = Cardinality(EventsAt(f, t))
    BY <1>10, QueryIs
  <2>3. Witness[f] = f /\ Least(f) = 1
    BY <1>10 DEF Witness, Least
  <2> QED BY <1>2, <2>1, <2>2, <2>3, EventsCounted
<1> QED
  BY <1>4, <1>5, <1>6, <1>7, <1>8, <1>9, <1>10 DEF Single, Deserved

(***************************************************************************)
(* The answer.                                                             *)
(***************************************************************************)
LEMMA StateOfFacts ==
  ASSUME NEW c
  PROVE  /\ Reasons(c) \subseteq DOMAIN Rank \ {"sain"}
         /\ Blind(c) <=> "indisponible" \in Reasons(c)
         /\ Blind(c) => StateOf(c) = "indisponible"
         /\ Reasons(c) = {} => StateOf(c) = "sain"
         /\ Reasons(c) # {} => StateOf(c) \in Reasons(c)
         /\ \A s \in Reasons(c) : Rank[s] <= Rank[StateOf(c)]
<1>1. /\ Reasons(c) \subseteq DOMAIN Rank \ {"sain"}
      /\ Blind(c) <=> "indisponible" \in Reasons(c)
      /\ Blind(c) => Reasons(c) = {"indisponible"}
  BY DEF Reasons, Rank
<1>2. \A s \in DOMAIN Rank : Rank[s] \in 0..5
  BY DEF Rank
<1>3. ASSUME Reasons(c) # {}
      PROVE  StateOf(c) \in Reasons(c) /\ \A s \in Reasons(c) : Rank[s] <= Rank[StateOf(c)]
  <2> DEFINE T == {Rank[s] : s \in Reasons(c)}
  <2>1. T \in SUBSET (0..5) /\ T # {} /\ 5 \in Nat
    BY <1>1, <1>2, <1>3
  <2>2. PICK x \in T : \A y \in T : y <= x
    <3> HIDE DEF T
    <3> QED BY <2>1, GreatestExists
  <2>3. \E s \in Reasons(c) : \A t \in Reasons(c) : Rank[s] >= Rank[t]
    BY <1>1, <1>2, <2>2
  <2>4. StateOf(c) \in Reasons(c) /\ \A t \in Reasons(c) : Rank[StateOf(c)] >= Rank[t]
    BY <1>3, <2>3 DEF StateOf
  <2> QED BY <1>1, <1>2, <2>4
<1>4. Reasons(c) = {} => StateOf(c) = "sain"
  BY DEF StateOf
<1> QED BY <1>1, <1>3, <1>4

\* A fault whose query says so gives a reason at least as grave.
LEMMA FaultReason ==
  ASSUME NEW c, NEW f \in Single, ~Blind(c),
         \A q \in {"down", "down_gateways"} : c[q] \in Nat,
         c[Witness[f]] \in Nat, c[Witness[f]] >= Least(f)
  PROVE  Rank[Deserved[f]] <= Rank[StateOf(c)]
<1>1. \/ Deserved[f] \in Reasons(c)
      \/ f = "host" /\ "critique" \in Reasons(c)
  <2>1. CASE f = "host"
    BY <2>1 DEF Reasons, Witness, Least, Deserved
  <2>2. CASE f = "growth"
    BY <2>2 DEF Reasons, Witness, Least, Deserved
  <2>3. CASE f \in {"gateway", "risk_critical", "arp_spoof", "outbound_suspicious"}
    BY <2>3 DEF Reasons, Witness, Least, Deserved
  <2>4. CASE f \in {"high", "port_scan"}
    BY <2>4 DEF Reasons, Witness, Least, Deserved
  <2>5. CASE f \in {"medium", "new_open_port", "new_device"}
    BY <2>5 DEF Reasons, Witness, Least, Deserved
  <2> QED BY <2>1, <2>2, <2>3, <2>4, <2>5 DEF Single, Deserved
<1>2. Deserved["host"] = "alarme" /\ Rank["alarme"] = 3 /\ Rank["critique"] = 5
  BY DEF Deserved, Rank
<1>3. StateOf(c) \in DOMAIN Rank /\ Rank[StateOf(c)] \in Nat
  BY StateOfFacts DEF Rank
<1> QED BY <1>1, <1>2, <1>3, StateOfFacts

\* The results of all queries at one moment.
Snapshot == [q \in Range(Queries) |-> Query(q, now)]

AllQueries ==
  {"total", "down", "down_gateways", "last_scan_at", "now", "new_last_window",
   "critical", "high", "medium", "arp_spoof", "outbound_suspicious", "port_scan",
   "new_open_port", "recent_new"}

LEMMA QueriesAre ==
  /\ Range(Queries) = AllQueries
  /\ \A n \in DOMAIN Queries :
       /\ Queries[n] \in AllQueries
       /\ \/ Queries[n] \in {"total", "down", "down_gateways", "last_scan_at", "now"}
          \/ 5 \in 1..(n - 1)
  /\ Queries[5] = "now"
<1>1. DOMAIN Queries = 1..14
  BY DEF Queries
<1>2. 1..14 = {1, 2, 3, 4, 5, 6, 7, 8, 9, 10, 11, 12, 13, 14}
  OBVIOUS
<1> QED BY <1>1, <1>2 DEF Queries, Range, AllQueries

LEMMA QueryNat ==
  ASSUME Tables, Finite, NEW t, NEW q \in AllQueries PROVE Query(q, t) \in Nat
<1>1. CASE q \in {"total", "down", "down_gateways", "new_last_window", "critical", "high", "medium", "recent_new"}
  <2>1. \A S \in SUBSET DOMAIN devices : Cardinality(S) \in Nat
    BY Counted
  <2>2. /\ DownRows \in SUBSET DOMAIN devices /\ DownGateways \in SUBSET DOMAIN devices
        /\ \A w : NewRowsAt(w, t) \in SUBSET DOMAIN devices
        /\ \A s : RowsWith(s) \in SUBSET DOMAIN devices
    BY DEF DownRows, DownGateways, NewRowsAt, RowsWith
  <2> QED BY <1>1, <2>1, <2>2, QueryIs
<1>2. CASE q = "last_scan_at"
  BY <1>2, QueryIs, LastScanFacts
<1>3. CASE q = "now"
  BY <1>3, QueryIs, WindowAssumption DEF Tables
<1>4. CASE q \in {"arp_spoof", "outbound_suspicious", "port_scan", "new_open_port"}
  BY <1>4, QueryIs, EventsCounted
<1> QED BY <1>1, <1>2, <1>3, <1>4 DEF AllQueries

\* A summary at one moment is blind exactly when no device was seen recently.
LEMMA SnapshotBlind == ASSUME Tables PROVE Blind(Snapshot) <=> ~Scanned
<1>1. /\ Snapshot["total"] = Cardinality(DOMAIN devices) /\ Snapshot["last_scan_at"] = LastScan
      /\ Snapshot["now"] = now
  BY QueryIs, QueriesAre DEF Snapshot, AllQueries
<1>2. Cardinality(DOMAIN devices) = 0 <=> DOMAIN devices = {}
  BY Counted
<1>3. Blind(Snapshot) <=> DOMAIN devices = {} \/ LastScan = 0 \/ ~(LastScan + StaleAfter >= now)
  BY <1>1, <1>2 DEF Blind, Recent
<1>4. Scanned <=> \E i \in DOMAIN devices : devices[i].seen + StaleAfter >= now
  BY DEF Scanned, InNetwork, Recent
<1>5. /\ now \in Nat /\ StaleAfter \in Nat /\ LastScan \in Nat
      /\ \A i \in DOMAIN devices : devices[i].seen \in Nat /\ devices[i].seen > 0
  BY WindowAssumption, WindowsAreNaturals, LastScanFacts DEF Tables, DeviceRow
<1>6. (\E i \in DOMAIN devices : devices[i].seen + StaleAfter >= now) =>
        DOMAIN devices # {} /\ LastScan # 0 /\ LastScan + StaleAfter >= now
  BY <1>5, LastScanFacts
<1>7. LastScan # 0 /\ LastScan + StaleAfter >= now =>
        \E i \in DOMAIN devices : devices[i].seen + StaleAfter >= now
  BY LastScanFacts
<1> QED BY <1>3, <1>4, <1>6, <1>7

(***************************************************************************)
(* A summary being computed.                                               *)
(***************************************************************************)
\* What the result x of the query q shows of what has been there ever since.
Shown(q, x) ==
  /\ x \in Nat
  /\ \A f \in constant \cap Single : Witness[f] = q => x >= Least(f)
  /\ q = "total" /\ sighted # 0 => x > 0
  /\ q = "last_scan_at" => x >= sighted

\* The results c: the windows end at a moment that was read before them.
Results(c) ==
  /\ DOMAIN c \subseteq AllQueries
  /\ \A q \in DOMAIN c : \/ "now" \in DOMAIN c
                         \/ q \in {"total", "down", "down_gateways", "last_scan_at", "now"}
  /\ "now" \in DOMAIN c => c["now"] \in Nat /\ c["now"] <= now
  /\ \A q \in DOMAIN c : Shown(q, c[q])
  /\ calm => \A q \in DOMAIN c : c[q] = Query(q, now)

Reading ==
  state = Waiting =>
    Results(got) /\ sighted \in Nat /\ sighted <= LastScan /\ constant \subseteq Faults

\* What an answer says.
Reply ==
  /\ Answered => /\ calm => state = StateOf(Snapshot)
                 /\ PersistentFaultShown
  /\ state \in DOMAIN Rank \cup {Nothing, Waiting}

\* The next result.
LEMMA ReadResult ==
  ASSUME Tables, Finite, Results(got), sighted \in Nat, sighted <= LastScan, constant \subseteq Faults,
         NEW n \in DOMAIN Queries, NEW q, q = Queries[n], \A m \in 1..(n - 1) : Queries[m] \in DOMAIN got,
         NEW t, t = IF "now" \in DOMAIN got THEN got["now"] ELSE 0,
         NEW c, c = [p \in DOMAIN got \cup {q} |-> IF p = q THEN Query(q, t) ELSE got[p]]
  PROVE  Results(c)
<1> DEFINE early == {"total", "down", "down_gateways", "last_scan_at", "now"}
<1>1. q \in AllQueries /\ (q \in early \/ "now" \in DOMAIN got)
  BY QueriesAre
<1>2. now \in Nat /\ t \in Nat /\ t <= now
  BY WindowAssumption DEF Tables, Results
<1>3. q \in early => Query(q, t) = Query(q, now)
  BY QueryIs
<1>4. Query(q, t) \in Nat
  BY <1>1, QueryNat
<1>5. Shown(q, Query(q, t))
  <2>1. \A f \in constant \cap Single : Witness[f] = q => Query(q, t) >= Least(f)
    BY <1>2, FaultCounted
  <2>2. q = "total" /\ sighted # 0 => Query(q, t) > 0
    <3>1. LastScan \in Nat /\ (LastScan # 0 => DOMAIN devices # {})
      BY <1>2, LastScanFacts
    <3> QED BY <3>1, QueryIs, Counted
  <2>3. q = "last_scan_at" => Query(q, t) >= sighted
    BY <1>2, QueryIs, LastScanFacts
  <2> QED BY <1>4, <2>1, <2>2, <2>3 DEF Shown
<1>6. ASSUME calm PROVE Query(q, t) = Query(q, now)
  <2>1. CASE "now" \in DOMAIN got
    BY <1>6, <2>1, QueryIs DEF Results
  <2>2. CASE "now" \notin DOMAIN got
    BY <1>1, <1>3, <2>2
  <2> QED BY <2>1, <2>2
<1>7. "now" \in DOMAIN c => c["now"] \in Nat /\ c["now"] <= now
  BY <1>2, QueryIs DEF Results
<1>8. \A p \in DOMAIN c : c[p] = (IF p = q THEN Query(q, t) ELSE got[p]) /\ (p # q => p \in DOMAIN got)
  OBVIOUS
<1>9. \A p \in DOMAIN c : "now" \in DOMAIN c \/ p \in early
  BY <1>1 DEF Results
<1>10. \A p \in DOMAIN c : Shown(p, c[p])
  BY <1>5, <1>8 DEF Results
<1>11. calm => \A p \in DOMAIN c : c[p] = Query(p, now)
  BY <1>6, <1>8 DEF Results
<1>12. DOMAIN c \subseteq AllQueries
  BY <1>1 DEF Results
<1> QED BY <1>7, <1>9, <1>10, <1>11, <1>12 DEF Results

\* The answer from all results.
LEMMA AnswerFacts ==
  ASSUME Tables, sighted \in Nat, constant \subseteq Faults,
         NEW c, c = [q \in DOMAIN c |-> c[q]], DOMAIN c = Range(Queries), Results(c)
  PROVE  /\ calm => StateOf(c) = StateOf(Snapshot)
         /\ sighted # 0 /\ Recent(sighted, StaleAfter, now) =>
              AsGraveAs(StateOf(c), constant \ {"risk_vulnerable"})
         /\ StateOf(c) \in DOMAIN Rank
<1>1. DOMAIN c = AllQueries
  BY QueriesAre
<1>2. ASSUME calm PROVE c = Snapshot
  BY <1>1, <1>2, QueriesAre DEF Results, Snapshot
<1>3. ASSUME sighted # 0, Recent(sighted, StaleAfter, now), NEW f \in constant \ {"risk_vulnerable"}
      PROVE  Rank[Deserved[f]] <= Rank[StateOf(c)]
  <2>1. f \in Single /\ f \in constant
    BY DEF Single, Faults
  <2>2. c["total"] > 0 /\ c["last_scan_at"] >= sighted /\ c["now"] <= now
        /\ {c["total"], c["last_scan_at"], c["now"]} \subseteq Nat
    BY <1>1, <1>3 DEF Results, Shown, AllQueries
  <2>3. now \in Nat /\ StaleAfter \in Nat
    BY WindowAssumption, WindowsAreNaturals DEF Tables
  <2>4. ~Blind(c)
    BY <1>3, <2>2, <2>3 DEF Blind, Recent
  <2>5. Witness[f] \in AllQueries
    BY <2>1 DEF Single, Deserved, Witness, AllQueries
  <2>6. c[Witness[f]] \in Nat /\ c[Witness[f]] >= Least(f)
    BY <1>1, <2>1, <2>5 DEF Results, Shown
  <2>7. \A q \in {"down", "down_gateways"} : c[q] \in Nat
    BY <1>1 DEF Results, Shown, AllQueries
  <2> QED BY <2>1, <2>4, <2>6, <2>7, FaultReason
<1>4. StateOf(c) \in DOMAIN Rank
  BY StateOfFacts DEF Rank
<1> QED BY <1>2, <1>3, <1>4 DEF AsGraveAs

Base == Inv /\ Inventory /\ Finite /\ Later /\ Fresh

LEMMA BaseStart == Init => Base
BY InvStart, InventoryStart, FiniteStart, FreshStart DEF Base

LEMMA BaseStep == Base /\ [Next]_vars => Base'
BY InvStep, InventoryStep, FiniteStep, FreshStep DEF Base

LEMMA BeginKeeps == ASSUME Base, BeginSummary PROVE Reading' /\ Reply'
<1>1. /\ got' = <<>> /\ state' = Waiting /\ sighted' = LastScan /\ constant' = Faults
      /\ UNCHANGED <<devices, events, now>>
  BY DEF BeginSummary, vars, eventVars
<1>2. DOMAIN got' = {}
  BY <1>1
<1>3. Results(got)'
  BY <1>2 DEF Results
<1>4. LastScan' = LastScan /\ Faults' = Faults
  BY <1>1 DEF LastScan, Faults, InNetwork, Happened, Count
<1>5. LastScan \in Nat
  BY LastScanFacts, WindowAssumption DEF Base, Inventory, Tables
<1>6. Waiting \notin DOMAIN Rank
  BY DEF Waiting, Rank
<1> QED BY <1>1, <1>3, <1>4, <1>5, <1>6 DEF Reading, Reply, Answered

LEMMA ReadKeeps == ASSUME Base, Reading, Reply, ReadNext PROVE Reading' /\ Reply'
<1>1. /\ state = Waiting /\ UNCHANGED <<devices, events, now, calm, sighted, constant>>
  BY DEF ReadNext, vars, eventVars
<1>2. PICK n \in DOMAIN Queries :
        LET q == Queries[n]
            t == IF "now" \in DOMAIN got THEN got["now"] ELSE 0
            c == [p \in DOMAIN got \cup {q} |-> IF p = q THEN Query(q, t) ELSE got[p]]
        IN  /\ \A m \in 1..(n - 1) : Queries[m] \in DOMAIN got
            /\ IF DOMAIN c = Range(Queries)
               THEN state' = StateOf(c) /\ got' = <<>>
               ELSE got' = c /\ UNCHANGED state
  BY DEF ReadNext
<1> DEFINE q == Queries[n]
           t == IF "now" \in DOMAIN got THEN got["now"] ELSE 0
           c == [p \in DOMAIN got \cup {q} |-> IF p = q THEN Query(q, t) ELSE got[p]]
<1>3. /\ Tables /\ Finite /\ Results(got) /\ sighted \in Nat /\ sighted <= LastScan /\ constant \subseteq Faults
  BY <1>1 DEF Base, Inventory, Reading
<1>4. Results(c)
  BY <1>2, <1>3, ReadResult
<1>5. c = [p \in DOMAIN c |-> c[p]]
  OBVIOUS
<1>6. IF DOMAIN c = Range(Queries) THEN state' = StateOf(c) /\ got' = <<>> ELSE got' = c /\ UNCHANGED state
  BY <1>2
<1> HIDE DEF c, t, q
<1>7. \A p, u : Query(p, u)' = Query(p, u)
  BY <1>1 DEF Query, Count, WithSeverity, EventsOf, LastScan
<1>8. LastScan' = LastScan /\ Faults' = Faults
  BY <1>1 DEF LastScan, Faults, InNetwork, Happened, Count
<1>9. CASE DOMAIN c = Range(Queries)
  <2>1. state' = StateOf(c) /\ state' \in DOMAIN Rank
        /\ (calm => state' = StateOf(Snapshot))
        /\ (sighted # 0 /\ Recent(sighted, StaleAfter, now) =>
              AsGraveAs(state', constant \ {"risk_vulnerable"}))
    BY <1>3, <1>4, <1>5, <1>6, <1>9, AnswerFacts
  <2>2. Snapshot' = Snapshot
    BY <1>1, <1>7 DEF Snapshot
  <2>3. StateOf(Snapshot)' = StateOf(Snapshot)
    BY <2>2 DEF StateOf, Reasons, Blind
  <2>4. Reply'
    BY <1>1, <2>1, <2>3 DEF Reply, PersistentFaultShown, Recent, AsGraveAs
  <2>5. state' # Waiting
    BY <2>1 DEF Rank, Waiting
  <2> QED BY <2>4, <2>5 DEF Reading
<1>10. CASE DOMAIN c # Range(Queries)
  <2>1. got' = c /\ state' = state
    BY <1>6, <1>10
  <2>2. Results(got)'
    BY <1>1, <1>4, <1>7, <2>1 DEF Results, Shown
  <2>3. Reading'
    BY <1>1, <1>3, <1>8, <2>2 DEF Reading
  <2>4. Waiting \notin DOMAIN Rank
    BY DEF Waiting, Rank
  <2> QED BY <1>1, <2>1, <2>3, <2>4 DEF Reply, Answered
<1> QED BY <1>9, <1>10

LEMMA ClockAdvances == ASSUME Base, Next PROVE now \in Nat /\ now' \in Nat /\ now <= now'
<1>1. now \in Nat
  BY WindowAssumption DEF Base, Inventory, Tables
<1>2. now' \in {now, now + 1}
  BY DEF Next, Serve, Step, StartScan, StartFlows, StartIds, Start, Acquire, IntegrityError,
         DeadlockVictim, Crash, RollBack, Sync, Commit, Tick, Others, eventVars
<1> QED BY <1>1, <1>2

LEMMA MeanwhileKeeps == ASSUME Base, Base', Reading, Reply, Next, Meanwhile PROVE Reading' /\ Reply'
<1>1. CASE state = Waiting
  <2>1. /\ calm' = (calm /\ UNCHANGED <<devices, events, now>>)
        /\ sighted' = Min({sighted, LastScan'}) /\ constant' = constant \cap Faults'
        /\ got' = got /\ state' = state
    BY <1>1 DEF Meanwhile
  <2>2. Results(got) /\ sighted \in Nat
    BY <1>1 DEF Reading
  <2>3. now \in Nat /\ now' \in Nat /\ now <= now'
    BY ClockAdvances
  <2>4. LastScan' \in Nat
    <3>1. \A i \in DOMAIN devices' : devices'[i].seen \in 1..now'
      BY DEF Base, Inventory, Tables, DeviceRow
    <3> DEFINE d == devices'
    <3>2. Max({0} \cup {d[i].seen : i \in DOMAIN d}) \in 0..now'
      <4> HIDE DEF d
      <4>1. \A i \in DOMAIN d : d[i].seen \in 1..now'
        BY <3>1 DEF d
      <4> QED BY <2>3, <4>1, LastOf
    <3>3. LastScan' = Max({0} \cup {d[i].seen : i \in DOMAIN d})
      BY DEF LastScan
    <3> QED BY <2>3, <3>2, <3>3
  <2>5. sighted' \in Nat /\ sighted' <= sighted /\ sighted' <= LastScan'
    <3> DEFINE l == LastScan'
    <3>1. {sighted, l} \in SUBSET Nat /\ {sighted, l} # {}
      BY <2>2, <2>4
    <3> HIDE DEF l
    <3>2. Min({sighted, l}) \in {sighted, l} /\ Min({sighted, l}) <= sighted /\ Min({sighted, l}) <= l
      BY <3>1, MinFacts
    <3>3. Min({sighted, l}) \in Nat
      BY <3>1, <3>2
    <3> QED BY <2>1, <3>2, <3>3 DEF l
  <2>6. \A q \in DOMAIN got : Shown(q, got[q])'
    <3> SUFFICES ASSUME NEW q \in DOMAIN got PROVE Shown(q, got[q])'
      OBVIOUS
    <3>1. Shown(q, got[q])
      BY <2>2 DEF Results
    <3>2. got'[q] \in Nat /\ got'[q] = got[q]
      BY <2>1, <3>1 DEF Shown
    <3> QED BY <2>1, <2>2, <2>5, <3>1, <3>2 DEF Shown
  <2>7. ASSUME calm' PROVE calm /\ \A q, t : Query(q, t)' = Query(q, t)
    <3>1. calm /\ UNCHANGED <<devices, events, now>>
      BY <2>1, <2>7
    <3> QED BY <3>1 DEF Query, Count, WithSeverity, EventsOf, LastScan
  <2>8. ASSUME calm', NEW q \in DOMAIN got PROVE got'[q] = Query(q, now)'
    <3>1. got[q] = Query(q, now) /\ now' = now
      BY <2>1, <2>2, <2>7, <2>8 DEF Results
    <3> QED BY <2>1, <2>7, <2>8, <3>1
  <2>9. "now" \in DOMAIN got => got["now"] \in Nat /\ got["now"] <= now'
    BY <2>2, <2>3 DEF Results
  <2>10. Results(got)'
    BY <2>1, <2>2, <2>6, <2>8, <2>9 DEF Results
  <2>11. Reading'
    BY <2>1, <2>5, <2>10 DEF Reading
  <2>12. Waiting \notin DOMAIN Rank
    BY DEF Waiting, Rank
  <2> QED BY <1>1, <2>1, <2>11, <2>12 DEF Reply, Answered
<1>2. CASE state # Waiting
  <2>1. state' = Nothing
    BY <1>2 DEF Meanwhile
  <2>2. Nothing \notin DOMAIN Rank /\ Nothing # Waiting
    BY DEF Nothing, Waiting, Rank
  <2> QED BY <2>1, <2>2 DEF Reading, Reply, Answered
<1> QED BY <1>1, <1>2

\* The invariant of the tables and that of the summary, together.
THEOREM SummaryKept == StateSpec => [](Base /\ Reading /\ Reply)
<1>1. StateInit => Base /\ Reading /\ Reply
  <2>1. /\ Nothing \notin DOMAIN Rank /\ Nothing # Waiting
    BY DEF Nothing, Waiting, Rank
  <2> QED BY <2>1, BaseStart DEF StateInit, Reading, Reply, Answered
<1>2. Base /\ Reading /\ Reply /\ [StateNext]_<<vars, summaryVars>> => (Base /\ Reading /\ Reply)'
  <2> SUFFICES ASSUME Base, Reading, Reply, [StateNext]_<<vars, summaryVars>>
               PROVE  (Base /\ Reading /\ Reply)'
    OBVIOUS
  <2>1. [Next]_vars
    BY DEF StateNext, BeginSummary, ReadNext
  <2>2. Base'
    BY <2>1, BaseStep
  <2>3. CASE Next /\ Meanwhile
    BY <2>2, <2>3, MeanwhileKeeps
  <2>4. CASE BeginSummary
    BY <2>2, <2>4, BeginKeeps
  <2>5. CASE ReadNext
    BY <2>2, <2>5, ReadKeeps
  <2>6. CASE UNCHANGED <<vars, summaryVars>>
    <3>1. UNCHANGED <<devices, events, now, got, state, calm, sighted, constant>>
      BY <2>6 DEF vars, eventVars, summaryVars
    <3>2. \A q, t : Query(q, t)' = Query(q, t)
      BY <3>1 DEF Query, Count, WithSeverity, EventsOf, LastScan
    <3>3. LastScan' = LastScan /\ Faults' = Faults
      BY <3>1 DEF LastScan, Faults, InNetwork, Happened, Count
    <3>4. Reading'
      BY <3>1, <3>2, <3>3 DEF Reading, Results, Shown
    <3>5. Snapshot' = Snapshot
      BY <3>1, <3>2 DEF Snapshot
    <3>6. StateOf(Snapshot)' = StateOf(Snapshot)
      BY <3>5 DEF StateOf, Reasons, Blind
    <3>7. Reply'
      BY <3>1, <3>6 DEF Reply, Answered, PersistentFaultShown, Recent, AsGraveAs
    <3> QED BY <2>2, <3>4, <3>7
  <2> QED BY <2>3, <2>4, <2>5, <2>6 DEF StateNext
<1> QED BY <1>1, <1>2, PTL DEF StateSpec

(***************************************************************************)
(* What the answers say.                                                   *)
(***************************************************************************)
\* The results of one moment against the faults of that moment.
LEMMA SnapshotFaults ==
  ASSUME Tables, Finite, Scanned
  PROVE  /\ \A f \in Faults : Rank[Deserved[f]] <= Rank[StateOf(Snapshot)]
         /\ \A s \in Reasons(Snapshot) : \E f \in Faults : Deserved[f] = s
<1>1. ~Blind(Snapshot)
  BY SnapshotBlind
<1>2. now \in Nat
  BY WindowAssumption DEF Tables
<1>3. \A q \in AllQueries : Snapshot[q] = Query(q, now) /\ Snapshot[q] \in Nat
  BY QueriesAre, QueryNat DEF Snapshot
<1>4. ASSUME NEW f \in Faults \cap Single PROVE Rank[Deserved[f]] <= Rank[StateOf(Snapshot)]
  <2>1. Query(Witness[f], now) \in Nat /\ Query(Witness[f], now) >= Least(f)
    BY <1>2, FaultCounted
  <2>2. Witness[f] \in AllQueries
    BY DEF Single, Deserved, Witness, AllQueries
  <2>3. \A q \in {"down", "down_gateways"} : Snapshot[q] \in Nat
    BY <1>3 DEF AllQueries
  <2> QED BY <1>1, <1>3, <2>1, <2>2, <2>3, FaultReason
<1>5. ASSUME "risk_vulnerable" \in Faults
      PROVE  Rank[Deserved["risk_vulnerable"]] <= Rank[StateOf(Snapshot)]
  <2>1. PICK i \in DOMAIN devices : Risk(devices[i].vulns) = "vulnerable"
    BY <1>5 DEF Faults, InNetwork
  <2>2. \A v \in devices[i].vulns : v.severity \in Severities
    BY DEF Tables, DeviceRow
  <2>3. PICK s \in {"high", "medium"} : RowsWith(s) # {}
    BY <2>1, <2>2, RiskFacts DEF RowsWith
  <2>4. s \in Faults \cap Single
    BY <2>3, SingleFaults DEF Single, Deserved
  <2>5. Rank[Deserved[s]] <= Rank[StateOf(Snapshot)]
    BY <1>4, <2>4
  <2>6. Rank[Deserved["risk_vulnerable"]] = 2 /\ Rank[Deserved[s]] \in {2, 3}
    BY DEF Rank, Deserved
  <2>7. Rank[StateOf(Snapshot)] \in Nat
    BY StateOfFacts DEF Rank
  <2> QED BY <2>5, <2>6, <2>7
<1>6. \A f \in Faults : Rank[Deserved[f]] <= Rank[StateOf(Snapshot)]
  BY <1>4, <1>5 DEF Single, Faults
<1>7. ASSUME NEW s \in Reasons(Snapshot) PROVE \E f \in Faults : Deserved[f] = s
  <2>1. ASSUME NEW f \in {"high", "medium"}, Snapshot[f] > 0 PROVE f \in Faults
    <3>1. Cardinality(RowsWith(f)) > 0
      BY <1>3, <2>1, QueryIs DEF AllQueries
    <3>2. RowsWith(f) # {}
      BY <3>1, Counted DEF RowsWith
    <3> QED BY <3>2, SingleFaults DEF Single, Deserved
  <2>2. ASSUME NEW f \in {"arp_spoof", "outbound_suspicious", "port_scan", "new_open_port"},
               Snapshot[f] > 0
        PROVE  f \in Faults
    <3>1. EventsAt(f, now) # {}
      BY <1>3, <2>2, QueryIs, EventsCounted DEF AllQueries
    <3> QED BY <3>1, SingleFaults DEF Single, Deserved
  <2>3. Snapshot["down_gateways"] > 0 => "gateway" \in Faults
    <3>1. Snapshot["down_gateways"] > 0 => DownGateways # {}
      BY <1>3, QueryIs, Counted DEF AllQueries, DownGateways
    <3> QED BY <3>1, SingleFaults DEF Single, Deserved
  <2>4. Snapshot["critical"] > 0 => "risk_critical" \in Faults
    <3>1. ASSUME Snapshot["critical"] > 0 PROVE RowsWith("critical") # {}
      BY <1>3, <3>1, QueryIs, Counted DEF AllQueries, RowsWith
    <3>2. ASSUME NEW i \in RowsWith("critical") PROVE Risk(devices[i].vulns) = "critical"
      <4>1. \A v \in devices[i].vulns : v.severity \in Severities
        BY DEF Tables, DeviceRow, RowsWith
      <4> QED BY <4>1, RiskFacts DEF RowsWith
    <3>3. \A i \in RowsWith("critical") : i \in DOMAIN devices
      BY DEF RowsWith
    <3> QED BY <3>1, <3>2, <3>3, SingleFaults DEF Single, Deserved
  <2>5. Snapshot["recent_new"] >= SatDevices => "growth" \in Faults
    BY <1>3, QueryIs, SingleFaults DEF AllQueries, Single, Deserved
  <2>6. Snapshot["down"] > Snapshot["down_gateways"] => "host" \in Faults
    <3>1. Snapshot["down"] = Cardinality(DownRows) /\ Snapshot["down_gateways"] = Cardinality(DownGateways)
      BY <1>3, QueryIs DEF AllQueries
    <3>2. DownRows = DownGateways => ~(Cardinality(DownRows) > Cardinality(DownGateways))
      BY Counted DEF DownRows
    <3>3. DownRows # DownGateways => \E i \in DownRows : ~devices[i].gateway
      BY DEF DownRows, DownGateways
    <3> QED BY <3>1, <3>2, <3>3, SingleFaults DEF Single, Deserved
  <2>7. Snapshot["new_last_window"] > 0 => "new_device" \in Faults
    <3>1. Snapshot["new_last_window"] > 0 => NewRowsAt(NewWindow, now) # {}
      BY <1>3, QueryIs, Counted DEF AllQueries, NewRowsAt
    <3> QED BY <3>1, SingleFaults DEF Single, Deserved
  <2>8. s \in {"critique", "sature", "alarme", "surveille"}
    BY <1>1, StateOfFacts DEF Reasons
  <2>9. CASE s = "critique"
    <3>1. \E q \in {"down_gateways", "critical", "arp_spoof", "outbound_suspicious"} : Snapshot[q] > 0
      BY <1>1, <1>7, <2>9 DEF Reasons
    <3> QED BY <2>2, <2>3, <2>4, <2>9, <3>1 DEF Deserved
  <2>10. CASE s = "sature"
    <3>1. Snapshot["recent_new"] >= SatDevices
      BY <1>1, <1>7, <2>10 DEF Reasons
    <3> QED BY <2>5, <2>10, <3>1 DEF Deserved
  <2>11. CASE s = "alarme"
    <3>1. Snapshot["down"] > Snapshot["down_gateways"] \/ \E q \in {"high", "port_scan"} : Snapshot[q] > 0
      BY <1>1, <1>7, <2>11 DEF Reasons
    <3> QED BY <2>1, <2>2, <2>6, <2>11, <3>1 DEF Deserved
  <2>12. CASE s = "surveille"
    <3>1. \E q \in {"medium", "new_open_port", "new_last_window"} : Snapshot[q] > 0
      BY <1>1, <1>7, <2>12 DEF Reasons
    <3> QED BY <2>1, <2>2, <2>7, <2>12, <3>1 DEF Deserved
  <2> QED BY <2>8, <2>9, <2>10, <2>11, <2>12
<1> QED BY <1>6, <1>7

\* A summary during which nothing changed is right, whatever was committed before it and
\* whoever was refused (get_summary, _build_reasons, enrich_devices).
THEOREM CalmSummaryRight == StateSpec => []SummaryExact
<1>1. Base /\ Reading /\ Reply => SummaryExact
  <2> SUFFICES ASSUME Base, Reply, Answered, calm
               PROVE  IF ~Scanned THEN state = "indisponible"
                      ELSE /\ state \in {Deserved[f] : f \in Faults} \cup {"sain"}
                           /\ AsGraveAs(state, Faults)
    BY DEF SummaryExact
  <2>1. state = StateOf(Snapshot) /\ Tables /\ Finite
    BY DEF Reply, Base, Inventory
  <2>2. CASE ~Scanned
    BY <2>1, <2>2, SnapshotBlind, StateOfFacts
  <2>3. CASE Scanned
    BY <2>1, <2>3, SnapshotFaults, StateOfFacts DEF AsGraveAs
  <2> QED BY <2>2, <2>3
<1> QED BY <1>1, SummaryKept, PTL

\* A fault that was there from the first query to the last is not understated, whatever
\* was committed between the queries (get_summary, _build_reasons).
THEOREM LastingFaultShown == StateSpec => []PersistentFaultShown
<1>1. Base /\ Reading /\ Reply => PersistentFaultShown
  BY DEF Reply, PersistentFaultShown
<1> QED BY <1>1, SummaryKept, PTL

\* A batch with a suspicious flow makes the summaries after it critical, although
\* deduplication may have dropped its event (ingest_flows, get_summary).
THEOREM SuspiciousFlowCritical == StateSpec => []SuspiciousFlowShown
<1>1. Base /\ Reading /\ Reply => SuspiciousFlowShown
  <2> SUFFICES ASSUME Base, Reply, Answered, calm, Scanned,
                      NEW r \in Requests, tx[r].kind = "flows", tx[r].pc = "done",
                      Recent(tx[r].start, EventWindow - DedupWindow, now),
                      NEW f \in tx[r].body, FlowSeverity(f, EmbeddedIps) # {}
               PROVE  state = "critique"
    BY DEF SuspiciousFlowShown
  <2>1. state = StateOf(Snapshot) /\ Tables /\ Finite /\ Inv
    BY DEF Reply, Base, Inventory
  <2>2. PICK e \in events : Tells(e, f, tx[r].start)
    BY <2>1, InvFlows DEF FlowsOnRecord, TellOf
  <2>3. /\ now \in Nat /\ tx[r].start \in Nat /\ e.at \in Nat
        /\ EventWindow \in Nat /\ DedupWindow \in Nat
    BY <2>1, WindowAssumption, SummaryAssumption DEF Inv, Basic, Tables
  <2>4. e.kind = "outbound_suspicious" /\ e.at + EventWindow >= now
    BY <2>2, <2>3 DEF Tells, WithinWindow, Recent
  <2>5. EventsAt("outbound_suspicious", now) # {}
    BY <2>4 DEF EventsAt
  <2>6. "outbound_suspicious" \in Faults
    BY <2>5, SingleFaults DEF Single, Deserved
  <2>7. Rank[Deserved["outbound_suspicious"]] <= Rank[StateOf(Snapshot)]
    BY <2>1, <2>6, SnapshotFaults
  <2>8. \A s \in DOMAIN Rank : 5 <= Rank[s] => s = "critique"
    BY DEF Rank
  <2>9. Deserved["outbound_suspicious"] = "critique" /\ Rank["critique"] = 5
    BY DEF Deserved, Rank
  <2> QED BY <2>1, <2>7, <2>8, <2>9 DEF Answered
<1> QED BY <1>1, SummaryKept, PTL

\* After a recent scan that found a device and that no scan overlapped, the network is not
\* said to be unavailable (last_seen_at of ingest_scan, get_summary).
THEOREM BlindMeansNothingFound == StateSpec => []BlindOnlyIfNothingAnswered
<1>1. Base /\ Reading /\ Reply => BlindOnlyIfNothingAnswered
  <2> SUFFICES ASSUME Base, Reply, Answered, calm, state = "indisponible",
                      NEW r \in Range(commits), Recent(tx[r].start, StaleAfter, now), Quiet(r),
                      DOMAIN tx[r].body # {}
               PROVE  FALSE
    BY DEF BlindOnlyIfNothingAnswered
  <2>1. state = StateOf(Snapshot) /\ Tables /\ Finite
    BY DEF Reply, Base, Inventory
  <2>2. ~Scanned
    BY <2>1, SnapshotBlind, StateOfFacts
  <2>3. PICK i \in DOMAIN devices : tx[r].start <= devices[i].seen
    BY DEF Base, Fresh
  <2>4. /\ now \in Nat /\ StaleAfter \in Nat /\ devices[i].seen \in Nat /\ tx[r].start \in Nat
    <3>1. r \in Requests
      BY <2>1 DEF Tables, Range
    <3> QED BY <2>1, <3>1, WindowAssumption, WindowsAreNaturals DEF Tables, DeviceRow, Base, Inv, Basic
  <2>5. devices[i].seen + StaleAfter >= now
    BY <2>3, <2>4 DEF Recent
  <2> QED BY <2>2, <2>5 DEF Scanned, InNetwork, Recent
<1> QED BY <1>1, SummaryKept, PTL
=============================================================================
