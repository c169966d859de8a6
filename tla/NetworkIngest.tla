---------------------------- MODULE NetworkIngest ----------------------------
(***************************************************************************)
(* The requests of one agent that write the network tables                 *)
(* (services/network.py): scans, flows and IDS alerts, each one            *)
(* transaction at READ COMMITTED.                                          *)
(*                                                                         *)
(* The agent gives a scan up after 15 s and may start over while the API   *)
(* still works on it, so requests overlap.  What keeps them apart is the   *)
(* row locks of the UPDATEs (every known device of the scan has its        *)
(* last_seen_at written) and the unique constraint on the MAC.  The ORM    *)
(* writes only the columns whose value differs from what the request       *)
(* loaded.                                                                 *)
(*                                                                         *)
(* A device is identified by its key: its MAC, or its IP when it has none. *)
(* A scan is a function from the addresses that answered to                *)
(* [mac, gateway, ports, ifs]; the agent lists them by address.            *)
(***************************************************************************)
EXTENDS NetworkEvents, Sequences, SequencesExt

CONSTANTS
  Requests,    \* 1..N, in the order in which the agent sends them
  Overlap,     \* how many requests the API works on at once
  Macs, NoMac, \* the MAC addresses, and their absence
  Scans,       \* the scans the agent may send
  FlowSets,    \* the sets of flows it may send
  IdsBatches   \* the batches of the IDS forwarder

VARIABLES
  devices,   \* the committed rows: a function from ids, ports, findings and interfaces included
  nextId,    \* the sequence of ids
  tx,        \* the requests, see Idle
  commits,   \* history: the scans committed, in order
  overlaps   \* history: the pairs of requests that were in progress together

vars == <<eventVars, devices, nextId, tx, commits, overlaps>>

ASSUME RequestAssumption == Requests = 1..Cardinality(Requests)
\* An address is a number; what the scan reports of it.
ASSUME MacAssumption == NoMac \notin Macs /\ \A m \in Macs : m \notin Nat
ASSUME ScanAssumption ==
  \A scan \in Scans :
    /\ IsFiniteSet(DOMAIN scan) /\ DOMAIN scan \subseteq Nat
    /\ \A ip \in DOMAIN scan : /\ scan[ip].mac \in Macs \cup {NoMac} /\ scan[ip].gateway \in BOOLEAN
                             /\ IsFiniteSet(scan[ip].ports)
\* A request is a finite list.
ASSUME BatchAssumption ==
  /\ \A flows \in FlowSets : IsFiniteSet(flows)
  /\ \A batch \in IdsBatches : IsFiniteSet(DOMAIN batch)

Busy == {"flush", "mark"}
Ended == {"done", "refused", "crashed"}

\* pc: waiting for the locks of its flush, then for those of the rows it marks down.
\* kind and body: what the agent sent.
\* rowOf: the row of each key of the scan; todo: the rows and new MACs still to lock;
\* rows, down, events: what the commit will write.
Idle == [pc |-> "idle", kind |-> "none", body |-> <<>>, start |-> 0, loaded |-> <<>>, rowOf |-> <<>>,
         todo |-> {}, held |-> {}, rows |-> <<>>, down |-> {}, events |-> {}]

Active == {r \in Requests : tx[r].pc \in Busy}

Key(scan, ip) == IF scan[ip].mac = NoMac THEN ip ELSE scan[ip].mac

Keys(scan) == {Key(scan, ip) : ip \in DOMAIN scan}

\* The addresses of a key: more than one when several claim one MAC.
Addresses(scan, k) == {ip \in DOMAIN scan : Key(scan, ip) = k}

(***************************************************************************)
(* A request starts: the agent is authenticated and the body accepted.     *)
(***************************************************************************)
Start(r, t) ==
  /\ tx[r].pc = "idle"
  /\ \A q \in 1..(r - 1) : tx[q].pc # "idle"
  /\ Cardinality(Active) < Overlap
  /\ tx' = [tx EXCEPT ![r] = t]
  /\ overlaps' = overlaps \cup {{q, r} : q \in Active}
  /\ UNCHANGED <<eventVars, devices, nextId, commits>>

\* The SELECT of ingest_scan, and the match of its rows with the scan.  Of several
\* rows with one IP and no MAC, by_ip keeps any.
StartScan(r) ==
  \E scan \in Scans :
    LET known  == Keys(scan) \cap {devices[i].key : i \in DOMAIN devices}
        newMac == (Keys(scan) \ known) \cap Macs
    IN  \E rowOf \in [known -> DOMAIN devices] :
          /\ \A k \in known : devices[rowOf[k]].key = k
          /\ Start(r, [Idle EXCEPT !.pc = "flush", !.kind = "scan", !.body = scan,
                                   !.start = now, !.loaded = devices, !.rowOf = rowOf,
                                   !.todo = Range(rowOf) \cup newMac])

\* Flows and IDS alerts only read and insert events.
StartFlows(r) ==
  \E flows \in FlowSets, redisUp \in BOOLEAN :
    Start(r, [Idle EXCEPT !.pc = "mark", !.kind = "flows", !.body = flows, !.start = now,
                          !.events = FlowEvents(r, flows, LoadBlocklist(redisUp))])

StartIds(r) ==
  \E batch \in IdsBatches :
    Start(r, [Idle EXCEPT !.pc = "mark", !.kind = "ids", !.body = batch, !.start = now,
                          !.events = IdsEvents(r, batch)])

(***************************************************************************)
(* The locks, one statement after the other.                               *)
(***************************************************************************)
\* The next lock: the rows by id, then the new MACs in the order of the scan.
NextLock(r) ==
  LET rows == tx[r].todo \cap Nat
      first(m) == Min(Addresses(tx[r].body, m))
  IN  IF rows # {} THEN Min(rows)
      ELSE CHOOSE m \in tx[r].todo : \A n \in tx[r].todo : first(m) <= first(n)

Holders(x) == {q \in Requests : x \in tx[q].held}

\* Mutant of Taken: without the unique constraint.
Unconstrained(x) == x \in Macs /\ FALSE

\* A row with this MAC was committed after the request's SELECT.
Taken(x) == x \in Macs /\ \E i \in DOMAIN devices : devices[i].key = x

Acquire(r) ==
  /\ tx[r].todo # {}
  /\ LET x == NextLock(r)
     IN  /\ Holders(x) = {}
         /\ ~Taken(x)
         /\ tx' = [tx EXCEPT ![r].held = @ \cup {x}, ![r].todo = @ \ {x}]
  /\ UNCHANGED <<eventVars, devices, nextId, commits, overlaps>>

\* Mutant of RollBack: the error is handled and the transaction stays open with its locks.
RollBackKeepingLocks(r, how) ==
  /\ tx' = [tx EXCEPT ![r] = [Idle EXCEPT !.pc = how, !.held = tx[r].held]]
  /\ UNCHANGED <<eventVars, devices, nextId, commits, overlaps>>

\* A request that ends without a commit: everything it did is rolled back.
RollBack(r, how) ==
  /\ tx' = [tx EXCEPT ![r] = [Idle EXCEPT !.pc = how]]
  /\ UNCHANGED <<eventVars, devices, nextId, commits, overlaps>>

\* The unique constraint on (machine, mac).
IntegrityError(r) ==
  /\ tx[r].todo # {}
  /\ Taken(NextLock(r))
  /\ RollBack(r, "refused")

WaitsFor(r, q) == q # r /\ tx[r].todo # {} /\ q \in Holders(NextLock(r))

\* PostgreSQL breaks a cycle of waiting requests by failing one of them.
DeadlockVictim(r) ==
  /\ \E C \in SUBSET Active : r \in C /\ \A p \in C : \E q \in C : WaitsFor(p, q)
  /\ RollBack(r, "refused")

\* The worker dies, or a statement fails.
Crash(r) == r \in Active /\ RollBack(r, "crashed")

(***************************************************************************)
(* The flush is done: ports, findings, interfaces and events.              *)
(***************************************************************************)
\* An attribute is written only when its value differs from the loaded one.
Assign(loaded, new, stored) == IF new # loaded THEN new ELSE stored

\* The row of a device as the flush leaves it; the last address of its key counts.
Flushed(r, k) ==
  LET scan == tx[r].body
      ip == Max(Addresses(scan, k))
      was == tx[r].loaded[tx[r].rowOf[k]]
      is  == devices[tx[r].rowOf[k]]
  IN  IF k \in DOMAIN tx[r].rowOf
      THEN [is EXCEPT !.ip = Assign(was.ip, ip, @), !.status = Assign(was.status, "up", @),
                      !.gateway = Assign(was.gateway, scan[ip].gateway, @), !.seen = tx[r].start]
      ELSE [key |-> k, ip |-> ip, status |-> "up", gateway |-> scan[ip].gateway,
            first |-> tx[r].start, seen |-> tx[r].start, ports |-> {}, vulns |-> {}, ifs |-> {}]

\* Mutant of HadBaseline: the baseline is what the scan knows.
KnowsSomeDevice(r) == DOMAIN tx[r].rowOf # {}

\* Something was known before the scan.
HadBaseline(r) == DOMAIN tx[r].loaded # {}

\* Mutant of Details: the findings of earlier scans are kept.
DetailsAndOldFindings(row, scan, ips) ==
  LET ports == scan[Max(ips)].ports
      withIfs == {ip \in ips : scan[ip].ifs # {}}
  IN  [row EXCEPT !.ports = ports, !.vulns = @ \cup Evaluate(ports),
                  !.ifs = IF withIfs = {} THEN @ ELSE scan[Max(withIfs)].ifs]

\* A row after the delete and insert for each address of its device: the ports and findings
\* of the last, the interfaces of the last that has some.
Details(row, scan, ips) ==
  LET ports == scan[Max(ips)].ports
      withIfs == {ip \in ips : scan[ip].ifs # {}}
  IN  [row EXCEPT !.ports = ports, !.vulns = Evaluate(ports),
                  !.ifs = IF withIfs = {} THEN @ ELSE scan[Max(withIfs)].ifs]

\* The ports that _sync_ports_and_vulns finds stored when it comes to an address: the rows
\* are those of this transaction, so a second address finds the ports of the first.
StoredPorts(r, ip) ==
  LET scan == tx[r].body
      k == Key(scan, ip)
      earlier == {j \in Addresses(scan, k) : j < ip}
  IN  IF earlier = {} THEN Flushed(r, k).ports ELSE scan[Max(earlier)].ports

\* new_device for the first address of a new device, new_open_port for the others: what is
\* announced when something was known before.
Announced(r, rowOf) ==
  LET scan == tx[r].body
      new == Keys(scan) \ DOMAIN tx[r].rowOf
      known == {ip \in DOMAIN scan : \/ Key(scan, ip) \notin new
                                     \/ \E j \in Addresses(scan, Key(scan, ip)) : j < ip}
      opened(ip) == {p.port : p \in scan[ip].ports} \ {p.port : p \in StoredPorts(r, ip)}
      portEvent(ip, p) ==
        LET k == Key(scan, ip)
        IN  Event(r, "new_open_port", IF p \in SensitivePorts THEN "medium" ELSE "low",
                  rowOf[k], Max(Addresses(scan, k)), p, tx[r].start)
  IN  IF ~HadBaseline(r) THEN {}
      ELSE {Event(r, "new_device", "low", rowOf[k], None, None, tx[r].start) : k \in new}
             \cup UNION {{portEvent(ip, p) : p \in opened(ip)} : ip \in known}

\* The MACs that several addresses claim; deduplication sees one key for all of them,
\* so the first in the order of the scan is reported and the others are not.
ArpEvents(r) ==
  LET scan == tx[r].body
      claimed == {m \in Macs : Cardinality(Addresses(scan, m)) > 1}
      reported == {m \in claimed : \A n \in claimed :
                     Min(Addresses(scan, m)) <= Min(Addresses(scan, n))}
      found == {Event(r, "arp_spoof", "high", m, None, None, tx[r].start) : m \in reported}
  IN  {e \in found : ~Known(events, e, now)}

\* Mutant of NewRows: the sequence is off by one.
NewRowsOffByOne(r) == [k \in Keys(tx[r].body) \ DOMAIN tx[r].rowOf |-> nextId + 1]

\* The ids of the rows that the flush inserts, in the order of the scan.
NewRows(r) ==
  LET scan == tx[r].body
      new == Keys(scan) \ DOMAIN tx[r].rowOf
      first(k) == Min(Addresses(scan, k))
  IN  [k \in new |-> nextId + Cardinality({l \in new : first(l) < first(k)})]

\* The row of every key of the scan, found or inserted.
RowOf(r) ==
  [k \in Keys(tx[r].body) |-> IF k \in DOMAIN tx[r].rowOf THEN tx[r].rowOf[k] ELSE NewRows(r)[k]]

\* The rows of the scan as the commit will leave them.
Synced(r, rowOf) ==
  LET row(k) == Details(Flushed(r, k), tx[r].body, Addresses(tx[r].body, k))
  IN  [i \in Range(rowOf) |-> row(CHOOSE k \in DOMAIN rowOf : rowOf[k] = i)]

\* Mutant of Absent: the comparison is the wrong way round.
AlreadyDown(r, seen) == {i \in DOMAIN tx[r].loaded \ seen : tx[r].loaded[i].status = "down"}

\* The known devices that the scan has not seen and that were not down when it began.
Absent(r, seen) == {i \in DOMAIN tx[r].loaded \ seen : tx[r].loaded[i].status # "down"}

\* Everything between the flush and the commit, with the absent devices, which the
\* commit will lock and write.
Sync(r) ==
  /\ tx[r].pc = "flush" /\ tx[r].todo = {}
  /\ \E rowOf \in {RowOf(r)} :
       LET absent == Absent(r, Range(rowOf))
       IN  tx' = [tx EXCEPT ![r].pc = "mark", ![r].rowOf = rowOf, ![r].rows = Synced(r, rowOf),
                            ![r].events = Announced(r, rowOf) \cup ArpEvents(r),
                            ![r].down = absent, ![r].todo = absent]
  /\ nextId' = nextId + Cardinality(Keys(tx[r].body) \ DOMAIN tx[r].rowOf)
  /\ UNCHANGED <<eventVars, devices, commits, overlaps>>

\* The commit.  What was sent, when and the rows touched are kept for the properties.
Commit(r) ==
  /\ tx[r].pc = "mark" /\ tx[r].todo = {}
  /\ devices' = [i \in DOMAIN devices \cup DOMAIN tx[r].rows |->
                   IF i \in DOMAIN tx[r].rows THEN tx[r].rows[i]
                   ELSE IF i \in tx[r].down THEN [devices[i] EXCEPT !.status = "down"]
                   ELSE devices[i]]
  /\ events' = events \cup tx[r].events
  /\ tx' = [tx EXCEPT ![r] = [Idle EXCEPT !.pc = "done", !.kind = tx[r].kind, !.body = tx[r].body,
                                          !.start = tx[r].start, !.rowOf = tx[r].rowOf]]
  /\ commits' = IF tx[r].kind = "scan" THEN Append(commits, r) ELSE commits
  /\ UNCHANGED <<now, feed, nextId, overlaps>>

Step(r) == \/ Acquire(r) \/ IntegrityError(r) \/ DeadlockVictim(r) \/ Sync(r) \/ Commit(r)

Others == UNCHANGED <<devices, nextId, tx, commits, overlaps>>

\* Everything but crashes.
Serve ==
  \/ \E r \in Requests : StartScan(r) \/ StartFlows(r) \/ StartIds(r) \/ Step(r)
  \/ Tick /\ Others

Next == Serve \/ \E r \in Requests : Crash(r)

Init ==
  /\ EventInit
  /\ devices = <<>> /\ nextId = 1
  /\ tx = [r \in Requests |-> Idle]
  /\ commits = <<>> /\ overlaps = {}

Spec == Init /\ [][Next]_vars

\* The database answers every statement that need not wait, and looks for deadlocks.
FairSpec == Spec /\ \A r \in Requests : WF_vars(Step(r))

(***************************************************************************)
(* Properties.                                                             *)
(***************************************************************************)
\* The tables and the requests hold what their columns admit; the ids come from the sequence.
TypeOK ==
  /\ now \in 1..MaxTime /\ nextId \in Nat \ {0}
  /\ DOMAIN devices \subseteq 1..(nextId - 1)
  /\ \A i \in DOMAIN devices :
       /\ devices[i].key \in Macs \cup Nat /\ devices[i].ip \in Nat
       /\ devices[i].status \in {"up", "down"} /\ devices[i].gateway \in BOOLEAN
       /\ {devices[i].first, devices[i].seen} \subseteq 1..now
       /\ \A v \in devices[i].vulns : v.severity \in Severities
  /\ \A e \in events : e.of \in Requests /\ e.severity \in Severities /\ e.at \in 1..now
  /\ \A r \in Requests : tx[r].pc \in {"idle"} \cup Busy \cup Ended
  /\ Range(commits) \subseteq {r \in Requests : tx[r].pc = "done"}

Overlapped(q, r) == {q, r} \in overlaps

\* The commits that touched a row, by their places in commits.
CommitsOf(i) == {n \in DOMAIN commits : i \in Range(tx[commits[n]].rowOf)}
FirstSeenBy(i) == commits[Min(CommitsOf(i))]
LastSeenBy(i) == commits[Max(CommitsOf(i))]

\* The addresses of a device that show interfaces, and the commits of a row that saw some.
WithIfs(scan, k) == {ip \in Addresses(scan, k) : scan[ip].ifs # {}}
IfsCommitsOf(i) == {n \in CommitsOf(i) : WithIfs(tx[commits[n]].body, devices[i].key) # {}}

Quiet(r) == \A q \in Range(commits) : ~Overlapped(q, r)

\* A device of the network has one row: the MAC is unique, and two rows for one
\* address without a MAC come only from two first sightings in overlapping scans
\* (ingest_scan matches in memory, the database has nothing to refuse them by).
OneRowPerDevice ==
  \A i, j \in DOMAIN devices :
    i # j /\ devices[i].key = devices[j].key =>
      devices[i].key \notin Macs /\ Overlapped(FirstSeenBy(i), FirstSeenBy(j))

\* The ports, findings and interfaces of a row are those of one scan, the last
\* committed one that saw it, whatever overlapped: never a mixture of two scans
\* (the delete and insert of _sync_ports_and_vulns and _sync_interfaces).
DetailsOfLastScan ==
  \A i \in DOMAIN devices :
    LET k == devices[i].key
        last == tx[LastSeenBy(i)].body
        ports == last[Max(Addresses(last, k))].ports
        scan == tx[commits[Max(IfsCommitsOf(i))]].body
    IN  /\ devices[i].ports = ports
        /\ devices[i].vulns = Evaluate(ports)
        /\ devices[i].ifs = IF IfsCommitsOf(i) = {} THEN {} ELSE scan[Max(WithIfs(scan, k))].ifs

\* A scan that no other committed scan overlapped leaves the inventory exactly as it
\* saw the network, and so repairs whatever overlapping scans before it left wrong:
\* the devices it saw are up at the address it saw, every other one is down
\* (the upsert and mark-down of ingest_scan).
QuietScanExact ==
  commits # <<>> /\ Quiet(Last(commits)) =>
    LET r == Last(commits)
        scan == tx[r].body
    IN  /\ \A k \in Keys(scan) : tx[r].rowOf[k] \in DOMAIN devices
        /\ \A i \in DOMAIN devices :
             IF i \in Range(tx[r].rowOf)
             THEN LET ip == Max(Addresses(scan, devices[i].key))
                  IN  /\ devices[i].status = "up" /\ devices[i].ip = ip
                      /\ devices[i].gateway = scan[ip].gateway /\ devices[i].seen = tx[r].start
             ELSE devices[i].status = "down"

\* What a commit adds to the network is announced: a port that a known device did
\* not have, always, and a new device of a known network unless another scan
\* overlapped, by an event of the same commit (new_open_port, new_device).
NothingAppearsSilently ==
  [][\A i \in DOMAIN devices' :
       LET fresh == events' \ events
       IN  IF i \in DOMAIN devices
           THEN \A p \in devices'[i].ports :
                  (\A q \in devices[i].ports : q.port # p.port) =>
                    \E e \in fresh : e.kind = "new_open_port" /\ e.about = i /\ e.port = p.port
           ELSE \/ devices = <<>> \/ ~Quiet(Last(commits))'
                \/ \E e \in fresh : e.kind = "new_device" /\ e.about = i]_vars

\* The event e is at most one window older than time t.
WithinWindow(e, t) == e.at <= t /\ t <= e.at + DedupWindow

\* The event e tells at time t of the flow f, or of a scan of the port p.
Tells(e, f, t) ==
  e.kind = "outbound_suspicious" /\ e.ip = f.ip /\ e.port = f.port /\ WithinWindow(e, t)

TellsScan(e, p, t) ==
  e.kind = "port_scan" /\ e.ip = None /\ e.port = p /\ WithinWindow(e, t)

\* Some rows tell at time t of what a batch of flows shows by itself: a destination of the
\* embedded list or on a C2 port, and many destinations on one port.
TellOf(rows, flows, t) ==
  \A f \in flows :
    /\ FlowSeverity(f, EmbeddedIps) # {} => \E e \in rows : Tells(e, f, t)
    /\ Cardinality(Targets(flows, f.port)) >= PortscanTargets =>
         \E e \in rows : TellsScan(e, f.port, t)

\* Once a batch of flows is answered, each of its destinations that the embedded list or
\* its port makes suspicious, and each port that it scans, is on record, at the latest one
\* window old; a destination that only the feed lists is not promised, for Redis may not
\* answer.  It is there once, unless two batches overlapped, for deduplication reads what
\* is committed (ingest_flows, record_event).
FlowsOnRecord ==
  /\ \A r \in Requests : tx[r].kind = "flows" /\ tx[r].pc = "done" =>
       TellOf(events, tx[r].body, tx[r].start)
  /\ \A e, f \in events :
       e.kind \in {"outbound_suspicious", "port_scan"} /\ SameKey(e, f) /\ e.of # f.of
         /\ e.at <= f.at /\ f.at <= e.at + DedupWindow => Overlapped(e.of, f.of)

\* Every request ends: waiting for each other's rows, two scans do not wait for ever.
ScansEnd == \A r \in Requests : tx[r].pc \in Busy ~> tx[r].pc \in Ended
=============================================================================
