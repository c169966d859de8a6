------------------------------ MODULE Alerting ------------------------------
(***************************************************************************)
(* The alert life cycle of the API: concurrent agent requests              *)
(* (POST /ingest/heartbeat, POST /ingest/metrics) and the scheduler's      *)
(* offline pass, all working through PostgreSQL transactions at READ       *)
(* COMMITTED on the tables machines, metrics and alerts.                   *)
(*                                                                         *)
(* Granularity.  One action per SQL statement that another transaction can *)
(* observe, wait for or overtake; what a session does between two          *)
(* statements is part of the statement that follows.  Time is kept as the  *)
(* age of machines.last_seen_at, saturating just past the offline limit,   *)
(* so the clock needs no bound.  Resolved alerts are forgotten: no         *)
(* statement of the services ever reads them again.                        *)
(***************************************************************************)
EXTENDS Naturals, FiniteSets, Sequences

CONSTANTS
  Machines,        \* rows of the table machines (already enrolled)
  Handlers,        \* requests the API can be serving at one time
  Schedulers,      \* scheduler processes (deployed with one)
  AlertIds,        \* primary keys of alerts that can be in use at one time
  NoTx,            \* "no transaction": the row is committed
  Null,            \* NULL: the last_seen_at of a machine never heard from
  Readings,        \* what a sample can exceed: sets of "cpu", "mem", "disk"
  MaxSamples,      \* bound: samples an agent takes
  MaxCrashes,      \* bound: requests or passes that fail half-way
  OfflineAfter,    \* settings.alert_offline_minutes
  ConsecutivePoints, \* settings.alert_cpu_consecutive_points
  AnomalyEnabled,  \* settings.anomaly_enabled
  Verdicts,        \* bound: the sets of anomalies evaluate() may report at once
  AnomalyMinRows   \* anomaly_min_samples + anomaly_consecutive_points

Tx == Handlers \cup Schedulers

ASSUME TxAssumption == Handlers \cap Schedulers = {} /\ NoTx \notin Tx
ASSUME SettingsAssumption ==
  /\ Null \notin Nat
  /\ OfflineAfter \in Nat
  /\ MaxSamples \in Nat
  /\ MaxCrashes \in Nat
  /\ ConsecutivePoints \in Nat \ {0}
  /\ AnomalyMinRows \in Nat \ {0}
  /\ AnomalyEnabled \in BOOLEAN
ASSUME ReadingsAssumption ==
  /\ Readings \subseteq SUBSET {"cpu", "mem", "disk"}
  /\ Verdicts \subseteq SUBSET {"cpu_anomaly", "mem_anomaly", "disk_anomaly"}

Statuses == {"unknown", "online", "offline"}
ThresholdTypes == {"cpu_high", "mem_high", "disk_full"}
AnomalyTypes == {"cpu_anomaly", "mem_anomaly", "disk_anomaly"}
AlertTypes == ThresholdTypes \cup AnomalyTypes \cup {"offline"}

VARIABLES
  machine,   \* committed row: [age, status]; age is Null before the first contact
  alerts,    \* open rows, inserted by a running transaction or committed
  taken,     \* samples each agent has measured, by time: what they exceed
  metrics,   \* times of the committed rows of the table metrics, per machine
  pc,        \* the statement each request is about to run
  req,       \* the request: machine, times of its samples, status read at auth
  high,      \* alert types whose condition held on the rows the request read
  dirty,     \* alerts marked resolved in the session, UPDATE not yet emitted
  flushed,   \* alerts whose UPDATE is emitted and not committed (row locked)
  silent,    \* machines a pass has selected and not yet processed
  marked,    \* machines a pass has updated to offline, uncommitted (row locked)
  opening,   \* the marked machine whose alert the pass has not yet inserted
  crashes,   \* failures so far
  alone,     \* history: no other request or pass touched the request's machine
  settled    \* history: what the last request of a machine left in order

tables   == <<machine, alerts, taken, metrics>>
requests == <<pc, req, high>>
passes   == <<silent, marked, opening>>
history  == <<alone, settled>>
vars == <<tables, requests, passes, dirty, flushed, crashes, history>>

NoRequest == [machine |-> NoTx, samples |-> {}, loaded |-> "unknown"]
Serving(h, m) == pc[h] # "idle" /\ req[h].machine = m
Passing(s, m) == m \in silent[s] \cup marked[s]
Ages == 0..(OfflineAfter + 1) \cup {Null}

AlertRows == [id : AlertIds, machine : Machines, type : AlertTypes, by : Tx \cup {NoTx}]
PCs == {"idle", "ingest", "read", "commit", "read_window", "commit_anomaly"} \cup AlertTypes

TypeOK ==
  /\ machine \in [Machines -> [age : Ages, status : Statuses]]
  /\ alerts \in SUBSET AlertRows
  /\ taken \in [Machines -> Seq(Readings)]
  /\ \A m \in Machines : Len(taken[m]) <= MaxSamples
  /\ metrics \in [Machines -> SUBSET (1..MaxSamples)]
  /\ pc \in [Handlers -> PCs]
  /\ req \in [Handlers -> [machine : Machines, samples : SUBSET (1..MaxSamples),
                           loaded : Statuses] \cup {NoRequest}]
  /\ \A h \in Handlers : pc[h] # "idle" => req[h].machine \in Machines
  /\ high \in [Handlers -> SUBSET AlertTypes]
  /\ dirty \in [Tx -> SUBSET AlertIds]
  /\ flushed \in [Tx -> SUBSET AlertIds]
  /\ silent \in [Schedulers -> SUBSET Machines]
  /\ marked \in [Schedulers -> SUBSET Machines]
  /\ opening \in [Schedulers -> SUBSET Machines]
  /\ crashes \in 0..MaxCrashes
  /\ alone \in [Handlers -> BOOLEAN]
  /\ settled \in [Machines -> SUBSET {"presence", "thresholds"}]

Init ==
  /\ machine = [m \in Machines |-> [age |-> Null, status |-> "unknown"]]
  /\ alerts = {}
  /\ taken = [m \in Machines |-> <<>>]
  /\ metrics = [m \in Machines |-> {}]
  /\ pc = [h \in Handlers |-> "idle"]
  /\ req = [h \in Handlers |-> NoRequest]
  /\ high = [h \in Handlers |-> {}]
  /\ dirty = [x \in Tx |-> {}]
  /\ flushed = [x \in Tx |-> {}]
  /\ silent = [s \in Schedulers |-> {}]
  /\ marked = [s \in Schedulers |-> {}]
  /\ opening = [s \in Schedulers |-> {}]
  /\ crashes = 0
  /\ alone = [h \in Handlers |-> FALSE]
  /\ settled = [m \in Machines |-> {}]

-----------------------------------------------------------------------------
(* What PostgreSQL does with the alerts table.                             *)

RowsOf(m, t) == {r \in alerts : r.machine = m /\ r.type = t}

\* The rows a SELECT ... WHERE status = 'open' of transaction x returns.
VisibleTo(x, m, t) == {r \in RowsOf(m, t) : r.by \in {NoTx, x} /\ r.id \notin flushed[x]}

\* Mutant of InsertWaits: there is no unique index to wait for.
NeverWaits(x, m, t) == FALSE

\* An INSERT waits while another transaction has inserted or is resolving the row.
InsertWaits(x, m, t) ==
  \E r \in RowsOf(m, t) : \/ r.by \notin {NoTx, x}
                          \/ \E y \in Tx \ {x} : r.id \in flushed[y]

UsedIds == {r.id : r \in alerts} \cup UNION {dirty[x] \cup flushed[x] : x \in Tx}
FreshId == CHOOSE i \in AlertIds : i \notin UsedIds

\* INSERT ... ON CONFLICT (machine_id, type) WHERE status = 'open' DO NOTHING
InsertOpen(x, m, t) ==
  /\ ~InsertWaits(x, m, t)
  /\ IF VisibleTo(x, m, t) # {}
     THEN UNCHANGED alerts
     ELSE /\ AlertIds \ UsedIds # {}
          /\ alerts' = alerts \cup {[id |-> FreshId, machine |-> m, type |-> t, by |-> x]}

\* Mutant of ReleaseLocks: the row locks outlive the transaction.
KeepLocks(x) == UNCHANGED flushed

ReleaseLocks(x) == flushed' = [flushed EXCEPT ![x] = {}]

\* COMMIT publishes the rows x inserted and closes those whose UPDATE it emitted.
CommitAlerts(x) ==
  /\ alerts' = {[r EXCEPT !.by = IF @ = x THEN NoTx ELSE @] :
                   r \in {q \in alerts : q.id \notin flushed[x]}}
  /\ ReleaseLocks(x)

RollbackAlerts(x) ==
  /\ alerts' = {r \in alerts : r.by # x}
  /\ ReleaseLocks(x)
  /\ dirty' = [dirty EXCEPT ![x] = {}]

-----------------------------------------------------------------------------
(* The agents and the clock.                                               *)

TakeSample(m) ==
  /\ Len(taken[m]) < MaxSamples
  /\ \E reading \in Readings : taken' = [taken EXCEPT ![m] = Append(@, reading)]
  /\ UNCHANGED <<machine, alerts, metrics, requests, passes, dirty, flushed, crashes, history>>

Tick ==
  /\ machine' = [m \in Machines |->
                   [machine[m] EXCEPT !.age = IF @ = Null \/ @ = OfflineAfter + 1
                                              THEN @ ELSE @ + 1]]
  /\ machine' # machine
  /\ UNCHANGED <<alerts, taken, metrics, requests, passes, dirty, flushed, crashes, history>>

-----------------------------------------------------------------------------
(* A request: POST /ingest/heartbeat (no samples) or POST /ingest/metrics. *)

\* Mutant of Batches: the first index of a batch is off by one.
BatchesFromZero(m) == {first..last : first, last \in 0..Len(taken[m])}

\* A batch is a run of consecutive samples: the agent's queue and the new one,
\* or a late copy of an earlier batch (the agent gives up after 15 s and resends).
Batches(m) == {first..last : first, last \in 1..Len(taken[m])}

\* get_current_agent: the session loads the machine, with its status of now.
Authenticate(h, m) ==
  /\ pc[h] = "idle"
  /\ \E batch \in Batches(m) \cup {{}} :
       /\ req' = [req EXCEPT ![h] = [machine |-> m, samples |-> batch,
                                     loaded |-> machine[m].status]]
       /\ settled' = [settled EXCEPT ![m] = IF batch = {} THEN @ \ {"presence"} ELSE {}]
  /\ pc' = [pc EXCEPT ![h] = "ingest"]
  /\ alone' = [g \in Handlers |->
                 IF g = h THEN /\ \A k \in Handlers : ~Serving(k, m)
                               /\ \A s \in Schedulers : ~Passing(s, m)
                          ELSE alone[g] /\ ~Serving(g, m)]
  /\ UNCHANGED <<tables, high, passes, dirty, flushed, crashes>>

\* Mutant of StatusAfterContact: the contact refreshes last_seen_at only.
StatusKept(h) == machine[req[h].machine].status

\* The status column is written only when the loaded value differs.
StatusAfterContact(h) ==
  IF req[h].loaded = "online" THEN machine[req[h].machine].status ELSE "online"

\* ingest_metrics / record_heartbeat: one transaction.  The UPDATE waits for the
\* lock of a running pass.
Ingest(h) ==
  LET m == req[h].machine IN
  /\ pc[h] = "ingest"
  /\ \A s \in Schedulers : m \notin marked[s]
  /\ metrics' = [metrics EXCEPT ![m] = @ \cup req[h].samples]
  /\ machine' = [machine EXCEPT ![m] = [age |-> 0, status |-> StatusAfterContact(h)]]
  /\ pc' = [pc EXCEPT ![h] = IF req[h].samples = {} THEN "offline" ELSE "read"]
  /\ UNCHANGED <<alerts, taken, req, high, passes, dirty, flushed, crashes, history>>

\* The n most recent rows of a machine: ORDER BY time DESC LIMIT n.
Newest(rows, n) == {i \in rows : Cardinality({j \in rows : j > i}) < n}

\* The verdict of check_threshold_alerts on the rows it has read.
HighOn(m, rows) ==
  LET exceeded(what, n) == \A i \in Newest(rows, n) : what \in taken[m][i] IN
  {t \in ThresholdTypes :
     \/ t = "cpu_high" /\ Cardinality(rows) >= ConsecutivePoints
                       /\ exceeded("cpu", ConsecutivePoints)
     \/ t = "mem_high" /\ exceeded("mem", 1)
     \/ t = "disk_full" /\ exceeded("disk", 1)}

\* Mutant of RowsRead: the rules look at the batch received, not at the table.
BatchOnly(h) == req[h].samples

RowsRead(h) == metrics[req[h].machine]

\* The SELECT of check_threshold_alerts (never empty: the batch is stored).
ReadMetrics(h) ==
  /\ pc[h] = "read"
  /\ high' = [high EXCEPT ![h] = HighOn(req[h].machine, RowsRead(h))]
  /\ pc' = [pc EXCEPT ![h] = "cpu_high"]
  /\ UNCHANGED <<tables, req, passes, dirty, flushed, crashes, history>>

\* The order in which a request visits the alert types.
AfterRule == [cpu_high |-> "mem_high", mem_high |-> "disk_full", disk_full |-> "offline",
              offline |-> "commit", cpu_anomaly |-> "mem_anomaly",
              mem_anomaly |-> "disk_anomaly", disk_anomaly |-> "commit_anomaly"]

\* Autoflush before a statement or a commit: UPDATE alerts ... WHERE id = ...
\* It waits while another transaction has updated the same row.
Flush(h) ==
  /\ dirty[h] # {}
  /\ \A y \in Tx \ {h} : dirty[h] \cap flushed[y] = {}
  /\ flushed' = [flushed EXCEPT ![h] = @ \cup dirty[h]]
  /\ dirty' = [dirty EXCEPT ![h] = {}]
  /\ UNCHANGED <<tables, requests, passes, crashes, history>>

\* open_alert for a rule whose condition held.
OpenAlert(h) ==
  /\ pc[h] \in high[h]
  /\ dirty[h] = {}
  /\ InsertOpen(h, req[h].machine, pc[h])
  /\ high' = [high EXCEPT ![h] = @ \ {pc[h]}]
  /\ pc' = [pc EXCEPT ![h] = AfterRule[@]]
  /\ UNCHANGED <<machine, taken, metrics, req, passes, dirty, flushed, crashes, history>>

\* Mutant of FoundOpen: no query when the machine was not offline at auth.
FoundIfLoadedOffline(h) ==
  IF pc[h] = "offline" /\ req[h].loaded # "offline" THEN {}
  ELSE {r.id : r \in VisibleTo(h, req[h].machine, pc[h])}

FoundOpen(h) == {r.id : r \in VisibleTo(h, req[h].machine, pc[h])}

\* resolve_alert for a rule whose condition did not hold, and for "offline".
ResolveAlert(h) ==
  /\ pc[h] \in AlertTypes \ high[h]
  /\ dirty[h] = {}
  /\ dirty' = [dirty EXCEPT ![h] = FoundOpen(h)]
  /\ pc' = [pc EXCEPT ![h] = AfterRule[@]]
  /\ UNCHANGED <<tables, req, high, passes, flushed, crashes, history>>

\* The response is sent: the session is closed.
Respond(h) ==
  LET m == req[h].machine IN
  /\ pc' = [pc EXCEPT ![h] = "idle"]
  /\ req' = [req EXCEPT ![h] = NoRequest]
  /\ high' = [high EXCEPT ![h] = {}]
  /\ alone' = [alone EXCEPT ![h] = FALSE]
  /\ settled' = [settled EXCEPT ![m] =
                   IF ~alone[h] THEN @
                   ELSE @ \cup {"presence"}
                          \cup (IF req[h].samples = {} THEN {} ELSE {"thresholds"})]

\* The commit that ends check_threshold_alerts or resolve_offline_if_needed.
Commit(h) ==
  /\ pc[h] = "commit"
  /\ dirty[h] = {}
  /\ CommitAlerts(h)
  /\ IF AnomalyEnabled /\ req[h].samples # {}
     THEN /\ pc' = [pc EXCEPT ![h] = "read_window"]
          /\ high' = [high EXCEPT ![h] = {}]
          /\ UNCHANGED <<req, history>>
     ELSE Respond(h)
  /\ UNCHANGED <<machine, taken, metrics, passes, dirty, crashes>>

\* check_anomalies: any verdict per metric (its statistics are AnomalyDetection's).
CheckAnomalies(h) ==
  /\ pc[h] = "read_window"
  /\ IF Cardinality(metrics[req[h].machine]) < AnomalyMinRows
     THEN Respond(h)
     ELSE /\ \E odd \in Verdicts : high' = [high EXCEPT ![h] = odd]
          /\ pc' = [pc EXCEPT ![h] = "cpu_anomaly"]
          /\ UNCHANGED <<req, history>>
  /\ UNCHANGED <<tables, passes, dirty, flushed, crashes>>

CommitAnomalies(h) ==
  /\ pc[h] = "commit_anomaly"
  /\ dirty[h] = {}
  /\ CommitAlerts(h)
  /\ Respond(h)
  /\ UNCHANGED <<machine, taken, metrics, passes, dirty, crashes>>

\* A worker dies, loses its connection or a statement fails: the open
\* transaction is rolled back and the request is gone.
RequestFails(h) ==
  /\ pc[h] # "idle"
  /\ crashes < MaxCrashes
  /\ crashes' = crashes + 1
  /\ RollbackAlerts(h)
  /\ pc' = [pc EXCEPT ![h] = "idle"]
  /\ req' = [req EXCEPT ![h] = NoRequest]
  /\ high' = [high EXCEPT ![h] = {}]
  /\ alone' = [alone EXCEPT ![h] = FALSE]
  /\ UNCHANGED <<machine, taken, metrics, passes, settled>>

-----------------------------------------------------------------------------
(* The scheduler: check_offline_machines, one transaction per pass.        *)

IsSilent(m) == machine[m].age # Null /\ machine[m].age > OfflineAfter

SelectSilent(s) ==
  LET found == {m \in Machines : IsSilent(m) /\ machine[m].status # "offline"} IN
  /\ silent[s] = {} /\ marked[s] = {}
  /\ found # {}
  /\ silent' = [silent EXCEPT ![s] = found]
  /\ alone' = [h \in Handlers |-> alone[h] /\ \A m \in found : ~Serving(h, m)]
  /\ UNCHANGED <<tables, requests, marked, opening, dirty, flushed, crashes, settled>>

\* m.status = OFFLINE, emitted by the autoflush of the INSERT that follows:
\* an UPDATE by primary key that does not look at last_seen_at again.
MarkOffline(s, m) ==
  /\ opening[s] = {}
  /\ m \in silent[s]
  /\ \A r \in Schedulers \ {s} : m \notin marked[r]
  /\ silent' = [silent EXCEPT ![s] = @ \ {m}]
  /\ marked' = [marked EXCEPT ![s] = @ \cup {m}]
  /\ opening' = [opening EXCEPT ![s] = {m}]
  /\ UNCHANGED <<tables, requests, dirty, flushed, crashes, history>>

\* Mutant of OpenOffline: the status is set and no alert is opened.
OpenNothing(s, m) ==
  /\ m \in opening[s]
  /\ opening' = [opening EXCEPT ![s] = {}]
  /\ UNCHANGED <<tables, requests, silent, marked, dirty, flushed, crashes, history>>

\* open_alert for the machine just marked.
OpenOffline(s, m) ==
  /\ m \in opening[s]
  /\ InsertOpen(s, m, "offline")
  /\ opening' = [opening EXCEPT ![s] = {}]
  /\ UNCHANGED <<machine, taken, metrics, requests, silent, marked, dirty, flushed, crashes, history>>

\* Mutant of StatusAfterPass: the assignment of the status is lost.
StatusForgotten(s, m) == machine[m].status

StatusAfterPass(s, m) == IF m \in marked[s] THEN "offline" ELSE machine[m].status

CommitPass(s) ==
  /\ silent[s] = {} /\ opening[s] = {} /\ marked[s] # {}
  /\ machine' = [m \in Machines |-> [machine[m] EXCEPT !.status = StatusAfterPass(s, m)]]
  /\ CommitAlerts(s)
  /\ marked' = [marked EXCEPT ![s] = {}]
  /\ settled' = [m \in Machines |-> IF m \in marked[s] THEN settled[m] \ {"presence"} ELSE settled[m]]
  /\ UNCHANGED <<taken, metrics, requests, silent, opening, dirty, crashes, alone>>

\* An exception of the pass is swallowed by _run; a crash restarts the process.
PassFails(s) ==
  /\ silent[s] \cup marked[s] # {}
  /\ crashes < MaxCrashes
  /\ crashes' = crashes + 1
  /\ RollbackAlerts(s)
  /\ silent' = [silent EXCEPT ![s] = {}]
  /\ marked' = [marked EXCEPT ![s] = {}]
  /\ opening' = [opening EXCEPT ![s] = {}]
  /\ UNCHANGED <<machine, taken, metrics, requests, history>>

-----------------------------------------------------------------------------
RequestStep(h) ==
  \/ Ingest(h) \/ ReadMetrics(h) \/ Flush(h) \/ OpenAlert(h) \/ ResolveAlert(h)
  \/ Commit(h) \/ CheckAnomalies(h) \/ CommitAnomalies(h)

PassStep(s) ==
  \/ CommitPass(s)
  \/ \E m \in Machines : MarkOffline(s, m) \/ OpenOffline(s, m)

Next ==
  \/ Tick
  \/ \E m \in Machines : TakeSample(m)
  \/ \E h \in Handlers : \/ \E m \in Machines : Authenticate(h, m)
                         \/ RequestStep(h)
                         \/ RequestFails(h)
  \/ \E s \in Schedulers : SelectSilent(s) \/ PassStep(s) \/ PassFails(s)

Spec == Init /\ [][Next]_vars

\* Time passes, a request that has started and a pass that is due go on running;
\* statements that wait are queued by PostgreSQL, so the one that waits for a row
\* is not overtaken for ever.  Nothing makes an agent send or a process fail.
FairSpec ==
  /\ Spec
  /\ WF_vars(Tick)
  /\ \A h \in Handlers : SF_vars(RequestStep(h))
  /\ \A s \in Schedulers : /\ WF_vars(SelectSilent(s))
                           /\ SF_vars(PassStep(s))

-----------------------------------------------------------------------------
(* Properties.                                                             *)

\* An operator reads the committed rows.
IsOpen(m, t) == \E r \in alerts : r.machine = m /\ r.type = t /\ r.by = NoTx

\* At most one open alert per machine and type is ever committed, whatever
\* requests and passes overlap or fail (alerting.py:9, the partial unique
\* index of migration 0003, and open_alert's claim to be idempotent).
OneOpenAlert ==
  \A r, q \in alerts :
    r.by = NoTx /\ q.by = NoTx /\ r.machine = q.machine /\ r.type = q.type => r = q

\* A metrics request that no other request or pass of its machine overlapped
\* leaves the threshold alerts exactly as the stored samples demand, whatever
\* failed or raced before it: one request repairs what crashes and races left.
SettledThresholds ==
  \A m \in Machines : "thresholds" \in settled[m] =>
    LET stored == metrics[m]
        newest(n) == {L \in SUBSET stored : /\ Cardinality(L) = n
                                            /\ \A i \in L, j \in stored \ L : j < i}
        exceeded(what, n) == \E L \in newest(n) : \A i \in L : what \in taken[m][i]
    IN  /\ IsOpen(m, "mem_high") <=> exceeded("mem", 1)
        /\ IsOpen(m, "disk_full") <=> exceeded("disk", 1)
        /\ IsOpen(m, "cpu_high") <=> exceeded("cpu", ConsecutivePoints)

\* A request that nothing of its machine overlapped leaves it online and
\* without an offline alert (record_heartbeat, resolve_offline_if_needed),
\* until a pass finds it silent again.
SettledPresence ==
  \A m \in Machines : "presence" \in settled[m] =>
    machine[m].status = "online" /\ ~IsOpen(m, "offline")

\* The offline alert and the offline status become visible in one step: an
\* operator never sees the alert of a machine that was not just put offline.
OfflineAlertWithStatus ==
  [][\A m \in Machines : ~IsOpen(m, "offline") /\ IsOpen(m, "offline")'
        => machine'[m].status = "offline"]_vars

\* No wait of requests and passes for a row, an index entry or a lock is for ever: every
\* request ends.  Of one machine: passes of two schedulers over several machines may lock
\* them in opposite orders (the SELECT has no ORDER BY), and PostgreSQL's detector, which
\* then rolls one of them back, is not modelled.
RequestsEnd == \A h \in Handlers : (pc[h] # "idle") ~> (pc[h] = "idle")

\* A machine that stays silent, that no request or pass is busy with and that is
\* not yet shown "offline" gets its offline alert (check_offline_machines).
SilenceDetected ==
  \A m \in Machines :
    LET overlooked == /\ machine[m].status # "offline"
                      /\ \A h \in Handlers : ~Serving(h, m)
                      /\ \A s \in Schedulers : ~Passing(s, m)
    IN  <>[]IsSilent(m) => [](overlooked => <>IsOpen(m, "offline"))

\* A machine that goes on reporting is shown online, for good, and its offline
\* alert is closed, for good: races with a pass are repaired by later contacts.
ReturnClears ==
  \A m \in Machines :
    <>[]~IsSilent(m) /\ []<><<\E h \in Handlers : Ingest(h) /\ req[h].machine = m>>_vars
      => <>[](machine[m].status = "online" /\ ~IsOpen(m, "offline"))

\* What alerting.py:7 and runbook.md:92 say: no sign of life for longer than
\* the limit -> an open critical offline alert.
SilentMachineHasAlert ==
  \A m \in Machines : <>[]IsSilent(m) => <>[]IsOpen(m, "offline")
=============================================================================
