# GuardianOps AI: a TLA+ verification project

This directory holds TLA+ specifications of GuardianOps AI (`src/`), the TLC
runs that model-check them on small instances, and proofs that TLAPS checks for
every value of the constants. `PROJECT.json` is the machine-readable index: which
component is modelled where, which lines of the source each definition stands for,
which mutation of the code breaks each property, and the hazards the properties are for.

To check it: `tlc -config MCAlerting_requests.cfg MCAlerting` (and likewise each
row of *The runs*), `tlapm Alerting_proofs.tla` (and the other proof modules).

## 1. The system

A Rust **agent** on each machine measures CPU, memory and disk every interval and posts
samples, scans and flows to a FastAPI **API** (several workers, PostgreSQL/TimescaleDB,
Redis). A separate **scheduler** process marks silent machines offline and refreshes a
threat feed. A **Suricata forwarder** tails the IDS log and posts its alerts to the API.
A Next.js **dashboard** reads the API and is told of changes by a WebSocket.

```
 agent (Rust) --metrics, heartbeat, scan, flows--> API workers --SQL--> PostgreSQL
 Suricata -> eve.json -> forwarder --ids alerts-->     |   \                ^
                                                       |    publish         | SQL
                                                       |      v             |
 dashboard <--REST, WebSocket------------------------- API <- Redis    scheduler
                                                       threat feed set  <---/
```

The processes share no memory. What they share are PostgreSQL rows (READ COMMITTED, no
explicit lock anywhere in the code, one partial unique index on `alerts`), the Redis sets,
counters and channel, and files that belong to one process each.

### Inventory

| Component | State it keeps | Operations | Hard behaviour | What makes it correct |
|---|---|---|---|---|
| Alert life cycle (`services/alerting.py`) | `alerts` (open rows), `machines.status` | `check_threshold_alerts`, `open_alert`, `resolve_alert`, `resolve_offline_if_needed`, `check_offline_machines` | overlapping requests of one machine (the agent resends after 15 s), a pass that runs against requests, failures between two commits, statuses read before they are used | one open alert per machine and type; the alerts agree with the stored samples once races are over; an offline alert comes with the offline status; silence is detected and a return clears it |
| Metrics ingestion (`services/ingestion.py`, `routers/ingest.py`) | `metrics`, `machines.last_seen_at` | `ingest_metrics`, `record_heartbeat` | late and repeated batches, ORM writes of changed attributes only | a sample is stored once; a contact counts as one |
| Scheduler (`scheduler.py`) | nothing of its own | `_run`: every 30 s `check_offline_machines`, every hour `refresh_blocklist` | a failed pass is swallowed; a second instance by accident | a failure delays detection and never ends it |
| Anomaly detection (`services/anomaly.py`) | none | `evaluate`, `check_anomalies` | a second transaction after the first; windows with too few rows | opens and resolves under the rules of the alert life cycle |
| Agent loop and queue (`agent/src/main.rs`, `queue.rs`, `transport.rs`) | `queue.json`, the batch in memory | `load`, `save`, `clear`, `send_metrics` | crashes, failed reads and writes, lost answers, a full queue | order, capacity, no loss but the admitted one, progress after an outage |
| Enrolment (`routers/agents.py`, `machines.py`, `agent/src/state.rs`) | `machines.enroll_token_hash`, the state files | `create_machine`, `enroll`, `AgentState::load`/`save` | two clients with one token, lost answers, torn state file | the token is consumed; an enrolled client keeps its identity |
| Suricata forwarder (`infra/suricata/forwarder.py`) | position in `eve.json`, the batch | `main`, `_to_alert`, `_flush` | rotation, truncation, half-written lines, bursts, restarts | nothing posted twice or out of order, losses bounded, the reader catches up |
| Network scan ingestion (`services/network.py`) | `devices`, `device_ports`, `device_vulns`, `device_interfaces` | `ingest_scan`, `_sync_ports_and_vulns`, `_sync_interfaces`, `enrich_devices` | two scans of one machine at once, devices that gain or lose a MAC, devices absent from a scan | one row per device; ports and findings match the last scan; status UP or DOWN matches it |
| Network events, flows, IDS alerts (`services/events.py`, `services/network.py`) | `network_events` | `record_event`, `_detect_arp_spoof`, `ingest_flows`, `ingest_ids_alerts` | read-then-insert deduplication, window boundaries | a finding is on record within a window, and once, unless batches overlapped |
| Network state (`services/network.py`: `get_summary`, `_build_reasons`) | none | a sequence of queries, then a pure ranking of reasons | each query has its own snapshot | exact when nothing changes meanwhile; a fault that lasts is never understated |
| Vulnerability rules (`services/vuln.py`) | none (embedded CVE file) | `evaluate`, `risk_from_severities` | none: pure | risk agrees with the findings |
| Realtime channel (`routers/ws.py`, `core/redis.py`, `apps/web/lib/ws.ts`) | tickets in Redis, sockets | `create_ws_ticket`, `ws_endpoint`, `_publish`, `useRealtimeEvents` | publish before commit, ticket expiry, lost sockets | every change is shown to a page that stays open; what is shown never goes back |
| Login and its limiter (`routers/auth.py`, `core/ratelimit.py`) | a sorted set of failures per address in Redis | `login`; `is_blocked`, `register_failure`, `reset` | check-then-count under concurrency, Redis down | failures per window are bounded; a block ends |
| Threat feed (`services/feeds.py`, `threatintel.py`) | a Redis set with a TTL | `refresh_blocklist`, `load_blocklist`, `evaluate_flow` | failed downloads, expiry, Redis down | fallback to the embedded list |
| Notifications (`services/notify.py`) | none | `maybe_notify` (a webhook) | a slow receiver while row locks are held | never blocks a pass for good |
| Agent scan (`agent/src/netscan.rs`, `snmp.rs`, `flows.rs`, `main.rs` `scan_loop`) | none between two scans | `run_scan`, `enrich`, `collect_flows`, `send_scan`, `send_flows` | raw I/O; a scan given up after 15 s and started over while the API works on it | what it reports is what answered |
| Dashboard (`apps/web`) | JWT cookie, query cache, one socket per page | login, fetch, poll, refetch on a message, 401 | refetches cancelled by messages, expiry during requests | see the realtime channel; a page without a session goes to the login page |
| Read endpoints (`routers/machines.py`, `alerts.py`, `network.py`) | none | lists; `ack_event` | none but those of the network state | single queries |
| Start-up, settings, migrations (`main.py`, `core/config.py`, `alembic`) | the schema | wiring | none | not modelled; the constraints the models rely on come from here |

How they interact in ways the models keep: an ingest request runs the ingestion commit,
then the alerting commit, then the anomaly commit, so it can fail between any two; the
scheduler updates the rows requests update; a client that gives up on a request does not
stop the API from serving it; the forwarder enrols with the agents' endpoint; findings of
`vuln.evaluate` and the blocklist of the scheduler decide what a scan or a batch of flows
writes; the summary reads what those transactions have committed so far; the page reads what
was committed when a message, a timer or the user made it fetch.

## 2. Plan

The order is by importance.

| # | Module | About | Abstract specification, theorems |
|---|---|---|---|
| 1 | `Alerting` (+ `Alerting_proofs`) | requests, passes and PostgreSQL | proved: types, one open alert, offline alert with status, what a request that nothing overlaps leaves |
| 2 | `AgentQueue`, refining `SampleDelivery` | the agent's queue and ingestion | proved: the queue's order and capacity, the refinement, what an outage may lose |
| 3 | `Enrollment` | one-time token, state files | proved: the bound of the race, identities are kept |
| 4 | `SuricataForwarder` | tailing a rotated log | proved: nothing posted twice or out of order, one loss per batch |
| 5 | `VulnRules`, `NetworkEvents` | rules and risk; events, deduplication, threat feed | used by the next two |
| 6 | `NetworkIngest` (+ `MCNetworkIngest`, `NetworkIngest_proofs`) | overlapping scans, flows and IDS batches of one agent | proved: types, suspicious flows on record, one row per device, its details, quiet scans, announcements |
| 7 | `NetworkState` (+ `MCNetworkState`, `NetworkState_proofs`), extends `NetworkIngest` | the summary, query by query, next to the requests | proved: exactness, lasting and suspicious faults, what "indisponible" means |
| 8 | `LoginLimiter`, `LiveView`, composed by `Dashboard` (+ `Dashboard_proofs`) | check-then-count; publish before commit, tickets, sockets, polling; the session | proved: types, bounded guessing, nothing stale shown |

Every invariant and every action property that a run checks is proved; what the plan has left
is liveness, which stays with TLC. The statistics of `anomaly.evaluate` (median and MAD in
floating point) are not planned.

A module that is proved about declares its parameters as CONSTANTS with named assumptions,
has one action per statement or step and no RECURSIVE operator. Proofs live in
`<Module>_proofs.tla`. What a cfg cannot write (sets of records, symmetry) is defined in `MC<Module>.tla`.

## 3. The modules and the code

### Alerting

State: `machine` is the pair (`last_seen_at`, `status`) of the row, the first as its **age**
in ticks, saturating one past the offline limit: `check_offline_machines` only compares it
with the limit, so the clock needs no bound. `alerts` are the open rows; a row's `by` is the
transaction that has inserted and not committed it. `flushed` is the set of alerts whose
`UPDATE ... SET status='resolved'` a transaction has emitted and not committed (the row is
locked), `dirty` those that are changed in the SQLAlchemy session only. `taken` are the
samples an agent has measured (which limits each exceeds), `metrics` the rows of the table.
`alone` and `settled` are history variables that only the properties read.

| Action | Code |
|---|---|
| `Authenticate` | `deps.get_current_agent`: the session loads the machine with its status of now |
| `Ingest` | `ingest_metrics` or `record_heartbeat` with their commit; the status is written only if the loaded one differs, as the ORM does |
| `ReadMetrics`, `OpenAlert`, `ResolveAlert`, `Flush`, `Commit` | `check_threshold_alerts` and `resolve_offline_if_needed`, statement by statement, autoflush included |
| `CheckAnomalies`, `CommitAnomalies` | `check_anomalies`, with any verdict in `Verdicts` |
| `SelectSilent`, `MarkOffline`, `OpenOffline`, `CommitPass` | one pass of `check_offline_machines` |
| `RequestFails`, `PassFails` | a worker dies, a statement fails, `_run` swallows: rollback |

PostgreSQL is modelled by what it promises at READ COMMITTED: a statement sees the committed
rows and its own; an UPDATE waits for the row's lock; an INSERT that conflicts in the partial
unique index waits for the other transaction to end; DO NOTHING when the conflict is committed.

### AgentQueue and SampleDelivery

A sample is its interval number. `file` is `queue.json`, `batch` what the iteration holds,
`net` the requests under way (a request that timed out stays there and may be stored later),
`stored` the primary keys in `metrics`. `Collect` is load, drain and push (`main.rs`
113-131), and with `LoadFails` what `queue::load` makes of any error: the queue is taken for
empty, whether the file is unreadable once or does not parse any more; `Post`, `Acknowledged`,
`Refused`, `Unanswered`, `TimedOut` are the attempts of
`send_metrics`; `Clear` and `Save` end the iteration and may fail; `Crash` forgets the
memory; `Serve` and `Refuse` are the API. `misread` is the last interval whose load failed: the
batch of that interval is the new sample alone, and its `Clear` or `Save` then replaces the file.
`SampleDelivery` states what the agent promises without any of that: it answers for a set of
samples and lets one go only if it is delivered, if it is the oldest of too many, if a failure
strikes the newest, or, with everything queued, in the interval that could not read the queue.
The refinement maps `kept` to what the file and the batch hold and `unread` to `misread`.

### Enrollment

`token` is `enroll_token_hash` (none, live, consumed); `FindToken` is the SELECT, `Consume`
the UPDATE by primary key with its commit; between them another request may do the same.
`at` is where the client process is and `file` its state file, which is written in place and
so can be torn. A client that gives up or dies hangs up: its request is still served, and the
answer goes nowhere. Requests of one client nobody waits for any more are alike and kept once.

### SuricataForwarder

The log is a count of bytes, two to a line, so that `readline` can return the first half. A
generation is a file: `Rotate` puts a new one under the path, `Truncate` empties the one that
is there. `Open`, `Read`, `Check`, `Fill`, `EndBatch`, `Post` are the statements of `main`
with their reads; whether a line is an alert is decided when it is parsed, which covers
every mix of alerts and other events. A truncated file is taken to be resumed at line
boundaries (lines of equal size), and reads are unbuffered: what the reader's buffer still
holds of a file when it is truncated counts as not read. The outcome of a post changes nothing in the forwarder, so
it is not distinguished.

### VulnRules and NetworkEvents

`VulnRules` is pure: `Evaluate` turns ports into findings (exposure rules, and the signatures
of the CVE file, or the two embedded ones when it cannot be read), `Risk` turns findings into
the risk of a device. That a needle occurs in a banner is data: a port carries the signatures
that match it.

`NetworkEvents` has a bounded clock, the committed `network_events` and `feed`, the Redis set
of the blocklist with its expiry. `Known` is `record_event`'s deduplication by kind, address
and port within the window; `FlowEvents` are the rows that `ingest_flows` inserts (suspicious
destinations, ports with many destinations), `IdsEvents` those of `ingest_ids_alerts`.
`Tick` lets time pass and the scheduler refresh the feed or fail to. The blocklist is the
embedded one, with the feed's when Redis answers and the set has not expired.

### NetworkIngest

The requests of one agent, in the order in which it sends them; `Overlap` of them are in
progress at once, for the agent gives a scan up after 15 s and goes on. Each is one transaction.

| Action | Code |
|---|---|
| `StartScan` | the SELECT of `ingest_scan` and the match of its rows with the scan, by MAC, else by IP (`Key`) |
| `Acquire` | one statement of the flush: an UPDATE waits for the row, an INSERT for the MAC in the unique index; UPDATEs by id first, then INSERTs in the order of the scan, as the ORM's unit of work emits them |
| `IntegrityError`, `DeadlockVictim`, `Crash` | the MAC was committed meanwhile; PostgreSQL fails one request of a cycle; a worker dies: rollback |
| `Sync` | from the flush to the commit: `Flushed` (the ORM writes the columns that differ from what it **loaded**), `Details` (`_sync_ports_and_vulns`, `_sync_interfaces`), `Announced` and `ArpEvents`, and the devices the scan has not seen, whose rows the commit locks and marks down |
| `StartFlows`, `StartIds` | `ingest_flows` and `ingest_ids_alerts` up to their commit |
| `Commit` | the rows and the events together |

`todo` and `held` are the locks a request still wants and has, both sets; `NextLock` picks the
next one, rows by id and then new MACs in the order of the scan. `commits` and `overlaps` are
history variables that only properties read.

### NetworkState

`GET /network/summary` next to the requests of `NetworkIngest`: `ReadNext` is one query of
`get_summary`, in the order of `Queries`, each on what is committed at that moment, and with
the last one the ranking of `_build_reasons`. `got` holds the results so far. `Faults` says
without counting what is wrong with the network, and `Deserved` which state each fault
deserves: the properties compare the answer with these. `calm`, `sighted` and `constant` are
history: whether anything changed since the summary began, the least recent that the last
sighting of a device has been since, and the faults that have been there ever since; `Meanwhile`
keeps them while a request takes a step or time passes.

`StateSpec` lets any number of requests overlap, crash and commit between the queries: the
theorems are about it. `OneAtATimeSpec` is the part of it that TLC explores: requests one at a
time, without crashes, and a query only when the request in progress, if any, has nothing left
but its commit (`NoneHalfway`), since up to there it changes nothing a query reads.

`PersistentFaultShown` leaves the risk "vulnerable" out: two queries look for it, the devices
with a high finding and those with a medium one, and a finding may change from one severity to
the other between them.

### LoginLimiter, LiveView and Dashboard

`LoginLimiter`: `failures` is the sorted set of Redis, each member with the time it will still
count, `attempt[c]` where the login of client `c` is. `Ask` is `is_blocked`, `Verify` the
password, `RegisterFailure` and `Reset` what follows; other clients behind the address run
between them. When Redis is down everybody is let in and failures are lost: `exposed` counts the
attempts that were let in then or were under way when it went down, and `unrecorded` the wrong
passwords whose failure was lost.

`LiveView`: `db` is the number of committed changes, and what a page shows is such a number.
`Publish` is before `EndWrite` (the commit, or a rollback), as in `open_alert` and
`record_event`. `IssueTicket`, `OpenSocket`, `Subscribe` and `Drop` are `routers/ws.py` and
`useRealtimeEvents`, which never opens a second socket; `Deliver` is `invalidateQueries`, which
cancels a fetch under way and asks again, unless it is the page's first; `Poll` is
`refetchInterval`; `Unauthorized` is `apiFetch` on a 401.

`Dashboard` composes them: `LoggedIn` is the step that both take (`Reset` of the user and
`Enter`), `Tick` the clock of both; in every other step one of them stands still.

## 4. The runs

| Run | Instance | What it shows |
|---|---|---|
| `alerting_requests` | 1 machine, 2 overlapping requests, 2 samples, 1 failure, no scheduler | types; never two open alerts; **a request that nothing overlaps leaves the threshold alerts exactly as the stored samples demand**, whatever failed before |
| `alerting_presence` | 1 machine, 2 requests, 2 schedulers, 1 failure, fairness | a request that nothing overlaps leaves its machine online and without offline alert; the offline alert becomes visible with the offline status; every request ends (no lock wait is for ever); a silent machine gets its alert; a machine that keeps reporting is shown online for good |
| `alerting_silent` | 1 machine, 1 request, 1 scheduler | **violated**: the promise "no heartbeat for longer than the limit, hence an open alert" |
| `agent_queue` | queue of 2, 2 attempts, 5 intervals, 5 failures, fairness | order and capacity of the queue; outages up to the capacity lose nothing but one sample per crash or failed write and what was queued when the file could not be read; the refinement of `SampleDelivery`; the queue drains |
| `enrollment` | an agent and a forwarder with one token, 2 API handlers, 3 failures, fairness | only requests that found the token before its consumption get a JWT; nobody enrolled asks again; without failures somebody enrols |
| `enrollment_race` | two agents at the same time | **violated**: single use of the token |
| `forwarder` | batches of 2, 6 lines, 1 rotation, 1 truncation, 1 restart, fairness | nothing posted twice or out of order; at most one loss per full batch; the backlog and, beyond the offset, the current file are read |
| `forwarder_burst` | batches of 2, 4 lines | **violated**: every alert that is read is posted |
| `forwarder_truncated` | batches of 2, 3 lines, 1 truncation, fairness | **violated**: the lines of a file that was emptied in place are read |
| `network_scans` | 3 requests, 2 at once, 2 addresses, 2 MACs, 2 instants, windows of 1 | one row per device, with the details of one scan, whatever overlaps or fails; **a scan that nothing overlaps leaves the inventory exactly as it saw the network**; suspicious flows and port scans are on record, once unless batches overlapped; new devices and ports are announced; no deadlock is for ever |
| `network_state` | 3 requests one after the other, 2 addresses and 2 MACs, 3 instants, windows of 1, a service whose CVE changes (`OneAtATimeSpec`) | a summary is exact when nothing changes meanwhile; **a fault that is there all along is never understated, whatever commits between the queries**; a suspicious flow shows although its event was deduplicated; "indisponible" is never said after a recent scan that found a device |
| `dashboard` | a user and another client behind one address, 2 failures allowed, 2 changes, 1 trouble, a session of 2 and a ticket of 1 ticks, fairness | concurrent attempts and outages of Redis overrun the limiter by a bounded number of guesses; a block ends; a page never shows older data than before or than its last refetch; every change reaches a page that stays open; an expired session leaves the page |

### Bounds, and why they are enough

* Two requests and two schedulers: every wait and every stale read involves two
  transactions. One machine: a request touches no other, and the proofs of the safety
  properties have none of these bounds. The limit is on `RequestsEnd`: with several machines
  and schedulers, two passes can lock the machines in opposite orders, and PostgreSQL's
  detector, which would fail one of them, is not in `Alerting`.
* Two samples with two consecutive points for the CPU rule: all of too few, just enough, a
  repeated batch, an old batch after a new one. `AlertIds` is larger than the number of rows
  that can exist at one time (an unfinished insertion stops a run in no case).
* One failure in `Alerting`: a failure only ends one transaction; what it leaves behind is met
  by requests that run normally.
* `agent_queue`: the code has 3 attempts and a queue of 1000; with 2 and 2, two failures queue a
  sample, four fill the file, the fifth strikes an iteration that must drop the oldest sample or
  makes the load of a full file fail, and five intervals leave one to deliver what is queued.
  Requests that time out are delivered late, in any order.
* `forwarder`: six lines are three full batches, so that two losses and the batch between them
  occur.
* `network_scans`: two requests at once suffice for every wait, cycle and stale read; the third
  is the one before (so that rows exist) or after (that repairs). Six scans over two addresses
  and two MACs: a device that comes, goes, moves to another address, has no MAC, or shares the
  gateway's; with ports that open and close. The flows have an embedded address, one that the
  feed may list (so that the same destination is a C2 port first and blocklisted later) and
  two destinations on one port.
* `network_state`: a summary has fourteen queries, and commits and ticks fall between any two;
  three instants with windows of one make every window open and close. The host changes what it
  serves on a port, so that a medium finding becomes a high one. No feed, no IDS batches and no
  overlap here: the first two are in `network_scans`, and the proofs have no bound on the last.
* `dashboard`: one client fewer would have no race in the limiter; two attempts that Redis lets
  down (`MaxExposed`) are both clients at once, or one twice; and two changes let a message
  of the first overtake the commit of the second. The bound on changes also stands for an
  assumption: a page that is sent messages faster than it can fetch cancels its fetches for ever.
* `CHECK_DEADLOCK FALSE` in `agent_queue` (all intervals are over), in `enrollment`
  (everybody is enrolled) and in the two network runs (all requests are served) stands for the
  end of the bounded run. The other passing runs check that the system can always move.

### Fairness, and why the code justifies it

* `Alerting`: `Tick` (time passes). A request that has started and a pass that has selected go on;
  strong fairness, because PostgreSQL queues those who wait for a lock, and a statement whose
  wait is over again and again is not overtaken for ever. `SelectSilent`: the scheduler
  polls every 30 s and survives any failed pass. No fairness makes an agent send.
* `AgentQueue`: the loop is a plain `loop` with an interval; requests are served or lost (the
  client gives up after 15 s either way).
* `Enrollment`: the API serves; a client that failed is restarted by systemd
  (`Restart=on-failure`) or Docker (`restart: unless-stopped`).
* `SuricataForwarder`: the forwarder loops with sleeps; Suricata ends the line it has begun.
* `NetworkIngest`: the database answers each statement that need not wait, and looks for
  deadlocks (`WF_vars(Step(r))`). Nothing makes an agent send or time pass. `NetworkState` has
  safety properties only and no fairness.
* `Dashboard`: requests under way end, messages on the wire arrive, the page's timer fires
  (`ViewFairness`), and a failed login is registered. Time has no fairness, on purpose:
  `EventuallyShown` must not be met by waiting for the session to expire. `BlockEnds` has
  `WF_vars(Tick)` as its own hypothesis. `WF(Poll)` is about a page that is visible:
  `refetchInterval` pauses in a hidden tab until the page is shown again. A ticket, a socket and
  a message are promised nothing: what is eventually shown is shown by polling.

## 5. What is proved

`NaturalSets` holds what several proofs need of sets of naturals: least and greatest elements,
bounded sets are finite, and "the n largest" names one set.

### `Alerting_proofs.tla`

For every set of machines, requests, schedulers, any settings and any
number of failures, from `TxAssumption`, `SettingsAssumption` and `ReadingsAssumption`:

* `TypeCorrect`: `Spec => []TypeOK`.
* `AtMostOneOpenAlert`: `Spec => []OneOpenAlert`. The invariant is not inductive: it says
  nothing of rows that are inserted or being resolved and uncommitted, and a commit makes those
  count. `RowsInv` says when two open rows of one machine and type may exist at the same time:
  one of them is being resolved by the very transaction that has inserted the other, so that
  its commit swaps them and its rollback keeps the first. It also says that no two rows share an
  id. The work is in `InsertOpen`: its guard `InsertWaits` and the visibility rule leave a new
  row only the company of rows its own transaction is resolving.
* `AlertAndStatusTogether`: `Spec => OfflineAlertWithStatus`. By `OfflineRowsInv`: an
  uncommitted offline row belongs to a scheduler that has the machine marked, so the commit
  that publishes the row writes the status in the same step; requests never insert one.
* `SettledRequestPresence` and `SettledRequestThresholds`: `Spec => []SettledPresence`,
  `Spec => []SettledThresholds`. Both are about what a request leaves behind, so the invariant
  follows it from its first statement. `OwnInv` says whose rows a transaction may insert and
  resolve, and that it holds none between two transactions; hence a transaction of another
  machine disturbs nothing (`OthersRows`). `SamplesInv` relates the samples a request carries to
  those stored. `AloneInv` says of a request that nothing has overlapped so far which rules it
  has been through (`Handled`) and that, seen by its transaction, each of their alerts is as the
  samples demand (`Judged`), wherever races left the rows before it. `SettledInv` keeps the
  result until somebody serves the machine or a pass finds it silent.

### `AgentQueue_proofs.tla`

For any capacity, batch limit, number of attempts, samples and failures, from
`QueueAssumption` (a queue of at least one: with 0 the code panics). `QueueInv` adds to the
types that the batch is, from the measurement to the end of the iteration, the queue file as
loaded with the new sample appended, or the new sample alone when the load failed (`Sending`);
that a request under way holds measured samples only; and that an answer "ok" means a stored batch.

* `TypeCorrect`, and `QueueAlwaysInOrder`: `Spec => []QueueInOrder`. The heart is `LoadedFacts`:
  a full file loses its first sample and keeps its order, so that there is room for one.
* `ImplementsDelivery`: `Spec => DeliverySpec`, the refinement of `SampleDelivery`, one step of
  the proof per group of actions. What `Clear` and `Save` let go without delivery is at most the
  first sample of a full file (`Overflow`), and then one more than the capacity was kept
  (`KeptWithFullQueue`, which counts with a bijection); or the whole file, in an interval that
  could not read it, which `SampleDelivery` permits for that interval only.
* `ShortOutage`: `Spec => []ShortOutageLosesNothing`. A sample that overflows is older than
  all a queue can hold (`OverflowIsOld`), because what is kept lies above it and is more than
  the capacity; what a failed load loses was measured before it (`misread`), and any other loss
  is the newest sample and costs a setback (`StepLoses`).

### `Enrollment_proofs.tla`

For any clients, finite set of handlers and failures, from `EnrollmentAssumption`.

* `TypeCorrect`; `RaceBounded`: `Spec => []OnlyRacingEnrolments`, inductive with the types: a
  `Consume` turns one busy handler into one JWT, and `FindToken` makes no handler busy once the
  token is consumed.
* `IdentityKept`: `Spec => EnrolledForGood`, by `SavedInv`: a client with a saved file is
  starting or enrolled, never on its way through an enrolment.

### `SuricataForwarder_proofs.tla`

For any batch size and numbers of lines, rotations, truncations and restarts, from
`ForwarderAssumption`.

* `TypeCorrect`, `NothingPostedTwice`: `Spec => []PostedOnceInOrder`. The invariant says that
  every alert kept so far is `Behind` the forwarder: its bytes are written, before the position,
  before the end of the open file, and before the line in hand. `NextBytesFacts` bounds what
  readline returns; `LogInv` (generations follow each other) carries the alerts over a rotation,
  where the position jumps to the start of the new file.
* `LossesApart`: `Spec => []OneLossPerBatch`. A line is dropped only when the batch is full, and
  so lies above all of it, while (`LossInv`) everything dropped before lies below all of it:
  the full batch is what lies between the two.

### `NetworkIngest_proofs.tla`

For any requests, overlap, scans, flows, blocklists and windows, from `WindowAssumption`,
`MacAssumption` (an address is not a MAC), `ScanAssumption`, `BatchAssumption` (requests are
finite lists) and `CveFileAssumption`.

* `SuspiciousFlowsOnRecord`: `Spec => []FlowsOnRecord`, for the destinations that the embedded
  list or their port makes suspicious and for port scans (a destination that only the feed lists
  depends on Redis). Deduplication reads committed rows
  without a lock, so the invariant speaks of requests in progress too: `Recorded` says of them
  what the property says of answered ones, counting the events they are going to commit;
  `Deduplicated` says that an event about to be committed and a committed one of the same key
  are a window apart or come from requests that overlapped. `Overlaps` gives the latter: what
  a request in progress did not see was committed by one that was in progress with it.

* `TypesOfTheTables`, `RowsUnique`, `DetailsNotMixed`, `QuietScanRepairs` and
  `ChangesAnnounced`: `TypeOK`, `OneRowPerDevice`, `DetailsOfLastScan`, `QuietScanExact` and
  `NothingAppearsSilently`. None is inductive: a scan computes what it writes from rows it has
  read long before, so `Inventory` says of every scan in progress what it may rely on at its
  commit. `Locks`: a lock has one holder, and a locked MAC is on no committed row. `Loaded`: what
  appeared since its SELECT was first seen by a scan that overlapped it, and when none did, what
  it loaded is the table. `Matched`, before the flush: a known device is locked or still to be
  locked, an unknown one had no row. `Written`, after it: each row to be written is typed, has
  the details of this scan (`Ready`), is locked or new to the table (`Owned`) and comes with its
  event (`Told`); `Apart`: no two scans are about to write one row. The locks are what makes
  these stable while others commit (`CommitScanned`), and each commit then turns them into the
  facts about the table (`History`).

### `NetworkState_proofs.tla`

For any windows and thresholds, about `StateSpec`, that is next to requests that overlap, fail and
commit in any way, from the assumptions of `NetworkIngest` and `SummaryAssumption`.

* The answers count, so the tables must be finite (`Finite`); `Counted` and `QueryIs` turn each
  query into a set of rows or events, and `FaultCounted` says that a fault of now is counted by its
  query (`Witness`) whether the query's window ends now or ended before.
* `CalmSummaryRight`: `StateSpec => []SummaryExact`, and `LastingFaultShown`:
  `StateSpec => []PersistentFaultShown`. `Reading` says of the results so far what they show of
  the faults that have been there since the beginning (`Shown`), that the moment at which the windows
  end was read before them, and, when nothing has changed, that they are the results of now.
  `Meanwhile` weakens what must be shown as the network changes, which is what keeps it.
  `FaultReason` is the ranking: a host that is down is "alarme" by the subtraction of the gateways, or
  else a gateway is down, which is worse.
* `SuspiciousFlowCritical`: `StateSpec => []SuspiciousFlowShown`, from `FlowsOnRecord`: the event
  on record is at most one deduplication window older than the batch.
* `BlindMeansNothingFound`: `StateSpec => []BlindOnlyIfNothingAnswered`. `Fresh` says that after
  a scan that found a device, and that no committed scan overlapped, some device was seen since;
  a later scan writes `last_seen_at` back only if it is older than what it overwrites, and
  `Later` says that then it overlapped.

### `Dashboard_proofs.tla`

For any clients, limits, windows and bounds, from `LimiterAssumption`, `ViewAssumption` and
`UserAssumption`. `StepSplits` shows each step of the whole as a step, or a stutter, of each
part, so that the limiter and the page each keep an invariant of their own.

* `DashboardTypeCorrect`: `Spec => []TypeOK`.
* `GuessingBounded`: `Spec => []BoundedGuessing`, inductive with the types and `LetDown`. `Ask`
  adds an attempt only below the limit or while Redis is down; `RegisterFailure` turns an attempt
  into a failure, on record or lost; `LetDown` says that the lost ones are of attempts that Redis
  let down, which `exposed` counts.
* `ShownNeverStale`: `Spec => NothingStaleShown`, by `ViewInv`: an answer on its way to the page
  is as recent as the last request for it (`AnswerFresh`), which is where cancelling matters (a
  message during the first fetch asks for nothing, and is not covered);
  no more messages are on the wire than changes were published (`Announced`).

### Only model-checked

* Liveness is out of the reach of the proof system: `RequestsEnd`, `SilenceDetected`,
  `ReturnClears`, `QueueDrains`, `SomebodyEnrols`, `BacklogIsRead`, `CurrentFileIsRead`,
  `ScansEnd`, `EventuallyShown`, `BlockEnds`, `SessionEnds`.
* Every invariant and action property of the passing runs is proved. What the violated runs
  check is refuted by TLC's counterexample.

## 6. What the violated runs found

* **A silent machine without an alert** (`alerting_silent`). A heartbeat loads its machine as
  online; a pass commits offline and opens the alert; the heartbeat's UPDATE writes
  `last_seen_at` alone (the ORM sees no change of status) and its resolve closes the alert.
  The machine then stays offline in the table, `check_offline_machines` skips it, and if it
  falls silent now there is no alert. `SilenceDetected` is the strongest form that holds:
  detection works for machines not already shown offline.
* **Two JWTs for one token** (`enrollment_race`). SELECT and UPDATE of `enroll` are not
  guarded against another request in between. `OnlyRacingEnrolments` says how far it goes: the
  requests in progress at the time.
* **A lost IDS alert per burst** (`forwarder_burst`). The inner loop reads one line more than
  it keeps. `OneLossPerBatch` bounds the loss to one in `BATCH_MAX + 1`.
* **A truncated log is not noticed** (`forwarder_truncated`). The comment of `forwarder.py:113`
  says that the check at the end of the file handles "inode changé / fichier tronqué"; it compares
  inodes, and a file emptied in place keeps its own. The forwarder stays beyond the end until the
  file has grown past the old offset, and the lines below it are never read. `CurrentFileIsRead`
  is what holds: the lines beyond the offset are read.

### Other observations

Behaviour met while modelling that no document of the repository contradicts, or that a
property states in the form that holds:

* Overlapping scans can lose an update of a status: the later one loaded "up", so it writes no
  status over the "down" of the earlier. `QuietScanExact` says that the next scan alone repairs it.
* The deduplication key of an ARP event has no MAC (`network.py:172`, `events.py:35`): a second
  spoofed MAC within the window is not reported. A severity that rises within the window (a C2
  port that becomes a blocklisted address) is not recorded either.
* Two addresses that claim one MAC with different ports announce new ports at every scan.
* Deduplication and the summary use windows of one length: a finding that is dropped as known
  leaves the summary when the older event does, until the next flows. `SuspiciousFlowShown`
  promises the difference of the windows only.
* The queries of a summary see different moments: it can report "alarme" for a host when only
  the gateway was down and came back between two counts, or miss a fault whose cause changes
  from one query to the next. A device whose risk rises from medium to high between the two
  counts is missed by both, and the network is "sain": `PersistentFaultShown` therefore leaves
  out the vulnerability fault. IDS alerts have no part in the state.
* Scans that find nothing leave `last_seen_at` as it is, and the state becomes "indisponible"
  with the reason that no scan is recent.
* An older scan that commits after a younger one writes its older `last_seen_at`, so
  "indisponible" may follow a recent scan; `BlindOnlyIfNothingAnswered` is about scans that no
  other overlapped.
* Events and webhooks go out before the commit, so also for transactions that roll back, and a
  page that fetches at once reads the old state: the "instantanément (push WebSocket)" of
  `docs/runbook.md:76` is kept by polling only, after up to 30 s.
* A message that arrives during the first fetch of a page joins it (`invalidateQueries` cancels
  only when there is data): the page may show what was read before the change, until the next
  message or poll.
* Redis that fails between `is_blocked` and `register_failure` loses the failure (`ratelimit.py:65-72`),
  so repeated short outages allow guesses that are on no record: `BoundedGuessing` counts them.
* A queue file that cannot be read or does not parse is taken for empty (`queue.rs:12-15`), and the
  iteration's save or clear replaces it: up to `max_queue_size` samples are lost at once, without a
  message. The write-and-rename of `save` prevents it for a crash of the process only.
* Two passes over several machines at once (two schedulers) can deadlock, for their SELECT has no
  order; PostgreSQL fails one of them, `_run` swallows it, and the next pass repeats it.
* The page opens its WebSocket once: when it is lost, messages end until the page is mounted again.
* A block of the limiter is shown as a wrong password, and concurrent failures can make it last
  longer than the `Retry-After` it was announced with.

## 7. Abstractions, and what is not modelled

* The content of samples, events and messages; wording, logging and layout; rows that no
  statement reads again (resolved alerts); columns of devices that only describe (hostname,
  vendor, SNMP texts), which the ORM treats like the IP; queries of the summary that only fill
  counters.
* The clock of the agent: samples come with increasing timestamps.
* One agent in the network modules: with several, a dead one's devices stay up while another
  keeps the last scan recent.
* `evaluate` of the anomaly detection is any verdict: its statistics are floating-point.
* The acknowledgement of an event writes a column that only the list's filter reads.
* The webhook of `maybe_notify`: it keeps no state; that a pass waits for it with rows locked
  only lengthens the pass, which the models do not time.
* Scanner, SNMP client and flow collector of the agent: sockets, ASN.1 and `/proc`. What they may
  report is the set of scans and flows that `NetworkIngest` draws from.
* The logout button and the navigation between pages: a session ends by expiry. Redis may fail
  at any time in `LiveView` (a message lost, no ticket, a dropped socket) and as a whole in
  `LoginLimiter`; that both stem from one server is not used.
* Start-up, settings and migrations: wiring. The constraints that matter (the partial unique index
  of `alerts`, the uniqueness of a MAC) are in the models.
