---------------------------- MODULE NetworkState ----------------------------
(***************************************************************************)
(* The state of the network that the dashboard shows (get_summary and      *)
(* _build_reasons of services/network.py), read by one query after the     *)
(* other at READ COMMITTED while the agent's requests commit.              *)
(*                                                                         *)
(* The queries that only fill counters of the page (up, gateways, by type, *)
(* events of all kinds) are left out.                                      *)
(***************************************************************************)
EXTENDS NetworkIngest

CONSTANTS
  StaleAfter,   \* network_scan_stale_minutes
  NewWindow,    \* network_new_device_window_hours
  EventWindow,  \* network_event_window_minutes
  SatWindow,    \* network_saturation_window_minutes
  SatDevices    \* network_saturation_new_devices

VARIABLES
  got,      \* the summary being computed: the result of each query so far
  state,    \* the state it answered, Waiting before, Nothing if there is none
  calm,     \* history: nothing that a query reads has changed since the summary began
  sighted,  \* history: the least recent that the last sighting of a device has been since
  constant  \* history: the faults of the network that have been there ever since

summaryVars == <<got, state, calm, sighted, constant>>

ASSUME SummaryAssumption == /\ {StaleAfter, NewWindow, EventWindow, SatWindow} \subseteq Nat
                            /\ SatDevices \in Nat

Rank == [indisponible |-> 0, sain |-> 1, surveille |-> 2, alarme |-> 3, sature |-> 4, critique |-> 5]

Nothing == "nothing"
Waiting == "waiting"

\* The queries, in the order of the code; "now" is the clock of the API.
Queries == <<"total", "down", "down_gateways", "last_scan_at", "now", "new_last_window",
             "critical", "high", "medium", "arp_spoof", "outbound_suspicious", "port_scan",
             "new_open_port", "recent_new">>

\* The number of devices for which P holds.
Count(P(_)) == Cardinality({i \in DOMAIN devices : P(devices[i])})

\* The column is not before the window that ends at t.
Recent(at, window, t) == at + window >= t

\* Mutant of LastScan: the device seen least recently decides.
OldestSighting == IF devices = <<>> THEN 0 ELSE Min({devices[i].seen : i \in DOMAIN devices})

\* The last sighting of any device; 0 stands for NULL.
LastScan == Max({0} \cup {devices[i].seen : i \in DOMAIN devices})

\* Mutant of WithSeverity: the join keeps the devices that are up.
UpWithSeverity(s) == Count(LAMBDA d : d.status = "up" /\ \E v \in d.vulns : v.severity = s)

\* _count_devices_with_severity
WithSeverity(s) == Count(LAMBDA d : \E v \in d.vulns : v.severity = s)

\* Mutant of EventsOf: the bound of the window is excluded.
EventsOfShorter(kind, t) == Cardinality({e \in events : e.kind = kind /\ e.at + EventWindow > t})

\* _count_events
EventsOf(kind, t) == Cardinality({e \in events : e.kind = kind /\ Recent(e.at, EventWindow, t)})

\* The result of one query; the windows end at t.
Query(q, t) ==
  CASE q = "total" -> Cardinality(DOMAIN devices)
    [] q = "down" -> Count(LAMBDA d : d.status = "down")
    [] q = "down_gateways" -> Count(LAMBDA d : d.gateway /\ d.status = "down")
    [] q = "last_scan_at" -> LastScan
    [] q = "now" -> now
    [] q = "new_last_window" -> Count(LAMBDA d : Recent(d.first, NewWindow, t))
    [] q \in {"critical", "high", "medium"} -> WithSeverity(q)
    [] q = "recent_new" -> Count(LAMBDA d : Recent(d.first, SatWindow, t))
    [] OTHER -> EventsOf(q, t)

\* Mutant of Blind: an old scan is as good as a recent one.
BlindIfEmpty(c) == c["total"] = 0

\* No device, or no recent scan: the only reason is then "indisponible".
Blind(c) ==
  c["total"] = 0 \/ c["last_scan_at"] = 0 \/ ~Recent(c["last_scan_at"], StaleAfter, c["now"])

\* The states that the results c give a reason for.
Reasons(c) ==
  IF Blind(c) THEN {"indisponible"}
  ELSE LET some(qs) == \E q \in qs : c[q] > 0
       IN  {s \in {"critique", "sature", "alarme", "surveille"} :
              CASE s = "critique" -> some({"down_gateways", "critical", "arp_spoof",
                                           "outbound_suspicious"})
                [] s = "sature" -> c["recent_new"] >= SatDevices
                [] s = "alarme" -> c["down"] > c["down_gateways"] \/ some({"high", "port_scan"})
                [] OTHER -> some({"medium", "new_open_port", "new_last_window"})}

\* The state of the worst reason, "sain" when there is none.
StateOf(c) ==
  IF Reasons(c) = {} THEN "sain"
  ELSE CHOOSE s \in Reasons(c) : \A t \in Reasons(c) : Rank[s] >= Rank[t]

(***************************************************************************)
(* What is wrong with the network now, without counting: each fault with   *)
(* the state that it deserves, whether a device was seen recently or not.  *)
(***************************************************************************)
InNetwork(P(_)) == \E i \in DOMAIN devices : P(devices[i])

Scanned == InNetwork(LAMBDA d : Recent(d.seen, StaleAfter, now))

Happened(kind) == \E e \in events : e.kind = kind /\ Recent(e.at, EventWindow, now)

Deserved ==
  [gateway |-> "critique", risk_critical |-> "critique", arp_spoof |-> "critique",
   outbound_suspicious |-> "critique", growth |-> "sature", host |-> "alarme", high |-> "alarme",
   port_scan |-> "alarme", medium |-> "surveille", risk_vulnerable |-> "surveille",
   new_open_port |-> "surveille", new_device |-> "surveille"]

Faults ==
  {f \in DOMAIN Deserved :
     CASE f = "gateway" -> InNetwork(LAMBDA d : d.gateway /\ d.status = "down")
       [] f = "host" -> InNetwork(LAMBDA d : ~d.gateway /\ d.status = "down")
       [] f = "risk_critical" -> InNetwork(LAMBDA d : Risk(d.vulns) = "critical")
       [] f = "risk_vulnerable" -> InNetwork(LAMBDA d : Risk(d.vulns) = "vulnerable")
       [] f \in {"high", "medium"} -> InNetwork(LAMBDA d : \E v \in d.vulns : v.severity = f)
       [] f = "growth" -> Count(LAMBDA d : Recent(d.first, SatWindow, now)) >= SatDevices
       [] f = "new_device" -> InNetwork(LAMBDA d : Recent(d.first, NewWindow, now))
       [] OTHER -> Happened(f)}

\* The state s is at least as grave as every one of these faults deserves.
AsGraveAs(s, faults) == \A f \in faults : Rank[Deserved[f]] <= Rank[s]

(***************************************************************************)
(* The steps.                                                              *)
(***************************************************************************)
\* GET /network/summary; at any time, and again after an answer.
BeginSummary ==
  /\ state = Nothing
  /\ state' = Waiting /\ got' = <<>>
  /\ calm' = TRUE /\ sighted' = LastScan /\ constant' = Faults
  /\ UNCHANGED vars

\* The next query, and with the last one the answer.
ReadNext ==
  /\ state = Waiting
  /\ \E n \in DOMAIN Queries :
       LET q == Queries[n]
           t == IF "now" \in DOMAIN got THEN got["now"] ELSE 0
           c == [p \in DOMAIN got \cup {q} |-> IF p = q THEN Query(q, t) ELSE got[p]]
       IN  /\ q \notin DOMAIN got /\ \A m \in 1..(n - 1) : Queries[m] \in DOMAIN got
           /\ IF DOMAIN c = Range(Queries)
              THEN state' = StateOf(c) /\ got' = <<>>
              ELSE got' = c /\ UNCHANGED state
  /\ UNCHANGED <<vars, calm, sighted, constant>>

\* What a step of a request or of the clock means for the summary; an answer given
\* before has been shown.
Meanwhile ==
  IF state = Waiting
  THEN /\ calm' = (calm /\ UNCHANGED <<devices, events, now>>)
       /\ sighted' = Min({sighted, LastScan'}) /\ constant' = constant \cap Faults'
       /\ UNCHANGED <<got, state>>
  ELSE calm' = FALSE /\ sighted' = 0 /\ constant' = {} /\ got' = <<>> /\ state' = Nothing

StateNext == (Next /\ Meanwhile) \/ BeginSummary \/ ReadNext

StateInit == Init /\ got = <<>> /\ state = Nothing /\ calm = FALSE /\ sighted = 0 /\ constant = {}

StateSpec == StateInit /\ [][StateNext]_<<vars, summaryVars>>

(***************************************************************************)
(* What TLC explores.  Up to its commit a request changes nothing that a   *)
(* summary reads, so, when they come one at a time, one that starts takes  *)
(* its locks before the next query (NoneHalfway), and one that starts      *)
(* during a summary does so after something has changed: before that it    *)
(* could as well have started before the summary.  A request that crashes  *)
(* leaves nothing to read, so there are no crashes.                        *)
(***************************************************************************)
\* No request is between its start and the point where only its commit is left.
NoneHalfway == \A r \in Active : tx[r].pc = "mark" /\ tx[r].todo = {}

OneAtATime ==
  \/ /\ Serve /\ Meanwhile
     /\ state = Waiting /\ calm => ~calm'
  \/ NoneHalfway /\ (BeginSummary \/ ReadNext)

OneAtATimeSpec == StateInit /\ [][OneAtATime]_<<vars, summaryVars>>

(***************************************************************************)
(* Properties.                                                             *)
(***************************************************************************)
Answered == state \in DOMAIN Rank

\* A summary during which nothing changed is right: the counts, the subtraction of the
\* gateways and the severities of the findings give the state that the network deserves,
\* and the risk of the devices in the list (enrich_devices) agrees with it.
SummaryExact ==
  Answered /\ calm =>
    IF ~Scanned THEN state = "indisponible"
    ELSE state \in {Deserved[f] : f \in Faults} \cup {"sain"} /\ AsGraveAs(state, Faults)

\* The queries see different moments, but a fault that was there all along is not
\* understated, unless the last sighting was too old at some moment: the answer is at least
\* as grave (down_hosts is a difference of two counts read at two moments).  Not so the risk
\* "vulnerable", which two queries look for: the findings may change from the one to the other.
PersistentFaultShown ==
  Answered /\ sighted # 0 /\ Recent(sighted, StaleAfter, now) =>
    AsGraveAs(state, constant \ {"risk_vulnerable"})

\* Once a batch with a suspicious flow is answered, a summary within the difference of the
\* two windows is "critique", although deduplication may have dropped the event because of
\* an older one, unless no device was seen recently (ingest_flows and get_summary).
SuspiciousFlowShown ==
  Answered /\ calm /\ Scanned =>
    \A r \in Requests :
      tx[r].kind = "flows" /\ tx[r].pc = "done" /\ Recent(tx[r].start, EventWindow - DedupWindow, now)
        /\ (\E f \in tx[r].body : FlowSeverity(f, EmbeddedIps) # {}) => state = "critique"

\* "indisponible" says that no scan is recent; it is also said when the recent scans
\* found nothing, but never after a recent scan that found a device, unless another scan
\* overlapped it (which may be older, and write an older last_seen_at).
BlindOnlyIfNothingAnswered ==
  Answered /\ calm /\ state = "indisponible" =>
    \A r \in Range(commits) :
      Recent(tx[r].start, StaleAfter, now) /\ Quiet(r) => DOMAIN tx[r].body = {}
=============================================================================
