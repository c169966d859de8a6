---------------------------- MODULE NetworkEvents ----------------------------
(***************************************************************************)
(* The table network_events (services/events.py), the blocklist that the   *)
(* scheduler keeps in Redis (services/feeds.py, services/threatintel.py)   *)
(* and what a batch of flows or of IDS alerts is turned into.              *)
(*                                                                         *)
(* The events are those of one machine.  Time is a bounded clock; one tick *)
(* stands for the smallest of the windows.                                 *)
(***************************************************************************)
EXTENDS VulnRules

CONSTANTS
  MaxTime,          \* bound of the clock
  DedupWindow,      \* network_event_dedup_minutes
  PortscanTargets,  \* network_portscan_distinct_targets
  EmbeddedIps,      \* BLOCKLIST_IPS
  C2Ports,          \* the ports of SUSPICIOUS_PORTS
  FeedIps,          \* the addresses that the downloaded list has; {} disables the feed
  FeedTtl,          \* network_feed_ttl_hours
  None              \* a NULL column

VARIABLES
  now,     \* the clock
  events,  \* the committed rows
  feed     \* the Redis set: its addresses, and the time at which it expires

eventVars == <<now, events, feed>>

ASSUME WindowAssumption == /\ MaxTime \in Nat \ {0} /\ DedupWindow \in Nat
                           /\ PortscanTargets \in Nat /\ FeedTtl \in Nat

\* A row; `of` is the request that inserted it and `about` the device or the MAC.  No query
\* of the model depends on its status, which a user sets to "acknowledged".
Event(of, kind, severity, about, ip, port, at) ==
  [of |-> of, kind |-> kind, severity |-> severity, about |-> about,
   ip |-> ip, port |-> port, at |-> at]

\* The (kind, dst_ip, dst_port) that deduplication compares.
SameKey(e, f) == e.kind = f.kind /\ e.ip = f.ip /\ e.port = f.port

\* Mutant of Known: the caller forgets the window.
NeverKnown(seen, e, t) == FALSE /\ e.at = t /\ e \in seen

\* An event that deduplication finds: not older than the window at time t.
Known(seen, e, t) == \E f \in seen : SameKey(e, f) /\ f.at + DedupWindow >= t

(***************************************************************************)
(* Threat intelligence.                                                    *)
(***************************************************************************)
\* The embedded addresses and, when Redis answers, those of the feed.
LoadBlocklist(redisUp) ==
  EmbeddedIps \cup (IF redisUp /\ now < feed.expires THEN feed.ips ELSE {})

\* What the destination of a flow is reported as: a set with at most one severity.
FlowSeverity(f, blocklist) ==
  IF f.ip \in blocklist THEN {"critical"} ELSE IF f.port \in C2Ports THEN {"high"} ELSE {}

\* What a refresh at time t leaves: the set of a download that succeeds, parses at least
\* one address and reaches Redis, else the set as it was.
RefreshBlocklist(t) ==
  {feed} \cup IF FeedIps # {} THEN {[ips |-> FeedIps, expires |-> t + FeedTtl]} ELSE {}

(***************************************************************************)
(* The rows that a request inserts, given the committed ones.              *)
(***************************************************************************)
\* One finding per suspicious destination.
Suspicious(of, flows, blocklist) ==
  UNION {{Event(of, "outbound_suspicious", s, None, f.ip, f.port, now) :
            s \in FlowSeverity(f, blocklist)} : f \in flows}

\* The hosts contacted on a port.
Targets(flows, port) == {f.ip : f \in {g \in flows : g.port = port}}

\* One finding per port on which many destinations were contacted.
FanOuts(of, flows) ==
  LET wide == {p \in {f.port : f \in flows} : Cardinality(Targets(flows, p)) >= PortscanTargets}
  IN  {Event(of, "port_scan", "high", None, None, p, now) : p \in wide}

FlowEvents(of, flows, blocklist) ==
  {e \in Suspicious(of, flows, blocklist) \cup FanOuts(of, flows) : ~Known(events, e, now)}

\* The priority of Suricata, 1 the highest, as a severity.
IdsSeverity(priority) ==
  IF priority <= 1 THEN "high" ELSE IF priority = 2 THEN "medium" ELSE "low"

\* Every alert of the batch (a function from its lines to priorities): no deduplication.
IdsEvents(of, batch) ==
  {Event(of, "ids_alert", IdsSeverity(batch[l]), l, None, None, now) : l \in DOMAIN batch}

\* Time passes, and the scheduler tries to refresh the blocklist (every 60 minutes).
Tick ==
  /\ now < MaxTime
  /\ now' = now + 1
  /\ feed' \in RefreshBlocklist(now + 1)
  /\ UNCHANGED events

EventInit ==
  /\ now = 1
  /\ events = {}
  /\ feed = [ips |-> {}, expires |-> 0]
=============================================================================
