-------------------------- MODULE Alerting_proofs --------------------------
(***************************************************************************)
(* Proofs about Alerting for any numbers of machines, requests, schedulers *)
(* and failures: type correctness, at most one open alert per machine and  *)
(* type, the offline alert never visible without the offline status, and   *)
(* the state that a request nothing overlapped leaves behind.              *)
(***************************************************************************)
EXTENDS Alerting, NaturalSets, FiniteSetTheorems, TLAPS

USE DEF ReleaseLocks, StatusAfterContact, RowsRead, FoundOpen, StatusAfterPass
USE DEF Tx, Statuses, ThresholdTypes, AnomalyTypes, AlertTypes

\* The initial state is well typed.
LEMMA InitTypeOK == ASSUME Init PROVE TypeOK
  BY SettingsAssumption, TxAssumption DEF Init, TypeOK, Ages, NoRequest, PCs, AlertRows

\* The primary key a new alert gets is one that no row or session uses.
LEMMA FreshIdFact ==
  ASSUME AlertIds \ UsedIds # {}
  PROVE  FreshId \in AlertIds \ UsedIds
  BY DEF FreshId

\* COMMIT, ROLLBACK and INSERT keep the alerts table well typed.
LEMMA TableTypes ==
  ASSUME TypeOK, NEW x \in Tx
  PROVE  /\ CommitAlerts(x) => /\ alerts' \in SUBSET AlertRows
                               /\ flushed' \in [Tx -> SUBSET AlertIds]
         /\ RollbackAlerts(x) => /\ alerts' \in SUBSET AlertRows
                                 /\ flushed' \in [Tx -> SUBSET AlertIds]
                                 /\ dirty' \in [Tx -> SUBSET AlertIds]
         /\ \A m \in Machines, t \in AlertTypes :
              InsertOpen(x, m, t) => alerts' \in SUBSET AlertRows
<1>1. CommitAlerts(x) => /\ alerts' \in SUBSET AlertRows
                         /\ flushed' \in [Tx -> SUBSET AlertIds]
  <2> SUFFICES ASSUME CommitAlerts(x)
               PROVE  /\ alerts' \in SUBSET AlertRows
                      /\ flushed' \in [Tx -> SUBSET AlertIds]
    OBVIOUS
  <2>1. ASSUME NEW r \in alerts PROVE [r EXCEPT !.by = IF @ = x THEN NoTx ELSE @] \in AlertRows
    <3>1. r \in AlertRows /\ (IF r.by = x THEN NoTx ELSE r.by) \in Tx \cup {NoTx}
      BY DEF TypeOK, AlertRows
    <3>2. QED BY <3>1 DEF AlertRows
  <2>2. alerts' \in SUBSET AlertRows
    BY <2>1 DEF CommitAlerts
  <2>3. QED BY <2>2 DEF CommitAlerts, TypeOK
<1>2. RollbackAlerts(x) => /\ alerts' \in SUBSET AlertRows
                           /\ flushed' \in [Tx -> SUBSET AlertIds]
                           /\ dirty' \in [Tx -> SUBSET AlertIds]
  BY DEF RollbackAlerts, TypeOK
<1>3. ASSUME NEW m \in Machines, NEW t \in AlertTypes, InsertOpen(x, m, t)
      PROVE  alerts' \in SUBSET AlertRows
  BY <1>3, FreshIdFact DEF InsertOpen, TypeOK, AlertRows
<1>4. QED BY <1>1, <1>2, <1>3

\* Closing a request keeps its variables well typed.
LEMMA RespondTypes ==
  ASSUME TypeOK, NEW h \in Handlers, Respond(h)
  PROVE  /\ pc' \in [Handlers -> PCs]
         /\ req' \in [Handlers -> [machine : Machines, samples : SUBSET (1..MaxSamples),
                                   loaded : Statuses] \cup {NoRequest}]
         /\ \A g \in Handlers : pc'[g] # "idle" => req'[g].machine \in Machines
         /\ high' \in [Handlers -> SUBSET AlertTypes]
         /\ alone' \in [Handlers -> BOOLEAN]
         /\ settled' \in [Machines -> SUBSET {"presence", "thresholds"}]
  BY DEF Respond, TypeOK, PCs

\* Every step keeps the state well typed.
LEMMA NextTypeOK == ASSUME TypeOK, [Next]_vars PROVE TypeOK'
<1> USE DEF tables, requests, passes, history
<1>1. ASSUME UNCHANGED vars PROVE TypeOK'
  BY <1>1 DEF TypeOK, vars, AlertRows
<1>2. CASE Tick
  <2>1. ASSUME NEW m \in Machines
        PROVE  [machine[m] EXCEPT !.age = IF @ = Null \/ @ = OfflineAfter + 1 THEN @ ELSE @ + 1]
                 \in [age : Ages, status : Statuses]
    <3>1. machine[m].age \in Ages /\ machine[m] \in [age : Ages, status : Statuses]
      BY DEF TypeOK
    <3>2. (IF machine[m].age = Null \/ machine[m].age = OfflineAfter + 1
           THEN machine[m].age ELSE machine[m].age + 1) \in Ages
      BY <3>1, SettingsAssumption DEF Ages
    <3>3. QED BY <3>1, <3>2
  <2>2. machine' \in [Machines -> [age : Ages, status : Statuses]]
    BY <1>2, <2>1 DEF Tick
  <2>3. QED BY <1>2, <2>2 DEF Tick, TypeOK
<1>3. ASSUME NEW m \in Machines, TakeSample(m) PROVE TypeOK'
  BY <1>3, SettingsAssumption DEF TakeSample, TypeOK
<1>4. ASSUME NEW h \in Handlers, NEW m \in Machines, Authenticate(h, m) PROVE TypeOK'
  <2>1. Batches(m) \subseteq SUBSET (1..MaxSamples)
    BY SettingsAssumption DEF Batches, TypeOK
  <2>2. PICK batch \in Batches(m) \cup {{}} :
          /\ req' = [req EXCEPT ![h] = [machine |-> m, samples |-> batch,
                                        loaded |-> machine[m].status]]
          /\ settled' = [settled EXCEPT ![m] = IF batch = {} THEN @ \ {"presence"} ELSE {}]
    BY <1>4 DEF Authenticate
  <2>3. /\ req' \in [Handlers -> [machine : Machines, samples : SUBSET (1..MaxSamples),
                                   loaded : Statuses] \cup {NoRequest}]
        /\ \A g \in Handlers : pc'[g] # "idle" => req'[g].machine \in Machines
    BY <1>4, <2>1, <2>2 DEF Authenticate, TypeOK
  <2>4. settled' \in [Machines -> SUBSET {"presence", "thresholds"}]
    BY <2>2 DEF TypeOK
  <2>5. alone' \in [Handlers -> BOOLEAN]
    <3>1. alone' = [g \in Handlers |-> IF g = h THEN /\ \A k \in Handlers : ~Serving(k, m)
                                                   /\ \A s \in Schedulers : ~Passing(s, m)
                                      ELSE alone[g] /\ ~Serving(g, m)]
      BY <1>4 DEF Authenticate
    <3>2. QED BY <3>1, Zenon
  <2>7. pc' \in [Handlers -> PCs]
    BY <1>4 DEF Authenticate, TypeOK, PCs
  <2>6. QED BY <1>4, <2>3, <2>4, <2>5, <2>7 DEF Authenticate, TypeOK
<1>5. ASSUME NEW h \in Handlers, Ingest(h) PROVE TypeOK'
  BY <1>5, SettingsAssumption DEF Ingest, TypeOK, PCs, Ages, NoRequest
<1>6. ASSUME NEW h \in Handlers, ReadMetrics(h) PROVE TypeOK'
  BY <1>6 DEF ReadMetrics, TypeOK, PCs, HighOn
<1>7. ASSUME NEW h \in Handlers, Flush(h) PROVE TypeOK'
  BY <1>7 DEF Flush, TypeOK
<1>8. ASSUME NEW h \in Handlers, OpenAlert(h) PROVE TypeOK'
  BY <1>8, TableTypes DEF OpenAlert, TypeOK, AfterRule, PCs
<1>9. ASSUME NEW h \in Handlers, ResolveAlert(h) PROVE TypeOK'
  BY <1>9 DEF ResolveAlert, TypeOK, AfterRule, PCs, VisibleTo, RowsOf, AlertRows
<1>10. ASSUME NEW h \in Handlers, Commit(h) PROVE TypeOK'
  BY <1>10, TableTypes, RespondTypes DEF Commit, TypeOK, PCs
<1>11. ASSUME NEW h \in Handlers, CheckAnomalies(h) PROVE TypeOK'
  <2>1. CASE Respond(h)
    <3>1. UNCHANGED <<machine, alerts, taken, metrics, silent, marked, opening,
                      dirty, flushed, crashes>>
      BY <1>11 DEF CheckAnomalies
    <3>2. QED BY <3>1, <2>1, RespondTypes DEF TypeOK
  <2>2. CASE ~Respond(h)
    <3>1. PICK odd \in Verdicts : high' = [high EXCEPT ![h] = odd]
      BY <1>11, <2>2 DEF CheckAnomalies
    <3>2. high' \in [Handlers -> SUBSET AlertTypes]
      BY <3>1, ReadingsAssumption DEF TypeOK
    <3>3. /\ pc' = [pc EXCEPT ![h] = "cpu_anomaly"]
          /\ UNCHANGED <<req, alone, settled, machine, alerts, taken, metrics, silent, marked,
                         opening, dirty, flushed, crashes>>
          /\ pc[h] # "idle"
      BY <1>11, <2>2 DEF CheckAnomalies
    <3>4. pc' \in [Handlers -> PCs] /\ \A g \in Handlers : pc'[g] # "idle" => req'[g].machine \in Machines
      BY <3>3 DEF TypeOK, PCs
    <3>5. QED BY <3>2, <3>3, <3>4 DEF TypeOK
  <2>3. QED BY <2>1, <2>2
<1>12. ASSUME NEW h \in Handlers, CommitAnomalies(h) PROVE TypeOK'
  BY <1>12, TableTypes, RespondTypes DEF CommitAnomalies, TypeOK
<1>13. ASSUME NEW h \in Handlers, RequestFails(h) PROVE TypeOK'
  BY <1>13, TableTypes, SettingsAssumption DEF RequestFails, TypeOK, PCs
<1>14. ASSUME NEW s \in Schedulers, SelectSilent(s) PROVE TypeOK'
  BY <1>14 DEF SelectSilent, TypeOK
<1>15. ASSUME NEW s \in Schedulers, NEW m \in Machines, MarkOffline(s, m) PROVE TypeOK'
  BY <1>15 DEF MarkOffline, TypeOK
<1>16. ASSUME NEW s \in Schedulers, NEW m \in Machines, OpenOffline(s, m) PROVE TypeOK'
  BY <1>16, TableTypes DEF OpenOffline, TypeOK
<1>17. ASSUME NEW s \in Schedulers, CommitPass(s) PROVE TypeOK'
  <2>1. machine' \in [Machines -> [age : Ages, status : Statuses]]
    <3>1. \A m \in Machines : machine[m] \in [age : Ages, status : Statuses]
      BY DEF TypeOK
    <3>2. \A m \in Machines :
            [machine[m] EXCEPT !.status = "offline"] \in [age : Ages, status : Statuses]
      BY <3>1
    <3>3. machine' = [m \in Machines |-> [machine[m] EXCEPT !.status = StatusAfterPass(s, m)]]
      BY <1>17 DEF CommitPass
    <3>4. \A m \in Machines :
            [machine[m] EXCEPT !.status = StatusAfterPass(s, m)] \in [age : Ages, status : Statuses]
      BY <3>1, <3>2
    <3>5. QED BY <3>3, <3>4
  <2>2. settled' \in [Machines -> SUBSET {"presence", "thresholds"}]
    BY <1>17 DEF CommitPass, TypeOK
  <2>3. QED BY <1>17, <2>1, <2>2, TableTypes DEF CommitPass, TypeOK
<1>18. ASSUME NEW s \in Schedulers, PassFails(s) PROVE TypeOK'
  BY <1>18, TableTypes, SettingsAssumption DEF PassFails, TypeOK
<1>19. QED
  BY <1>1, <1>2, <1>3, <1>4, <1>5, <1>6, <1>7, <1>8, <1>9, <1>10, <1>11, <1>12, <1>13,
     <1>14, <1>15, <1>16, <1>17, <1>18 DEF Next, RequestStep, PassStep

\* Every reachable state is well typed.
THEOREM TypeCorrect == Spec => []TypeOK
BY InitTypeOK, NextTypeOK, PTL DEF Spec

-----------------------------------------------------------------------------
(* At most one open alert per machine and type.                            *)

\* r is on its way out: the transaction that inserted q has also emitted r's UPDATE.
ReplacedBy(r, q) == q.by # NoTx /\ r.id \in flushed[q.by]

\* Rows of one machine and type coexist only when one replaces the other, in a
\* transaction that makes both effects visible at once.
RowsInv ==
  /\ \A r, q \in alerts : r.id = q.id => r = q
  /\ \A r, q \in alerts :
       r.machine = q.machine /\ r.type = q.type => r = q \/ ReplacedBy(r, q) \/ ReplacedBy(q, r)

\* COMMIT keeps the invariant: the replaced rows go when the new ones stay.
LEMMA CommitRows ==
  ASSUME TypeOK, RowsInv, NEW x \in Tx, CommitAlerts(x)
  PROVE  RowsInv'
<1> DEFINE committed(r) == [r EXCEPT !.by = IF @ = x THEN NoTx ELSE @]
<1>1. \A r \in alerts : r.id \in AlertIds /\ r.by \in Tx \cup {NoTx} /\ r \in AlertRows
  BY DEF TypeOK, AlertRows
<1>2. \A r \in alerts : /\ committed(r).id = r.id
                         /\ committed(r).machine = r.machine
                         /\ committed(r).type = r.type
                         /\ committed(r).by = IF r.by = x THEN NoTx ELSE r.by
  BY <1>1 DEF AlertRows
<1>3. \A p \in alerts' : \E r \in alerts : p = committed(r) /\ r.id \notin flushed[x]
  <2>1. alerts' = {committed(r) : r \in {q \in alerts : q.id \notin flushed[x]}}
    BY DEF CommitAlerts
  <2> HIDE DEF committed
  <2>2. QED BY <2>1
<1>4. \A y \in Tx : y # x => flushed'[y] = flushed[y]
  BY DEF CommitAlerts, TypeOK
<1>5. \A p, o \in alerts' : p.id = o.id => p = o
  <2> HIDE DEF committed
  <2>1. QED BY <1>2, <1>3 DEF RowsInv
<1>6. ASSUME NEW p \in alerts', NEW o \in alerts', p.machine = o.machine, p.type = o.type
      PROVE  p = o \/ ReplacedBy(p, o)' \/ ReplacedBy(o, p)'
  <2>1. PICK r \in alerts : p = committed(r) /\ r.id \notin flushed[x]
    BY <1>3
  <2>2. PICK q \in alerts : o = committed(q) /\ q.id \notin flushed[x]
    BY <1>3
  <2>3. r = q \/ ReplacedBy(r, q) \/ ReplacedBy(q, r)
    BY <1>2, <1>6, <2>1, <2>2 DEF RowsInv
  <2>4. ASSUME ReplacedBy(r, q) PROVE ReplacedBy(p, o)'
    BY <1>1, <1>2, <1>4, <2>1, <2>2, <2>4 DEF ReplacedBy
  <2>5. ASSUME ReplacedBy(q, r) PROVE ReplacedBy(o, p)'
    BY <1>1, <1>2, <1>4, <2>1, <2>2, <2>5 DEF ReplacedBy
  <2>6. QED BY <2>1, <2>2, <2>3, <2>4, <2>5
<1>7. QED BY <1>5, <1>6 DEF RowsInv

\* ROLLBACK keeps the invariant: a replacement that is undone took its row with it.
LEMMA RollbackRows ==
  ASSUME TypeOK, RowsInv, NEW x \in Tx, RollbackAlerts(x)
  PROVE  RowsInv'
<1>1. \A y \in Tx : y # x => flushed'[y] = flushed[y]
  BY DEF RollbackAlerts, TypeOK
<1>2. \A r \in alerts' : r \in alerts /\ r.by # x /\ r.by \in Tx \cup {NoTx}
  BY DEF RollbackAlerts, TypeOK, AlertRows
<1>3. QED BY <1>1, <1>2 DEF RowsInv, ReplacedBy

\* INSERT ... ON CONFLICT DO NOTHING keeps the invariant.
LEMMA InsertRows ==
  ASSUME TypeOK, RowsInv, NEW x \in Tx, NEW m \in Machines, NEW t \in AlertTypes,
         InsertOpen(x, m, t), UNCHANGED flushed
  PROVE  RowsInv'
<1>1. CASE VisibleTo(x, m, t) # {}
  BY <1>1 DEF InsertOpen, RowsInv, ReplacedBy
<1>2. CASE VisibleTo(x, m, t) = {}
  <2> DEFINE row == [id |-> FreshId, machine |-> m, type |-> t, by |-> x]
  <2>1. alerts' = alerts \cup {row} /\ AlertIds \ UsedIds # {}
    BY <1>2 DEF InsertOpen
  <2>2. FreshId \notin UsedIds
    BY <2>1, FreshIdFact
  <2>3. \A r \in alerts : r.id # FreshId
    BY <2>2 DEF UsedIds
  <2>4. ASSUME NEW r \in alerts, r.machine = m, r.type = t
        PROVE  ReplacedBy(r, row)
    <3>1. r.by \in {NoTx, x}
      BY <2>4 DEF InsertOpen, InsertWaits, RowsOf
    <3>2. r.id \in flushed[x]
      BY <1>2, <2>4, <3>1 DEF VisibleTo, RowsOf
    <3>3. QED BY <3>2, TxAssumption DEF ReplacedBy
  <2>5. \A r, q : ReplacedBy(r, q)' <=> ReplacedBy(r, q)
    BY DEF ReplacedBy
  <2>6. QED BY <2>1, <2>3, <2>4, <2>5 DEF RowsInv
<1>3. QED BY <1>1, <1>2

\* Every step keeps the invariant.
LEMMA NextRows == ASSUME TypeOK, RowsInv, [Next]_vars PROVE RowsInv'
<1> USE DEF tables, requests, passes, history
<1>1. CASE UNCHANGED <<alerts, flushed>>
  BY <1>1 DEF RowsInv, ReplacedBy
<1>2. ASSUME NEW h \in Handlers, Flush(h) PROVE RowsInv'
  <2>1. \A x \in Tx : flushed[x] \subseteq flushed'[x]
    BY <1>2 DEF Flush, TypeOK
  <2>2. \A r \in alerts : r.by # NoTx => r.by \in Tx
    BY DEF TypeOK, AlertRows
  <2>3. QED BY <1>2, <2>1, <2>2 DEF Flush, RowsInv, ReplacedBy
<1>3. ASSUME NEW h \in Handlers, OpenAlert(h) PROVE RowsInv'
  <2>1. pc[h] \in AlertTypes /\ req[h].machine \in Machines
    BY <1>3 DEF OpenAlert, TypeOK
  <2>2. QED BY <1>3, <2>1, InsertRows DEF OpenAlert
<1>4. ASSUME NEW h \in Handlers, Commit(h) \/ CommitAnomalies(h) PROVE RowsInv'
  BY <1>4, CommitRows DEF Commit, CommitAnomalies
<1>5. ASSUME NEW h \in Handlers, RequestFails(h) PROVE RowsInv'
  BY <1>5, RollbackRows DEF RequestFails
<1>6. ASSUME NEW s \in Schedulers, NEW m \in Machines, OpenOffline(s, m) PROVE RowsInv'
  BY <1>6, InsertRows DEF OpenOffline
<1>7. ASSUME NEW s \in Schedulers, CommitPass(s) PROVE RowsInv'
  BY <1>7, CommitRows DEF CommitPass
<1>8. ASSUME NEW s \in Schedulers, PassFails(s) PROVE RowsInv'
  BY <1>8, RollbackRows DEF PassFails
<1>9. ASSUME NEW h \in Handlers, NEW m \in Machines, Authenticate(h, m) PROVE RowsInv'
  BY <1>9, <1>1 DEF Authenticate
<1>10. ASSUME NEW h \in Handlers,
              Ingest(h) \/ ReadMetrics(h) \/ ResolveAlert(h) \/ CheckAnomalies(h)
       PROVE  RowsInv'
  BY <1>10, <1>1 DEF Ingest, ReadMetrics, ResolveAlert, CheckAnomalies
<1>11. ASSUME NEW s \in Schedulers, NEW m \in Machines, MarkOffline(s, m)
       PROVE  RowsInv'
  BY <1>11, <1>1 DEF MarkOffline
<1>12. ASSUME NEW s \in Schedulers, SelectSilent(s) PROVE RowsInv'
  BY <1>12, <1>1 DEF SelectSilent
<1>13. ASSUME Tick \/ (\E m \in Machines : TakeSample(m)) \/ UNCHANGED vars PROVE RowsInv'
  BY <1>13, <1>1 DEF Tick, TakeSample, vars
<1>14. QED
  BY <1>2, <1>3, <1>4, <1>5, <1>6, <1>7, <1>8, <1>9, <1>10, <1>11, <1>12, <1>13
     DEF Next, RequestStep, PassStep

\* However requests and passes overlap and fail, a machine never has two open
\* alerts of one type (alerting.py:9): the service's idempotence claim, for any
\* number of API workers and schedulers.
THEOREM AtMostOneOpenAlert == Spec => []OneOpenAlert
<1>1. Init => RowsInv
  BY DEF Init, RowsInv
<1>2. RowsInv => OneOpenAlert
  BY DEF RowsInv, OneOpenAlert, ReplacedBy
<1>3. QED BY <1>1, <1>2, NextRows, TypeCorrect, PTL DEF Spec

-----------------------------------------------------------------------------
(* The offline alert and the offline status become visible together.       *)

\* An uncommitted offline alert belongs to a pass that holds the lock of its
\* machine's row; no request ever opens one.
OfflineRowsInv ==
  /\ \A r \in alerts : r.type = "offline" /\ r.by # NoTx
                       => r.by \in Schedulers /\ r.machine \in marked[r.by]
  /\ \A h \in Handlers : "offline" \notin high[h]
  /\ \A s \in Schedulers : opening[s] \subseteq marked[s]

\* COMMIT and ROLLBACK by x leave only rows that were there, by others than x.
LEMMA EndOfTransaction ==
  ASSUME TypeOK, NEW x \in Tx, CommitAlerts(x) \/ RollbackAlerts(x)
  PROVE  \A p \in alerts' : p.by # NoTx => p.by # x /\ p \in alerts
<1>1. CASE RollbackAlerts(x)
  BY <1>1 DEF RollbackAlerts
<1>2. CASE CommitAlerts(x)
  <2> DEFINE committed(r) == [r EXCEPT !.by = IF @ = x THEN NoTx ELSE @]
  <2>1. \A r \in alerts : r \in AlertRows
    BY DEF TypeOK
  <2>2. \A r \in alerts : r.by = x => committed(r).by = NoTx
    BY <2>1 DEF AlertRows
  <2>3. \A r \in alerts : r.by # x => committed(r) = r
    BY <2>1 DEF AlertRows
  <2>4. alerts' = {committed(r) : r \in {q \in alerts : q.id \notin flushed[x]}}
    BY <1>2 DEF CommitAlerts
  <2> HIDE DEF committed
  <2>5. QED BY <2>2, <2>3, <2>4
<1>3. QED BY <1>1, <1>2

\* Every step keeps the invariant.
LEMMA NextOfflineRows == ASSUME TypeOK, OfflineRowsInv, [Next]_vars PROVE OfflineRowsInv'
<1> USE DEF tables, requests, passes, history
<1>1. CASE UNCHANGED <<alerts, high, marked, opening>>
  BY <1>1 DEF OfflineRowsInv
<1>2. ASSUME NEW h \in Handlers, ReadMetrics(h) PROVE OfflineRowsInv'
  <2>1. \A g \in Handlers : "offline" \notin high'[g]
    BY <1>2 DEF ReadMetrics, OfflineRowsInv, TypeOK, HighOn
  <2>2. QED BY <1>2, <2>1 DEF ReadMetrics, OfflineRowsInv
<1>3. ASSUME NEW h \in Handlers, OpenAlert(h) PROVE OfflineRowsInv'
  <2>1. pc[h] # "offline"
    BY <1>3 DEF OpenAlert, OfflineRowsInv
  <2>2. \A r \in alerts' : r \in alerts \/ r.type # "offline"
    BY <1>3, <2>1 DEF OpenAlert, InsertOpen
  <2>3. \A g \in Handlers : "offline" \notin high'[g]
    BY <1>3 DEF OpenAlert, OfflineRowsInv, TypeOK
  <2>4. QED BY <1>3, <2>2, <2>3 DEF OpenAlert, OfflineRowsInv
<1>4. ASSUME NEW h \in Handlers, Commit(h) \/ CommitAnomalies(h) \/ RequestFails(h)
      PROVE  OfflineRowsInv'
  <2>1. \A r \in alerts' : r.by # NoTx => r \in alerts
    BY <1>4, EndOfTransaction DEF Commit, CommitAnomalies, RequestFails
  <2>2. \A g \in Handlers : "offline" \notin high'[g]
    <3>1. high' \in {high, [high EXCEPT ![h] = {}]}
      BY <1>4 DEF Commit, CommitAnomalies, RequestFails, Respond
    <3>2. QED BY <3>1 DEF OfflineRowsInv, TypeOK
  <2>3. UNCHANGED <<marked, opening>>
    BY <1>4 DEF Commit, CommitAnomalies, RequestFails
  <2>4. QED BY <2>1, <2>2, <2>3 DEF OfflineRowsInv
<1>5. ASSUME NEW h \in Handlers, CheckAnomalies(h) PROVE OfflineRowsInv'
  <2>1. \A g \in Handlers : "offline" \notin high'[g]
    <3>1. \E odd \in Verdicts \cup {{}} : high' = [high EXCEPT ![h] = odd]
      BY <1>5 DEF CheckAnomalies, Respond
    <3>2. \A odd \in Verdicts \cup {{}} : "offline" \notin odd
      BY ReadingsAssumption
    <3>3. QED BY <3>1, <3>2 DEF OfflineRowsInv, TypeOK
  <2>2. QED BY <1>5, <2>1 DEF CheckAnomalies, OfflineRowsInv
<1>6. ASSUME NEW s \in Schedulers, NEW m \in Machines, MarkOffline(s, m) PROVE OfflineRowsInv'
  BY <1>6 DEF MarkOffline, OfflineRowsInv, TypeOK
<1>7. ASSUME NEW s \in Schedulers, NEW m \in Machines, OpenOffline(s, m) PROVE OfflineRowsInv'
  <2>1. \A r \in alerts' : r \in alerts \/ (r.machine = m /\ r.by = s)
    BY <1>7 DEF OpenOffline, InsertOpen
  <2>2. m \in marked[s]
    BY <1>7 DEF OpenOffline, OfflineRowsInv
  <2>3. QED BY <1>7, <2>1, <2>2 DEF OpenOffline, OfflineRowsInv, TypeOK
<1>8. ASSUME NEW s \in Schedulers, CommitPass(s) \/ PassFails(s) PROVE OfflineRowsInv'
  <2>1. \A r \in alerts' : r.by # NoTx => r.by # s /\ r \in alerts
    BY <1>8, EndOfTransaction DEF CommitPass, PassFails
  <2>2. \A y \in Schedulers : /\ y # s => marked'[y] = marked[y] /\ opening'[y] = opening[y]
                              /\ opening'[s] = {}
    BY <1>8 DEF CommitPass, PassFails, TypeOK
  <2>3. UNCHANGED high
    BY <1>8 DEF CommitPass, PassFails
  <2>4. QED BY <2>1, <2>2, <2>3 DEF OfflineRowsInv
<1>9. ASSUME NEW h \in Handlers, NEW m \in Machines, Authenticate(h, m) PROVE OfflineRowsInv'
  BY <1>9, <1>1 DEF Authenticate
<1>10. ASSUME NEW h \in Handlers, Ingest(h) \/ Flush(h) \/ ResolveAlert(h)
       PROVE  OfflineRowsInv'
  BY <1>10, <1>1 DEF Ingest, Flush, ResolveAlert
<1>11. ASSUME NEW s \in Schedulers, SelectSilent(s) PROVE OfflineRowsInv'
  BY <1>11, <1>1 DEF SelectSilent
<1>12. ASSUME Tick \/ (\E m \in Machines : TakeSample(m)) \/ UNCHANGED vars
       PROVE  OfflineRowsInv'
  BY <1>12, <1>1 DEF Tick, TakeSample, vars
<1>13. QED
  BY <1>2, <1>3, <1>4, <1>5, <1>6, <1>7, <1>8, <1>9, <1>10, <1>11, <1>12
     DEF Next, RequestStep, PassStep

\* A step that makes an offline alert visible shows its machine offline.
LEMMA VisibleWithStatus ==
  ASSUME TypeOK, OfflineRowsInv, [Next]_vars, NEW m \in Machines,
         ~IsOpen(m, "offline"), IsOpen(m, "offline")'
  PROVE  machine'[m].status = "offline"
<1> USE DEF tables, requests, passes, history
<1>1. PICK p \in alerts' : p.machine = m /\ p.type = "offline" /\ p.by = NoTx
  BY DEF IsOpen
<1>2. p \notin alerts
  BY <1>1 DEF IsOpen
<1>3. ASSUME NEW x \in Tx, CommitAlerts(x)
      PROVE  x \in Schedulers /\ m \in marked[x]
  <2>1. PICK r \in alerts : p = [r EXCEPT !.by = IF @ = x THEN NoTx ELSE @]
    BY <1>3 DEF CommitAlerts
  <2>2. r \in AlertRows
    BY DEF TypeOK
  <2>3. r.machine = m /\ r.type = "offline" /\ (r.by # x => p = r)
    BY <1>1, <2>1, <2>2 DEF AlertRows
  <2>4. r.by = x
    BY <1>2, <2>3
  <2>5. QED BY <2>3, <2>4, TxAssumption DEF OfflineRowsInv
<1>4. ASSUME NEW x \in Tx, NEW n \in Machines, NEW t \in AlertTypes, InsertOpen(x, n, t)
      PROVE  FALSE
  <2>1. p.by = x
    BY <1>2, <1>4 DEF InsertOpen
  <2>2. QED BY <1>1, <2>1, TxAssumption
<1>5. ASSUME NEW x \in Tx, RollbackAlerts(x) PROVE FALSE
  BY <1>2, <1>5 DEF RollbackAlerts
<1>6. ASSUME NEW s \in Schedulers, CommitPass(s) PROVE machine'[m].status = "offline"
  <2>1. m \in marked[s]
    BY <1>3, <1>6 DEF CommitPass
  <2>2. machine[m] \in [age : Ages, status : Statuses]
    BY DEF TypeOK
  <2>3. QED BY <1>6, <2>1, <2>2 DEF CommitPass
<1>7. ASSUME NEW h \in Handlers, Commit(h) \/ CommitAnomalies(h) PROVE FALSE
  BY <1>3, <1>7, TxAssumption DEF Commit, CommitAnomalies
<1>8. ASSUME NEW h \in Handlers, OpenAlert(h) PROVE FALSE
  BY <1>4, <1>8 DEF OpenAlert, TypeOK
<1>9. ASSUME NEW s \in Schedulers, NEW n \in Machines, OpenOffline(s, n) PROVE FALSE
  BY <1>4, <1>9 DEF OpenOffline
<1>10. ASSUME NEW h \in Handlers, RequestFails(h) PROVE FALSE
  BY <1>5, <1>10 DEF RequestFails
<1>11. ASSUME NEW s \in Schedulers, PassFails(s) PROVE FALSE
  BY <1>5, <1>11 DEF PassFails
<1>12. ASSUME UNCHANGED alerts PROVE FALSE
  BY <1>2, <1>12
<1>13. ASSUME NEW h \in Handlers, NEW n \in Machines, Authenticate(h, n) PROVE FALSE
  BY <1>12, <1>13 DEF Authenticate
<1>14. ASSUME NEW h \in Handlers,
              Ingest(h) \/ ReadMetrics(h) \/ Flush(h) \/ ResolveAlert(h) \/ CheckAnomalies(h)
       PROVE  FALSE
  BY <1>12, <1>14 DEF Ingest, ReadMetrics, Flush, ResolveAlert, CheckAnomalies
<1>15. ASSUME NEW s \in Schedulers, NEW n \in Machines, MarkOffline(s, n) PROVE FALSE
  BY <1>12, <1>15 DEF MarkOffline
<1>16. ASSUME NEW s \in Schedulers, SelectSilent(s) PROVE FALSE
  BY <1>12, <1>16 DEF SelectSilent
<1>17. ASSUME Tick \/ (\E n \in Machines : TakeSample(n)) \/ UNCHANGED vars PROVE FALSE
  BY <1>12, <1>17 DEF Tick, TakeSample, vars
<1>18. QED
  BY <1>6, <1>7, <1>8, <1>9, <1>10, <1>11, <1>13, <1>14, <1>15, <1>16, <1>17
     DEF Next, RequestStep, PassStep

\* The offline alert is never visible before the offline status: whatever
\* contacts race with the pass, both appear in the commit of one pass.
THEOREM AlertAndStatusTogether == Spec => OfflineAlertWithStatus
<1>1. Init => OfflineRowsInv
  BY DEF Init, OfflineRowsInv
<1>2. TypeOK /\ OfflineRowsInv /\ [Next]_vars
        => [\A m \in Machines : ~IsOpen(m, "offline") /\ IsOpen(m, "offline")'
              => machine'[m].status = "offline"]_vars
  BY VisibleWithStatus
<1>3. QED BY <1>1, <1>2, NextOfflineRows, TypeCorrect, PTL DEF Spec, OfflineAlertWithStatus

-----------------------------------------------------------------------------
(* Whose rows a transaction holds.                                         *)

\* Request g can still change the threshold alerts of m.
Reports(g, m) == Serving(g, m) /\ req[g].samples # {}

\* The alerts transaction x has resolved, emitted or not.
Touched(x) == dirty[x] \cup flushed[x]

\* A request inserts and resolves rows of its own machine only, and a heartbeat
\* (no samples) none but the offline alert; a pass resolves nothing; between two
\* transactions a request holds no row at all.
OwnInv ==
  /\ \A r \in alerts : /\ r.by \in Handlers => Reports(r.by, r.machine)
                       /\ r.by \in Schedulers => r.type = "offline"
  /\ \A r \in alerts, g \in Handlers :
       r.id \in Touched(g) => Serving(g, r.machine) /\ (r.type = "offline" \/ req[g].samples # {})
  /\ \A s \in Schedulers : Touched(s) = {}
  /\ \A g \in Handlers :
       pc[g] \in {"idle", "ingest", "read", "read_window"}
         => Touched(g) = {} /\ \A r \in alerts : r.by # g
  /\ \A g \in Handlers : req[g].samples = {} => pc[g] \in {"idle", "ingest", "offline", "commit"}

\* What the types say of one row.
LEMMA RowTypes ==
  ASSUME TypeOK
  PROVE  \A r \in alerts : /\ r.id \in AlertIds /\ r.machine \in Machines
                           /\ r.type \in AlertTypes /\ r.by \in Tx \cup {NoTx}
BY DEF TypeOK, AlertRows

\* p is the row r after the COMMIT of x.
SameBut(p, r, x) ==
  /\ p.id = r.id /\ p.machine = r.machine /\ p.type = r.type
  /\ p.by = IF r.by = x THEN NoTx ELSE r.by

\* COMMIT by x, row by row: what is resolved goes, what x inserted is published.
LEMMA CommitView ==
  ASSUME TypeOK, NEW x \in Tx, CommitAlerts(x)
  PROVE  /\ \A p \in alerts' : \E r \in alerts : r.id \notin flushed[x] /\ SameBut(p, r, x)
         /\ \A r \in alerts : r.id \notin flushed[x] => \E p \in alerts' : SameBut(p, r, x)
         /\ \A r \in alerts : r.id \notin flushed[x] /\ r.by # x => r \in alerts'
         /\ \A p \in alerts' : p.by # NoTx => p \in alerts /\ p.by # x /\ p.id \notin flushed[x]
         /\ flushed' = [flushed EXCEPT ![x] = {}]
<1> DEFINE committed(r) == [r EXCEPT !.by = IF @ = x THEN NoTx ELSE @]
<1>1. \A r \in alerts : r \in AlertRows
  BY DEF TypeOK
<1>2. \A r \in alerts : SameBut(committed(r), r, x) /\ (r.by # x => committed(r) = r)
  BY <1>1 DEF SameBut, AlertRows
<1>3. alerts' = {committed(r) : r \in {q \in alerts : q.id \notin flushed[x]}}
  BY DEF CommitAlerts
<1>4. flushed' = [flushed EXCEPT ![x] = {}]
  BY DEF CommitAlerts
<1> HIDE DEF committed
<1>5. \A p \in alerts' : \E r \in alerts : /\ r.id \notin flushed[x] /\ SameBut(p, r, x)
                                           /\ (p.by # NoTx => p = r /\ p.by # x)
  BY <1>2, <1>3, TxAssumption DEF SameBut
<1>6. \A r \in alerts : r.id \notin flushed[x] =>
         /\ \E p \in alerts' : SameBut(p, r, x)
         /\ r.by # x => r \in alerts'
  BY <1>2, <1>3
<1>7. QED BY <1>4, <1>5, <1>6

\* The invariant holds before any request has started.
LEMMA InitOwn == ASSUME Init PROVE OwnInv
  BY DEF Init, OwnInv, Touched, NoRequest

\* The end of a transaction keeps the invariant, whether the request goes on
\* (same machine and samples) or is over.
LEMMA EndOwn ==
  ASSUME TypeOK, OwnInv, NEW x \in Tx,
         (CommitAlerts(x) /\ dirty[x] = {} /\ UNCHANGED dirty) \/ RollbackAlerts(x),
         \A g \in Handlers : g # x => pc'[g] = pc[g] /\ req'[g] = req[g],
         x \in Handlers => \/ pc'[x] = "idle"
                           \/ pc'[x] = "read_window" /\ req'[x].samples # {}
  PROVE  OwnInv'
<1>1. /\ \A p \in alerts' : p.by # NoTx => p \in alerts /\ p.by # x
      /\ \A p \in alerts' : \E r \in alerts : p.id = r.id /\ p.machine = r.machine /\ p.type = r.type
  BY CommitView DEF RollbackAlerts, SameBut
<1>2. /\ \A y \in Tx : y # x => Touched(y)' = Touched(y)
      /\ Touched(x)' = {}
  BY DEF RollbackAlerts, CommitAlerts, Touched, TypeOK
<1>3. \A g \in Handlers : g \in Tx /\ g # NoTx
  BY TxAssumption
<1>4. \A g \in Handlers : g # x => /\ pc'[g] = pc[g] /\ req'[g] = req[g]
                                   /\ \A m : Serving(g, m)' <=> Serving(g, m)
                                   /\ \A m : Reports(g, m)' <=> Reports(g, m)
  BY DEF Serving, Reports
<1>5. \A p \in alerts' : p.by \in Handlers => Reports(p.by, p.machine)'
  BY <1>1, <1>3, <1>4 DEF OwnInv
<1>6. \A p \in alerts' : p.by \in Schedulers => p.type = "offline"
  BY <1>1, TxAssumption DEF OwnInv
<1>7. ASSUME NEW p \in alerts', NEW g \in Handlers, p.id \in Touched(g)'
      PROVE  Serving(g, p.machine)' /\ (p.type = "offline" \/ req'[g].samples # {})
  <2>1. g # x /\ p.id \in Touched(g)
    BY <1>2, <1>3, <1>7
  <2>2. PICK r \in alerts : p.id = r.id /\ p.machine = r.machine /\ p.type = r.type
    BY <1>1
  <2>3. Serving(g, r.machine) /\ (r.type = "offline" \/ req[g].samples # {})
    BY <2>1, <2>2 DEF OwnInv
  <2>4. QED BY <1>4, <2>1, <2>2, <2>3
<1>8. \A s \in Schedulers : Touched(s)' = {}
  BY <1>2 DEF OwnInv
<1>9. \A g \in Handlers :
       pc'[g] \in {"idle", "ingest", "read", "read_window"}
         => Touched(g)' = {} /\ \A r \in alerts' : r.by # g
  BY <1>1, <1>2, <1>3, <1>4 DEF OwnInv
<1>10. \A g \in Handlers : req'[g].samples = {} => pc'[g] \in {"idle", "ingest", "offline", "commit"}
  BY <1>4 DEF OwnInv
<1>11. QED BY <1>5, <1>6, <1>7, <1>8, <1>9, <1>10 DEF OwnInv

\* INSERT ... ON CONFLICT DO NOTHING, row by row: afterwards the transaction has
\* a row of that machine and type, its own or one it found, that nobody resolves.
LEMMA InsertView ==
  ASSUME TypeOK, NEW x \in Tx, NEW m \in Machines, NEW t \in AlertTypes, InsertOpen(x, m, t)
  PROVE  /\ alerts \subseteq alerts'
         /\ \A r \in alerts' \ alerts :
              /\ r.machine = m /\ r.type = t /\ r.by = x
              /\ \A y \in Tx : r.id \notin Touched(y)
         /\ \E r \in alerts' : /\ r.machine = m /\ r.type = t /\ r.by \in {NoTx, x}
                               /\ r.id \notin flushed[x]
<1>1. CASE VisibleTo(x, m, t) # {}
  <2>1. PICK r \in VisibleTo(x, m, t) : TRUE
    BY <1>1
  <2>2. QED BY <1>1, <2>1 DEF InsertOpen, VisibleTo, RowsOf
<1>2. CASE VisibleTo(x, m, t) = {}
  <2> DEFINE row == [id |-> FreshId, machine |-> m, type |-> t, by |-> x]
  <2>1. alerts' = alerts \cup {row} /\ AlertIds \ UsedIds # {}
    BY <1>2 DEF InsertOpen
  <2>2. FreshId \notin UsedIds
    BY <2>1, FreshIdFact
  <2>3. \A y \in Tx : FreshId \notin dirty[y] /\ FreshId \notin flushed[y]
    BY <2>2 DEF UsedIds
  <2>4. row.id = FreshId /\ row.machine = m /\ row.type = t /\ row.by = x
    OBVIOUS
  <2> HIDE DEF row
  <2>5. \A r \in alerts' \ alerts : r = row
    BY <2>1
  <2>6. row \in alerts' /\ row.id \notin flushed[x]
    BY <2>1, <2>3, <2>4
  <2>7. \A y \in Tx : row.id \notin Touched(y)
    BY <2>3, <2>4 DEF Touched
  <2>8. QED BY <2>1, <2>4, <2>5, <2>6, <2>7
<1>3. QED BY <1>1, <1>2

\* An INSERT keeps the invariant when its owner may insert that row.
LEMMA InsertOwn ==
  ASSUME TypeOK, OwnInv, NEW x \in Tx, NEW m \in Machines, NEW t \in AlertTypes,
         InsertOpen(x, m, t), UNCHANGED <<dirty, flushed, req>>,
         \A g \in Handlers : g # x => pc'[g] = pc[g],
         x \in Schedulers => t = "offline" /\ UNCHANGED pc,
         x \in Handlers => /\ Reports(x, m)
                           /\ pc'[x] \notin {"idle", "ingest", "read", "read_window"}
  PROVE  OwnInv'
<1> DEFINE new == alerts' \ alerts
<1>1. \A r \in new : /\ r.machine = m /\ r.type = t /\ r.by = x
                     /\ \A y \in Tx : r.id \notin Touched(y)
  BY InsertView
<1>2. \A y \in Tx : Touched(y)' = Touched(y)
  BY DEF Touched
<1>3. \A g \in Handlers : \A n : Serving(g, n) => Serving(g, n)'
  BY DEF Serving
<1>4. \A g \in Handlers : \A n : Reports(g, n) => Reports(g, n)'
  BY <1>3 DEF Reports
<1>5. \A g \in Handlers : g \in Tx /\ g \notin Schedulers
  BY TxAssumption
<1>6. \A r \in alerts' : /\ r.by \in Handlers => Reports(r.by, r.machine)'
                         /\ r.by \in Schedulers => r.type = "offline"
  <2>1. \A r \in alerts : /\ r.by \in Handlers => Reports(r.by, r.machine)'
                          /\ r.by \in Schedulers => r.type = "offline"
    BY <1>4 DEF OwnInv
  <2>2. \A r \in new : /\ r.by \in Handlers => Reports(r.by, r.machine)'
                       /\ r.by \in Schedulers => r.type = "offline"
    BY <1>1, <1>4
  <2>3. QED BY <2>1, <2>2
<1>7. ASSUME NEW r \in alerts', NEW g \in Handlers, r.id \in Touched(g)'
      PROVE  Serving(g, r.machine)' /\ (r.type = "offline" \/ req'[g].samples # {})
  <2>1. r \in alerts /\ r.id \in Touched(g)
    BY <1>1, <1>2, <1>5, <1>7
  <2>2. QED BY <1>3, <2>1 DEF OwnInv
<1>8. ASSUME NEW g \in Handlers, pc'[g] \in {"idle", "ingest", "read", "read_window"}
      PROVE  Touched(g)' = {} /\ \A r \in alerts' : r.by # g
  <2>1. g # x /\ pc'[g] = pc[g]
    BY <1>8, <1>5
  <2>2. QED BY <1>1, <1>2, <1>5, <1>8, <2>1 DEF OwnInv
<1>9. \A g \in Handlers : req'[g].samples = {} => pc'[g] \in {"idle", "ingest", "offline", "commit"}
  <2>1. \A g \in Handlers : g = x => req[g].samples # {}
    BY DEF Reports
  <2>2. QED BY <1>5, <2>1 DEF OwnInv
<1>10. QED BY <1>2, <1>6, <1>7, <1>8, <1>9 DEF OwnInv

\* Every step keeps the invariant.
LEMMA NextOwn == ASSUME TypeOK, RowsInv, OfflineRowsInv, OwnInv, [Next]_vars PROVE OwnInv'
<1> USE DEF tables, requests, passes, history
<1>0. \A g \in Handlers : g \in Tx /\ g \notin Schedulers /\ g # NoTx
  BY TxAssumption
<1>1. CASE UNCHANGED <<alerts, dirty, flushed, pc, req>>
  BY <1>1 DEF OwnInv, Touched, Reports, Serving
<1>2. ASSUME NEW h \in Handlers, NEW m \in Machines, Authenticate(h, m) PROVE OwnInv'
  <2>1. /\ \A g \in Handlers : g # h => pc'[g] = pc[g] /\ req'[g] = req[g]
        /\ pc[h] = "idle" /\ pc'[h] = "ingest"
        /\ UNCHANGED <<alerts, dirty, flushed>>
    BY <1>2 DEF Authenticate, TypeOK
  <2>2. \A x \in Tx : Touched(x)' = Touched(x)
    BY <2>1 DEF Touched
  <2>3. \A g \in Handlers : g # h => /\ \A n : Serving(g, n)' <=> Serving(g, n)
                                     /\ \A n : Reports(g, n)' <=> Reports(g, n)
    BY <2>1 DEF Serving, Reports
  <2>4. Touched(h) = {} /\ \A r \in alerts : r.by # h
    BY <2>1 DEF OwnInv
  <2>5. QED BY <1>0, <2>1, <2>2, <2>3, <2>4 DEF OwnInv
<1>3. ASSUME NEW h \in Handlers, UNCHANGED <<alerts, dirty, flushed, req>>,
             pc[h] # "idle", \A g \in Handlers : g # h => pc'[g] = pc[g],
             pc'[h] # "idle",
             pc'[h] \in {"ingest", "read", "read_window"} => pc[h] \in {"ingest", "read", "read_window"},
             req[h].samples = {} => pc'[h] \in {"ingest", "offline", "commit"}
      PROVE  OwnInv'
  <2>1. \A x \in Tx : Touched(x)' = Touched(x)
    BY <1>3 DEF Touched
  <2>2. \A g \in Handlers : /\ \A n : Serving(g, n)' <=> Serving(g, n)
                            /\ \A n : Reports(g, n)' <=> Reports(g, n)
    BY <1>3 DEF Serving, Reports
  <2>3. QED BY <1>0, <1>3, <2>1, <2>2 DEF OwnInv
<1>4. ASSUME NEW h \in Handlers, Ingest(h) PROVE OwnInv'
  <2>1. pc[h] = "ingest" /\ pc' = [pc EXCEPT ![h] = IF req[h].samples = {} THEN "offline" ELSE "read"]
        /\ UNCHANGED <<alerts, dirty, flushed, req>>
    BY <1>4 DEF Ingest
  <2>2. QED BY <1>3, <2>1 DEF TypeOK
<1>5. ASSUME NEW h \in Handlers, ReadMetrics(h) PROVE OwnInv'
  <2>1. pc[h] = "read" /\ pc' = [pc EXCEPT ![h] = "cpu_high"]
        /\ UNCHANGED <<alerts, dirty, flushed, req>>
    BY <1>5 DEF ReadMetrics
  <2>2. QED BY <1>3, <2>1 DEF TypeOK, OwnInv
<1>6. ASSUME NEW h \in Handlers, Flush(h) PROVE OwnInv'
  <2>1. \A x \in Tx : Touched(x)' = Touched(x)
    BY <1>6 DEF Flush, Touched, TypeOK
  <2>2. QED BY <1>0, <1>6, <2>1 DEF Flush, OwnInv, Serving, Reports
<1>7. ASSUME NEW h \in Handlers, OpenAlert(h) PROVE OwnInv'
  <2>1. /\ pc[h] \in AlertTypes \ {"offline"}
        /\ pc' = [pc EXCEPT ![h] = AfterRule[@]]
        /\ UNCHANGED <<dirty, flushed, req>>
        /\ InsertOpen(h, req[h].machine, pc[h])
    BY <1>7 DEF OpenAlert, OfflineRowsInv, TypeOK
  <2>2. pc'[h] \in AlertTypes \cup {"commit", "commit_anomaly"}
    BY <2>1 DEF AfterRule, TypeOK
  <2>3. req[h].machine \in Machines /\ Reports(h, req[h].machine)
    BY <2>1 DEF OwnInv, Reports, Serving, TypeOK
  <2>4. \A g \in Handlers : g # h => pc'[g] = pc[g]
    BY <2>1 DEF TypeOK
  <2>5. QED BY <1>0, <2>1, <2>2, <2>3, <2>4, InsertOwn
<1>8. ASSUME NEW h \in Handlers, ResolveAlert(h) PROVE OwnInv'
  <2> DEFINE m == req[h].machine
  <2>1. /\ pc[h] \in AlertTypes /\ dirty[h] = {}
        /\ pc' = [pc EXCEPT ![h] = AfterRule[@]]
        /\ dirty' = [dirty EXCEPT ![h] = FoundOpen(h)]
        /\ UNCHANGED <<alerts, flushed, req>>
    BY <1>8 DEF ResolveAlert
  <2>2. /\ pc'[h] \in AlertTypes \cup {"commit", "commit_anomaly"}
        /\ pc[h] = "offline" => pc'[h] = "commit"
    BY <2>1 DEF AfterRule, TypeOK
  <2>3. \A g \in Handlers : g # h => pc'[g] = pc[g] /\ Touched(g)' = Touched(g)
    BY <1>0, <2>1 DEF Touched, TypeOK
  <2>4. Touched(h)' = FoundOpen(h) \cup flushed[h] /\ flushed[h] \subseteq Touched(h)
    BY <1>0, <2>1 DEF Touched, TypeOK
  <2>5. \A g \in Handlers : /\ \A n : Serving(g, n)' <=> Serving(g, n)
                            /\ \A n : Reports(g, n)' <=> Reports(g, n)
    BY <2>1, <2>2, <2>3 DEF Serving, Reports
  <2>6. ASSUME NEW r \in alerts, r.id \in FoundOpen(h)
        PROVE  Serving(h, r.machine) /\ (r.type = "offline" \/ req[h].samples # {})
    <3>1. r.machine = m /\ r.type = pc[h]
      BY <2>6 DEF VisibleTo, RowsOf, RowsInv
    <3>2. QED BY <2>1, <3>1 DEF Serving, OwnInv
  <2>7. \A r \in alerts, g \in Handlers :
          r.id \in Touched(g)' => Serving(g, r.machine) /\ (r.type = "offline" \/ req[g].samples # {})
    <3>1. \A r \in alerts, g \in Handlers :
            r.id \in Touched(g) => Serving(g, r.machine) /\ (r.type = "offline" \/ req[g].samples # {})
      BY DEF OwnInv
    <3>2. QED BY <2>3, <2>4, <2>6, <3>1
  <2>8. \A s \in Schedulers : Touched(s)' = Touched(s)
    BY <1>0, <2>1 DEF Touched, TypeOK
  <2>9. \A g \in Handlers : req'[g].samples = {} => pc'[g] \in {"idle", "ingest", "offline", "commit"}
    BY <2>1, <2>2, <2>3 DEF OwnInv
  <2>10. \A g \in Handlers :
       pc'[g] \in {"idle", "ingest", "read", "read_window"}
         => Touched(g)' = {} /\ \A r \in alerts' : r.by # g
    BY <2>1, <2>2, <2>3 DEF OwnInv
  <2>11. QED BY <2>1, <2>5, <2>7, <2>8, <2>9, <2>10 DEF OwnInv
<1>9. ASSUME NEW h \in Handlers, Commit(h) PROVE OwnInv'
  <2>1. CASE Respond(h)
    BY <1>0, <1>9, <2>1, EndOwn DEF Commit, Respond, TypeOK
  <2>2. CASE ~Respond(h)
    <3>1. /\ CommitAlerts(h) /\ dirty[h] = {} /\ UNCHANGED <<dirty, req>>
          /\ req[h].samples # {}
          /\ pc' = [pc EXCEPT ![h] = "read_window"]
      BY <1>9, <2>2 DEF Commit
    <3>2. pc'[h] = "read_window" /\ \A g \in Handlers : g # h => pc'[g] = pc[g]
      BY <3>1 DEF TypeOK
    <3>3. QED BY <1>0, <3>1, <3>2, EndOwn
  <2>3. QED BY <2>1, <2>2
<1>10. ASSUME NEW h \in Handlers, CommitAnomalies(h) PROVE OwnInv'
  BY <1>0, <1>10, EndOwn DEF CommitAnomalies, Respond, TypeOK
<1>11. ASSUME NEW h \in Handlers, RequestFails(h) PROVE OwnInv'
  <2>1. /\ RollbackAlerts(h)
        /\ pc' = [pc EXCEPT ![h] = "idle"]
        /\ req' = [req EXCEPT ![h] = NoRequest]
    BY <1>11 DEF RequestFails
  <2>2. /\ pc'[h] = "idle"
        /\ \A g \in Handlers : g # h => pc'[g] = pc[g] /\ req'[g] = req[g]
    BY <2>1 DEF TypeOK
  <2>3. QED BY <1>0, <2>1, <2>2, EndOwn
<1>12. ASSUME NEW h \in Handlers, CheckAnomalies(h) PROVE OwnInv'
  <2>1. pc[h] = "read_window" /\ UNCHANGED <<alerts, dirty, flushed>>
    BY <1>12 DEF CheckAnomalies
  <2>2. CASE Respond(h)
    <3>1. /\ \A g \in Handlers : g # h => pc'[g] = pc[g] /\ req'[g] = req[g]
          /\ pc'[h] = "idle"
      BY <2>2 DEF Respond, TypeOK
    <3>2. \A x \in Tx : Touched(x)' = Touched(x)
      BY <2>1 DEF Touched
    <3>3. \A g \in Handlers : g # h => /\ \A n : Serving(g, n)' <=> Serving(g, n)
                                       /\ \A n : Reports(g, n)' <=> Reports(g, n)
      BY <3>1 DEF Serving, Reports
    <3>4. Touched(h) = {} /\ \A r \in alerts : r.by # h
      BY <2>1 DEF OwnInv
    <3>5. QED BY <1>0, <2>1, <3>1, <3>2, <3>3, <3>4 DEF OwnInv
  <2>3. CASE ~Respond(h)
    <3>1. pc' = [pc EXCEPT ![h] = "cpu_anomaly"] /\ UNCHANGED req
      BY <1>12, <2>3 DEF CheckAnomalies
    <3>2. QED BY <1>3, <2>1, <3>1 DEF TypeOK, OwnInv
  <2>4. QED BY <2>2, <2>3
<1>13. ASSUME NEW s \in Schedulers, NEW m \in Machines, OpenOffline(s, m) PROVE OwnInv'
  BY <1>0, <1>13, InsertOwn DEF OpenOffline
<1>14. ASSUME NEW s \in Schedulers, CommitPass(s) \/ PassFails(s) PROVE OwnInv'
  <2>1. dirty[s] = {} /\ s \in Tx /\ s \notin Handlers
    BY TxAssumption DEF OwnInv, Touched
  <2>2. (CommitAlerts(s) /\ UNCHANGED dirty) \/ RollbackAlerts(s)
    BY <1>14 DEF CommitPass, PassFails
  <2>3. UNCHANGED <<pc, req>>
    BY <1>14 DEF CommitPass, PassFails
  <2>4. QED BY <2>1, <2>2, <2>3, EndOwn
<1>15. ASSUME NEW s \in Schedulers, SelectSilent(s) \/ \E m \in Machines : MarkOffline(s, m)
       PROVE  OwnInv'
  BY <1>1, <1>15 DEF SelectSilent, MarkOffline
<1>16. ASSUME Tick \/ (\E m \in Machines : TakeSample(m)) \/ UNCHANGED vars PROVE OwnInv'
  BY <1>16, <1>1 DEF Tick, TakeSample, vars
<1>17. QED
  BY <1>2, <1>4, <1>5, <1>6, <1>7, <1>8, <1>9, <1>10, <1>11, <1>12, <1>13, <1>14, <1>15, <1>16
     DEF Next, RequestStep, PassStep

-----------------------------------------------------------------------------
(* The stored samples, and what they demand.                               *)

\* Every stored sample was measured, and a request past its first statement has
\* its whole batch stored.
SamplesInv ==
  /\ \A m \in Machines : metrics[m] \subseteq 1..Len(taken[m])
  /\ \A g \in Handlers : pc[g] # "idle" =>
       /\ req[g].samples \subseteq 1..Len(taken[req[g].machine])
       /\ pc[g] # "ingest" => req[g].samples \subseteq metrics[req[g].machine]

\* The invariant holds before any sample is taken.
LEMMA InitSamples == ASSUME Init PROVE SamplesInv
  BY DEF Init, SamplesInv

\* Every step keeps the invariant.
LEMMA NextSamples == ASSUME TypeOK, SamplesInv, [Next]_vars PROVE SamplesInv'
<1> USE DEF tables, requests, passes, history
<1>1. CASE UNCHANGED <<metrics, taken, pc, req>>
  BY <1>1 DEF SamplesInv
<1>2. ASSUME NEW m \in Machines, TakeSample(m) PROVE SamplesInv'
  <2>1. PICK reading \in Readings : taken' = [taken EXCEPT ![m] = Append(@, reading)]
    BY <1>2 DEF TakeSample
  <2>2. UNCHANGED <<metrics, pc, req>>
    BY <1>2 DEF TakeSample
  <2>3. \A n \in Machines : taken[n] \in Seq(Readings) /\ Len(taken[n]) \in Nat
    BY DEF TypeOK
  <2>4. \A n \in Machines : Len(taken'[n]) \in Nat /\ Len(taken[n]) <= Len(taken'[n])
    BY <2>1, <2>3 DEF TypeOK
  <2>5. \A n \in Machines : 1..Len(taken[n]) \subseteq 1..Len(taken'[n])
    BY <2>3, <2>4
  <2>6. QED BY <2>2, <2>5 DEF SamplesInv, TypeOK
<1>3. ASSUME NEW h \in Handlers, NEW m \in Machines, Authenticate(h, m) PROVE SamplesInv'
  <2>1. PICK batch \in Batches(m) \cup {{}} :
          req' = [req EXCEPT ![h] = [machine |-> m, samples |-> batch,
                                     loaded |-> machine[m].status]]
    BY <1>3 DEF Authenticate
  <2>2. batch \subseteq 1..Len(taken[m])
    BY <2>1 DEF Batches, TypeOK
  <2>3. /\ pc'[h] = "ingest" /\ req'[h].machine = m /\ req'[h].samples = batch
        /\ \A g \in Handlers : g # h => pc'[g] = pc[g] /\ req'[g] = req[g]
        /\ UNCHANGED <<metrics, taken>>
    BY <1>3, <2>1 DEF Authenticate, TypeOK
  <2>4. QED BY <2>2, <2>3 DEF SamplesInv
<1>4. ASSUME NEW h \in Handlers, Ingest(h) PROVE SamplesInv'
  <2> DEFINE m == req[h].machine
  <2>1. /\ pc[h] = "ingest" /\ m \in Machines
        /\ metrics' = [metrics EXCEPT ![m] = @ \cup req[h].samples]
        /\ pc' = [pc EXCEPT ![h] = IF req[h].samples = {} THEN "offline" ELSE "read"]
        /\ UNCHANGED <<taken, req>>
    BY <1>4 DEF Ingest, TypeOK
  <2>2. req[h].samples \subseteq 1..Len(taken[m])
    BY <2>1 DEF SamplesInv
  <2>3. \A n \in Machines : metrics[n] \subseteq metrics'[n] /\ metrics'[n] \subseteq 1..Len(taken[n])
    BY <2>1, <2>2 DEF SamplesInv, TypeOK
  <2>4. req[h].samples \subseteq metrics'[m]
    BY <2>1 DEF TypeOK
  <2>5. \A g \in Handlers : g # h => pc'[g] = pc[g]
    BY <2>1 DEF TypeOK
  <2>6. QED BY <2>1, <2>2, <2>3, <2>4, <2>5 DEF SamplesInv, TypeOK
<1>5. ASSUME NEW h \in Handlers, pc[h] \notin {"idle", "ingest"}, UNCHANGED <<metrics, taken>>,
             \A g \in Handlers : g # h => pc'[g] = pc[g] /\ req'[g] = req[g],
             pc'[h] = "idle" \/ req'[h] = req[h]
      PROVE  SamplesInv'
  BY <1>5 DEF SamplesInv
<1>6. ASSUME NEW h \in Handlers,
             ReadMetrics(h) \/ OpenAlert(h) \/ ResolveAlert(h)
      PROVE SamplesInv'
  <2>1. pc[h] \notin {"idle", "ingest"} /\ UNCHANGED <<metrics, taken, req>>
    BY <1>6 DEF ReadMetrics, OpenAlert, ResolveAlert, TypeOK
  <2>2. \A g \in Handlers : g # h => pc'[g] = pc[g]
    BY <1>6 DEF ReadMetrics, OpenAlert, ResolveAlert, TypeOK
  <2>3. QED BY <1>5, <2>1, <2>2
<1>7. ASSUME NEW h \in Handlers, Commit(h) \/ CheckAnomalies(h) \/ CommitAnomalies(h)
      PROVE SamplesInv'
  <2>1. pc[h] \notin {"idle", "ingest"} /\ UNCHANGED <<metrics, taken>>
    BY <1>7 DEF Commit, CheckAnomalies, CommitAnomalies
  <2>2. CASE Respond(h)
    BY <1>5, <2>1, <2>2 DEF Respond, TypeOK
  <2>3. CASE ~Respond(h)
    <3>1. /\ UNCHANGED req
          /\ pc' \in {[pc EXCEPT ![h] = "read_window"], [pc EXCEPT ![h] = "cpu_anomaly"]}
      BY <1>7, <2>3 DEF Commit, CheckAnomalies, CommitAnomalies
    <3>2. \A g \in Handlers : g # h => pc'[g] = pc[g]
      BY <3>1 DEF TypeOK
    <3>3. QED BY <1>5, <2>1, <3>1, <3>2
  <2>4. QED BY <2>2, <2>3
<1>8. ASSUME NEW h \in Handlers, RequestFails(h) PROVE SamplesInv'
  BY <1>8 DEF RequestFails, SamplesInv, TypeOK
<1>9. ASSUME NEW h \in Handlers, Flush(h) PROVE SamplesInv'
  BY <1>1, <1>9 DEF Flush
<1>10. ASSUME NEW s \in Schedulers,
              \/ SelectSilent(s) \/ CommitPass(s) \/ PassFails(s)
              \/ \E m \in Machines : MarkOffline(s, m) \/ OpenOffline(s, m)
       PROVE  SamplesInv'
  BY <1>1, <1>10 DEF SelectSilent, CommitPass, PassFails, MarkOffline, OpenOffline
<1>11. ASSUME Tick \/ UNCHANGED vars PROVE SamplesInv'
  BY <1>11, <1>1 DEF Tick, vars
<1>12. QED
  BY <1>2, <1>3, <1>4, <1>6, <1>7, <1>8, <1>9, <1>10, <1>11 DEF Next, RequestStep, PassStep

\* The threshold types whose condition the stored samples of m fulfil.
Demanded(m) == HighOn(m, metrics[m])

\* Measuring one more sample changes nothing in what the stored ones demand, and
\* neither does a step that touches neither the samples nor the table.
LEMMA DemandedKept ==
  ASSUME TypeOK, SamplesInv, NEW m \in Machines, metrics'[m] = metrics[m],
         UNCHANGED taken \/ \E n \in Machines : TakeSample(n)
  PROVE  Demanded(m)' = Demanded(m)
<1>1. \A i \in metrics[m] : taken'[m][i] = taken[m][i]
  <2>1. CASE UNCHANGED taken
    BY <2>1
  <2>2. ASSUME NEW n \in Machines, TakeSample(n) PROVE \A i \in metrics[m] : taken'[m][i] = taken[m][i]
    <3>1. PICK reading \in Readings : taken' = [taken EXCEPT ![n] = Append(@, reading)]
      BY <2>2 DEF TakeSample
    <3>2. taken[n] \in Seq(Readings) /\ taken \in [Machines -> Seq(Readings)]
      BY DEF TypeOK
    <3>3. \A i \in 1..Len(taken[n]) : Append(taken[n], reading)[i] = taken[n][i]
      BY <3>2
    <3>4. QED BY <3>1, <3>2, <3>3 DEF SamplesInv
  <2>3. QED BY <2>1, <2>2
<1> DEFINE newest(n) == Newest(metrics[m], n)
<1>2. \A n : \A i \in newest(n) : i \in metrics[m]
  BY DEF Newest
<1>3. \A what, n : (\A i \in newest(n) : what \in taken'[m][i])
                     <=> (\A i \in newest(n) : what \in taken[m][i])
  BY <1>1, <1>2
<1> HIDE DEF newest
<1>4. HighOn(m, metrics[m])' =
        {t \in ThresholdTypes :
           \/ t = "cpu_high" /\ Cardinality(metrics[m]) >= ConsecutivePoints
                             /\ \A i \in newest(ConsecutivePoints) : "cpu" \in taken'[m][i]
           \/ t = "mem_high" /\ \A i \in newest(1) : "mem" \in taken'[m][i]
           \/ t = "disk_full" /\ \A i \in newest(1) : "disk" \in taken'[m][i]}
  BY DEF HighOn, newest, Newest
<1>5. HighOn(m, metrics[m]) =
        {t \in ThresholdTypes :
           \/ t = "cpu_high" /\ Cardinality(metrics[m]) >= ConsecutivePoints
                             /\ \A i \in newest(ConsecutivePoints) : "cpu" \in taken[m][i]
           \/ t = "mem_high" /\ \A i \in newest(1) : "mem" \in taken[m][i]
           \/ t = "disk_full" /\ \A i \in newest(1) : "disk" \in taken[m][i]}
  BY DEF HighOn, newest
<1>6. QED BY <1>3, <1>4, <1>5 DEF Demanded

-----------------------------------------------------------------------------
(* A request nothing overlapped.                                           *)

\* The alerts check_threshold_alerts and resolve_offline_if_needed decide on.
RuleTypes == ThresholdTypes \cup {"offline"}

\* The rules a request has been through when it is about to run the statement.
Before == [cpu_high |-> {}, mem_high |-> {"cpu_high"}, disk_full |-> {"cpu_high", "mem_high"},
           offline |-> ThresholdTypes, commit |-> RuleTypes]

\* The rules a request has been through: a heartbeat runs no threshold rule.
Handled(h) ==
  IF pc[h] \notin RuleTypes \cup {"commit"} THEN {}
  ELSE IF req[h].samples = {} THEN Before[pc[h]] \ ThresholdTypes ELSE Before[pc[h]]

\* Seen by h, the alert of type t is in the state the samples demand.
Judged(h, m, t) ==
  IF t \in Demanded(m) THEN \E r \in RowsOf(m, t) : r.by \in {NoTx, h} /\ r.id \notin Touched(h)
  ELSE \A r \in RowsOf(m, t) : r.id \in Touched(h)

\* The statements after the commit of the rules.
Later == AnomalyTypes \cup {"read_window", "commit_anomaly"}

\* What holds of a request h of machine m that nothing has overlapped so far.
Undisturbed(h, m) ==
  /\ pc[h] # "idle"
  /\ \A g \in Handlers \ {h} : ~Serving(g, m)
  /\ \A s \in Schedulers : ~Passing(s, m)
  /\ machine[m].status = IF pc[h] = "ingest" THEN req[h].loaded ELSE "online"
  /\ pc[h] \in ThresholdTypes => \A t \in ThresholdTypes \ Handled(h) : t \in high[h] <=> t \in Demanded(m)
  /\ \A t \in Handled(h) : Judged(h, m, t)
  /\ pc[h] \in Later => \A t \in RuleTypes :
       /\ \A r \in RowsOf(m, t) : r.by = NoTx /\ r.id \notin Touched(h)
       /\ RowsOf(m, t) # {} <=> t \in Demanded(m)

\* A request that is alone so far is undisturbed.
AloneInv == \A h \in Handlers : alone[h] => Undisturbed(h, req[h].machine)

\* What such a request leaves behind, until something touches its machine: the
\* machine is online, without an offline alert, and nobody serves it.
PresenceAt(m) ==
  /\ machine[m].status = "online" /\ ~IsOpen(m, "offline")
  /\ \A g \in Handlers : ~Serving(g, m)

\* The threshold alerts are those the stored samples demand, and no request that
\* could change that is running.
ThresholdsAt(m) ==
  /\ metrics[m] # {}
  /\ \A t \in ThresholdTypes : IsOpen(m, t) <=> t \in Demanded(m)
  /\ \A g \in Handlers : ~Reports(g, m)

\* What a machine's last request left in order is still in order.
SettledInv ==
  \A m \in Machines : /\ "presence" \in settled[m] => PresenceAt(m)
                      /\ "thresholds" \in settled[m] => ThresholdsAt(m)

\* A transaction that neither serves nor is passing over m changes no row of m.
LEMMA OthersRows ==
  ASSUME TypeOK, OwnInv, OfflineRowsInv, NEW y \in Tx, NEW m \in Machines,
         y \in Handlers => ~Serving(y, m),
         y \in Schedulers => m \notin marked[y],
         \/ CommitAlerts(y) \/ RollbackAlerts(y)
         \/ \E n \in Machines \ {m}, t \in AlertTypes : InsertOpen(y, n, t),
         NEW t \in AlertTypes
  PROVE  RowsOf(m, t)' = RowsOf(m, t)
<1>1. ASSUME NEW r \in alerts, r.machine = m
      PROVE  r.by # y /\ r.id \notin flushed[y]
  <2>1. r.by # y
    BY <1>1, TxAssumption DEF OwnInv, OfflineRowsInv, Reports
  <2>2. r.id \notin flushed[y]
    BY <1>1 DEF OwnInv, Touched
  <2>3. QED BY <2>1, <2>2
<1>2. CASE CommitAlerts(y)
  <2>1. ASSUME NEW p \in alerts', p.machine = m PROVE p \in alerts
    <3>1. PICK r \in alerts : r.id \notin flushed[y] /\ p = [r EXCEPT !.by = IF @ = y THEN NoTx ELSE @]
      BY <1>2 DEF CommitAlerts
    <3>2. r \in AlertRows
      BY DEF TypeOK
    <3>3. p.machine = r.machine /\ (r.by # y => p = r)
      BY <3>1, <3>2 DEF AlertRows
    <3>4. QED BY <1>1, <2>1, <3>3
  <2>2. \A r \in alerts : r.machine = m => r \in alerts'
    BY <1>1, <1>2, CommitView
  <2>3. QED BY <2>1, <2>2 DEF RowsOf
<1>3. CASE RollbackAlerts(y)
  BY <1>1, <1>3 DEF RollbackAlerts, RowsOf
<1>4. ASSUME NEW n \in Machines \ {m}, NEW u \in AlertTypes, InsertOpen(y, n, u)
      PROVE  RowsOf(m, t)' = RowsOf(m, t)
  <2>1. alerts \subseteq alerts' /\ \A r \in alerts' \ alerts : r.machine = n
    BY <1>4, InsertView
  <2>2. QED BY <2>1 DEF RowsOf
<1>5. QED BY <1>2, <1>3, <1>4

\* A step that leaves the request, its session, its machine's row and samples and
\* the alerts of its machine alone leaves the request undisturbed.
LEMMA Frame ==
  ASSUME NEW h \in Handlers, NEW m \in Machines, Undisturbed(h, m),
         pc'[h] = pc[h], req'[h] = req[h], high'[h] = high[h], Touched(h)' = Touched(h),
         machine'[m].status = machine[m].status, Demanded(m)' = Demanded(m),
         \A t \in AlertTypes : RowsOf(m, t)' = RowsOf(m, t),
         \A g \in Handlers \ {h} : ~Serving(g, m)',
         \A s \in Schedulers : ~Passing(s, m)'
  PROVE  Undisturbed(h, m)'
<1>1. Handled(h)' = Handled(h)
  BY DEF Handled
<1>2. \A t \in RuleTypes : t \in AlertTypes
  BY DEF RuleTypes
<1>3. Handled(h) \subseteq RuleTypes
  BY DEF Handled, Before, RuleTypes
<1>4. \A t \in RuleTypes : Judged(h, m, t)' <=> Judged(h, m, t)
  BY <1>2 DEF Judged
<1>5. QED BY <1>1, <1>2, <1>3, <1>4 DEF Undisturbed

\* The invariants about sessions and samples together.
BaseInv == TypeOK /\ RowsInv /\ OfflineRowsInv /\ OwnInv /\ SamplesInv

\* The steps of the agents, the clock, the scheduler and the other requests leave
\* an undisturbed request undisturbed, unless they end its being alone.
LEMMA OthersStep ==
  ASSUME BaseInv, NEW h \in Handlers, NEW m \in Machines, req[h].machine = m,
         alone[h], Undisturbed(h, m), alone'[h],
         \/ Tick \/ \E n \in Machines : TakeSample(n)
         \/ \E g \in Handlers \ {h} : \/ \E n \in Machines : Authenticate(g, n)
                                      \/ RequestStep(g) \/ RequestFails(g)
         \/ \E s \in Schedulers : SelectSilent(s) \/ PassStep(s) \/ PassFails(s)
  PROVE  Undisturbed(h, m)' /\ req'[h] = req[h]
<1> USE DEF tables, requests, passes, history
<1>0. /\ TypeOK /\ OwnInv /\ OfflineRowsInv /\ SamplesInv
      /\ h \in Tx /\ \A g \in Handlers : g \in Tx /\ g \notin Schedulers
      /\ pc[h] # "idle" /\ Serving(h, m)
      /\ \A g \in Handlers \ {h} : ~Serving(g, m)
      /\ \A s \in Schedulers : s \in Tx /\ s \notin Handlers /\ m \notin silent[s] /\ m \notin marked[s]
  BY TxAssumption DEF BaseInv, Undisturbed, TypeOK, Passing, Serving
<1>1. ASSUME pc'[h] = pc[h], req'[h] = req[h], high'[h] = high[h], Touched(h)' = Touched(h),
             machine'[m].status = machine[m].status, metrics'[m] = metrics[m],
             UNCHANGED taken \/ \E n \in Machines : TakeSample(n),
             \A t \in AlertTypes : RowsOf(m, t)' = RowsOf(m, t),
             \A g \in Handlers \ {h} : ~Serving(g, m)',
             \A s \in Schedulers : ~Passing(s, m)'
      PROVE  Undisturbed(h, m)' /\ req'[h] = req[h]
  <2>1. Demanded(m)' = Demanded(m)
    BY <1>0, <1>1, DemandedKept
  <2>2. QED BY <1>1, <2>1, Frame
<1>2. CASE Tick \/ \E n \in Machines : TakeSample(n)
  <2>1. machine'[m].status = machine[m].status
    <3>1. CASE Tick
      <4>1. machine'[m] = [machine[m] EXCEPT !.age = IF @ = Null \/ @ = OfflineAfter + 1 THEN @ ELSE @ + 1]
        BY <1>0, <3>1 DEF Tick
      <4>2. machine[m] \in [age : Ages, status : Statuses]
        BY <1>0 DEF TypeOK
      <4>3. QED BY <4>1, <4>2
    <3>2. QED BY <1>2, <3>1 DEF TakeSample
  <2>2. UNCHANGED <<alerts, metrics, pc, req, high, dirty, flushed, silent, marked>>
        /\ (UNCHANGED taken \/ \E n \in Machines : TakeSample(n))
    BY <1>2 DEF Tick, TakeSample
  <2>3. QED BY <1>0, <1>1, <2>1, <2>2 DEF RowsOf, Touched, Serving, Passing
<1>3. ASSUME NEW g \in Handlers \ {h}, NEW n \in Machines, Authenticate(g, n)
      PROVE  Undisturbed(h, m)' /\ req'[h] = req[h]
  <2>1. n # m
    BY <1>0, <1>3 DEF Authenticate
  <2>2. /\ pc' = [pc EXCEPT ![g] = "ingest"]
        /\ \A k \in Handlers : k # g => req'[k] = req[k]
        /\ req'[g].machine = n
        /\ UNCHANGED <<machine, alerts, taken, metrics, high, dirty, flushed, silent, marked>>
    BY <1>0, <1>3 DEF Authenticate, TypeOK
  <2>3. \A k \in Handlers \ {h} : ~Serving(k, m)'
    BY <1>0, <2>1, <2>2 DEF Serving, TypeOK
  <2>4. pc'[h] = pc[h]
    BY <1>0, <2>2 DEF TypeOK
  <2>5. QED BY <1>0, <1>1, <2>2, <2>3, <2>4 DEF RowsOf, Touched, Passing
<1>4. ASSUME NEW g \in Handlers \ {h}, RequestStep(g) \/ RequestFails(g)
      PROVE  Undisturbed(h, m)' /\ req'[h] = req[h]
  <2>0. pc[g] # "idle" /\ req[g].machine # m /\ ~Serving(g, m)
    <3>1. pc[g] # "idle"
      <4>1. CASE Flush(g)
        <5>1. PICK i : i \in dirty[g]
          BY <4>1 DEF Flush
        <5>2. i \in Touched(g)
          BY <5>1 DEF Touched
        <5>3. pc[g] = "idle" => Touched(g) = {}
          BY <1>0 DEF OwnInv
        <5>4. QED BY <5>2, <5>3
      <4>2. CASE OpenAlert(g) \/ ResolveAlert(g)
        BY <1>0, <4>2 DEF OpenAlert, ResolveAlert, TypeOK
      <4>3. CASE \/ Ingest(g) \/ ReadMetrics(g) \/ Commit(g) \/ CheckAnomalies(g) \/ CommitAnomalies(g)
                 \/ RequestFails(g)
        BY <4>3 DEF RequestFails, Ingest, ReadMetrics, Commit, CheckAnomalies, CommitAnomalies
      <4>4. QED BY <1>4, <4>1, <4>2, <4>3 DEF RequestStep
    <3>2. QED BY <1>0, <3>1 DEF Serving
  <2>1. ASSUME Respond(g) \/ (pc' = [pc EXCEPT ![g] = "idle"] /\ req' = [req EXCEPT ![g] = NoRequest]
                              /\ high' = [high EXCEPT ![g] = {}])
        PROVE  /\ \A k \in Handlers \ {h} : ~Serving(k, m)'
               /\ pc'[h] = pc[h] /\ req'[h] = req[h] /\ high'[h] = high[h]
    BY <1>0, <2>1 DEF Respond, Serving, TypeOK
  <2>2. ASSUME UNCHANGED req, \A k \in Handlers \ {g} : pc'[k] = pc[k] /\ high'[k] = high[k]
        PROVE  /\ \A k \in Handlers \ {h} : ~Serving(k, m)'
               /\ pc'[h] = pc[h] /\ req'[h] = req[h] /\ high'[h] = high[h]
    BY <1>0, <2>0, <2>2 DEF Serving
  <2>3. /\ \A k \in Handlers \ {h} : ~Serving(k, m)'
        /\ pc'[h] = pc[h] /\ req'[h] = req[h] /\ high'[h] = high[h]
    <3>1. CASE RequestFails(g)
      BY <2>1, <3>1 DEF RequestFails
    <3>2. CASE Respond(g)
      BY <2>1, <3>2
    <3>3. CASE Commit(g) \/ CheckAnomalies(g) \/ CommitAnomalies(g)
      <4>1. CASE ~Respond(g)
        <5>1. UNCHANGED req /\ \A k \in Handlers \ {g} : pc'[k] = pc[k] /\ high'[k] = high[k]
          BY <1>0, <3>3, <4>1 DEF Commit, CheckAnomalies, CommitAnomalies, TypeOK
        <5>2. QED BY <2>2, <5>1
      <4>2. QED BY <3>2, <4>1
    <3>4. CASE Ingest(g) \/ ReadMetrics(g) \/ Flush(g) \/ OpenAlert(g) \/ ResolveAlert(g)
      <4>1. UNCHANGED req /\ \A k \in Handlers \ {g} : pc'[k] = pc[k] /\ high'[k] = high[k]
        BY <1>0, <3>4 DEF Ingest, ReadMetrics, Flush, OpenAlert, ResolveAlert, TypeOK
      <4>2. QED BY <2>2, <4>1
    <3>5. QED BY <1>4, <3>1, <3>3, <3>4 DEF RequestStep
  <2>4. machine'[m] = machine[m] /\ metrics'[m] = metrics[m] /\ UNCHANGED <<taken, silent, marked>>
    <3>1. CASE Ingest(g)
      BY <1>0, <2>0, <3>1 DEF Ingest, TypeOK
    <3>2. QED BY <1>4, <3>1 DEF RequestStep, RequestFails, ReadMetrics, Flush, OpenAlert, ResolveAlert,
                     Commit, CheckAnomalies, CommitAnomalies
  <2>5. Touched(h)' = Touched(h)
    <3>1. dirty'[h] = dirty[h] /\ flushed'[h] = flushed[h]
      <4>1. ASSUME (CommitAlerts(g) /\ UNCHANGED dirty) \/ RollbackAlerts(g)
            PROVE  dirty'[h] = dirty[h] /\ flushed'[h] = flushed[h]
        BY <1>0, <4>1 DEF CommitAlerts, RollbackAlerts, TypeOK
      <4>2. CASE Commit(g) \/ CommitAnomalies(g) \/ RequestFails(g)
        BY <4>1, <4>2 DEF Commit, CommitAnomalies, RequestFails
      <4>3. CASE Flush(g) \/ ResolveAlert(g)
        BY <1>0, <4>3 DEF Flush, ResolveAlert, TypeOK
      <4>4. CASE Ingest(g) \/ ReadMetrics(g) \/ OpenAlert(g) \/ CheckAnomalies(g)
        BY <4>4 DEF Ingest, ReadMetrics, OpenAlert, CheckAnomalies
      <4>5. QED BY <1>4, <4>2, <4>3, <4>4 DEF RequestStep
    <3>2. QED BY <3>1 DEF Touched
  <2>6. \A t \in AlertTypes : RowsOf(m, t)' = RowsOf(m, t)
    <3>1. CASE Commit(g) \/ CommitAnomalies(g) \/ RequestFails(g)
      <4>1. CommitAlerts(g) \/ RollbackAlerts(g)
        BY <3>1 DEF Commit, CommitAnomalies, RequestFails
      <4>2. g \in Handlers /\ g \notin Schedulers /\ g \in Tx
        BY <1>0
      <4>3. QED BY <1>0, <2>0, <4>1, <4>2, OthersRows
    <3>2. CASE OpenAlert(g)
      <4>1. InsertOpen(g, req[g].machine, pc[g]) /\ pc[g] \in high[g]
        BY <3>2 DEF OpenAlert
      <4>2. pc[g] \in AlertTypes /\ req[g].machine \in Machines \ {m}
        BY <1>0, <2>0, <4>1 DEF TypeOK
      <4>3. g \in Handlers /\ g \notin Schedulers /\ g \in Tx
        BY <1>0
      <4>4. QED BY <1>0, <2>0, <4>1, <4>2, <4>3, OthersRows
    <3>3. CASE UNCHANGED alerts
      BY <3>3 DEF RowsOf
    <3>4. CASE Ingest(g) \/ ReadMetrics(g) \/ Flush(g) \/ ResolveAlert(g) \/ CheckAnomalies(g)
      BY <3>3, <3>4 DEF Ingest, ReadMetrics, Flush, ResolveAlert, CheckAnomalies
    <3>5. QED BY <1>4, <3>1, <3>2, <3>4 DEF RequestStep
  <2>7. QED BY <1>0, <1>1, <2>3, <2>4, <2>5, <2>6 DEF Passing
<1>5. ASSUME NEW s \in Schedulers, SelectSilent(s) PROVE Undisturbed(h, m)' /\ req'[h] = req[h]
  <2>1. \A r \in Schedulers : ~Passing(r, m)'
    BY <1>0, <1>5 DEF SelectSilent, Passing, TypeOK
  <2>2. UNCHANGED <<machine, alerts, taken, metrics, pc, req, high, dirty, flushed>>
    BY <1>5 DEF SelectSilent
  <2>3. QED BY <1>0, <1>1, <2>1, <2>2 DEF RowsOf, Touched, Serving
<1>6. ASSUME NEW s \in Schedulers, NEW n \in Machines, MarkOffline(s, n)
      PROVE  Undisturbed(h, m)' /\ req'[h] = req[h]
  <2>1. n # m /\ \A r \in Schedulers : ~Passing(r, m)'
    BY <1>0, <1>6 DEF MarkOffline, Passing, TypeOK
  <2>2. UNCHANGED <<machine, alerts, taken, metrics, pc, req, high, dirty, flushed>>
    BY <1>6 DEF MarkOffline
  <2>3. QED BY <1>0, <1>1, <2>1, <2>2 DEF RowsOf, Touched, Serving
<1>7. ASSUME NEW s \in Schedulers, NEW n \in Machines, OpenOffline(s, n)
      PROVE  Undisturbed(h, m)' /\ req'[h] = req[h]
  <2>1. n # m
    BY <1>0, <1>7 DEF OpenOffline, OfflineRowsInv
  <2>2. \A t \in AlertTypes : RowsOf(m, t)' = RowsOf(m, t)
    BY <1>0, <1>7, <2>1, OthersRows DEF OpenOffline
  <2>3. UNCHANGED <<machine, taken, metrics, pc, req, high, dirty, flushed, silent, marked>>
    BY <1>7 DEF OpenOffline
  <2>4. QED BY <1>0, <1>1, <2>2, <2>3 DEF Touched, Serving, Passing
<1>8. ASSUME NEW s \in Schedulers, CommitPass(s) \/ PassFails(s)
      PROVE  Undisturbed(h, m)' /\ req'[h] = req[h]
  <2>1. (CommitAlerts(s) /\ UNCHANGED dirty) \/ RollbackAlerts(s)
    BY <1>8 DEF CommitPass, PassFails
  <2>2. \A t \in AlertTypes : RowsOf(m, t)' = RowsOf(m, t)
    <3>1. s \in Tx /\ s \notin Handlers /\ m \notin marked[s]
      BY <1>0
    <3>2. QED BY <1>0, <2>1, <3>1, OthersRows
  <2>3. Touched(h)' = Touched(h)
    BY <1>0, <2>1 DEF CommitAlerts, RollbackAlerts, Touched, TypeOK
  <2>4. machine'[m].status = machine[m].status
    <3>1. CASE CommitPass(s)
      <4>1. machine'[m] = [machine[m] EXCEPT !.status = StatusAfterPass(s, m)]
        BY <1>0, <3>1 DEF CommitPass
      <4>2. machine[m] \in [age : Ages, status : Statuses]
        BY <1>0 DEF TypeOK
      <4>3. QED BY <1>0, <4>1, <4>2
    <3>2. QED BY <1>8, <3>1 DEF PassFails
  <2>5. UNCHANGED <<taken, metrics, pc, req, high>>
    BY <1>8 DEF CommitPass, PassFails
  <2>6. \A r \in Schedulers : ~Passing(r, m)'
    BY <1>0, <1>8 DEF CommitPass, PassFails, Passing, TypeOK
  <2>7. QED BY <1>0, <1>1, <2>2, <2>3, <2>4, <2>5, <2>6 DEF Serving
<1>9. QED
  BY <1>2, <1>3, <1>4, <1>5, <1>6, <1>7, <1>8 DEF PassStep

\* The rules behind a request after its next statement.
LEMMA HandledFacts ==
  ASSUME NEW h \in Handlers, pc[h] \in RuleTypes, pc'[h] = AfterRule[pc[h]], req'[h] = req[h],
         pc[h] # "offline" => req[h].samples # {}
  PROVE  /\ Handled(h)' = Handled(h) \cup {pc[h]} /\ pc[h] \notin Handled(h)
         /\ Handled(h) \subseteq RuleTypes
         /\ pc'[h] \in {"mem_high", "disk_full", "offline", "commit"}
BY DEF Handled, Before, AfterRule, RuleTypes

\* The request's own statements keep it undisturbed, until it responds.
LEMMA OwnStep ==
  ASSUME BaseInv, NEW h \in Handlers, NEW m \in Machines, req[h].machine = m,
         alone[h], Undisturbed(h, m), RequestStep(h) \/ RequestFails(h), alone'[h]
  PROVE  Undisturbed(h, m)' /\ req'[h] = req[h]
<1> USE DEF tables, requests, passes, history
<1>0. /\ TypeOK /\ RowsInv /\ OwnInv /\ OfflineRowsInv /\ SamplesInv
      /\ h \in Tx /\ h \notin Schedulers /\ h # NoTx
      /\ pc[h] # "idle" /\ Serving(h, m)
      /\ \A g \in Handlers \ {h} : ~Serving(g, m)
      /\ \A s \in Schedulers : ~Passing(s, m)
  BY TxAssumption DEF BaseInv, Undisturbed, Serving
<1>1. \A r \in alerts : r.machine = m => r.by \in {NoTx, h}
  <2>1. ASSUME NEW r \in alerts, r.machine = m PROVE r.by \in {NoTx, h}
    <3>1. r.by \in Tx \cup {NoTx}
      BY <1>0, RowTypes
    <3>2. r.by \in Handlers => r.by = h
      BY <1>0, <2>1 DEF OwnInv, Reports
    <3>3. r.by \notin Schedulers
      <4>1. ASSUME r.by \in Schedulers PROVE r.by # NoTx /\ r.type = "offline"
        BY <1>0, <4>1, TxAssumption DEF OwnInv
      <4>2. ASSUME r.by \in Schedulers PROVE m \in marked[r.by]
        BY <1>0, <2>1, <4>1, <4>2 DEF OfflineRowsInv
      <4>3. QED BY <1>0, <4>2 DEF Passing
    <3>4. QED BY <3>1, <3>2, <3>3
  <2>2. QED BY <2>1
<1>2. ~Respond(h) /\ ~RequestFails(h)
  BY <1>0 DEF Respond, RequestFails, TypeOK
<1>3. ASSUME UNCHANGED req, \A g \in Handlers \ {h} : pc'[g] = pc[g], UNCHANGED <<silent, marked>>
      PROVE  /\ \A g \in Handlers \ {h} : ~Serving(g, m)'
             /\ \A s \in Schedulers : ~Passing(s, m)'
  BY <1>0, <1>3 DEF Serving, Passing
<1>4. CASE Ingest(h)
  <2>1. /\ pc[h] = "ingest"
        /\ machine' = [machine EXCEPT ![m] = [age |-> 0, status |-> StatusAfterContact(h)]]
        /\ pc' = [pc EXCEPT ![h] = IF req[h].samples = {} THEN "offline" ELSE "read"]
        /\ UNCHANGED <<req, silent, marked>>
    BY <1>4 DEF Ingest
  <2>2. machine'[m].status = "online"
    BY <1>0, <2>1 DEF Undisturbed, TypeOK
  <2>3. pc'[h] \in {"offline", "read"} /\ (pc'[h] = "offline" => req'[h].samples = {})
        /\ \A g \in Handlers \ {h} : pc'[g] = pc[g]
    BY <1>0, <2>1 DEF TypeOK
  <2>4. Handled(h)' = {}
    BY <2>3 DEF Handled, Before, RuleTypes
  <2>5. QED BY <1>3, <2>1, <2>2, <2>3, <2>4 DEF Undisturbed, Later
<1>5. CASE ReadMetrics(h)
  <2>1. /\ pc[h] = "read"
        /\ high' = [high EXCEPT ![h] = HighOn(m, metrics[m])]
        /\ pc' = [pc EXCEPT ![h] = "cpu_high"]
        /\ UNCHANGED <<machine, taken, metrics, req, silent, marked>>
    BY <1>5 DEF ReadMetrics
  <2>2. pc'[h] = "cpu_high" /\ high'[h] = Demanded(m) /\ \A g \in Handlers \ {h} : pc'[g] = pc[g]
    BY <1>0, <2>1 DEF TypeOK, Demanded
  <2>3. Demanded(m)' = Demanded(m)
    BY <1>0, <2>1, DemandedKept
  <2>4. Handled(h)' = {}
    BY <2>2 DEF Handled, Before, RuleTypes
  <2>5. QED BY <1>3, <2>1, <2>2, <2>3, <2>4 DEF Undisturbed, Later
<1>6. CASE Flush(h)
  <2>1. /\ flushed' = [flushed EXCEPT ![h] = @ \cup dirty[h]]
        /\ dirty' = [dirty EXCEPT ![h] = {}]
        /\ UNCHANGED <<machine, alerts, taken, metrics, pc, req, high, silent, marked>>
    BY <1>6 DEF Flush
  <2>2. Touched(h)' = Touched(h)
    BY <1>0, <2>1 DEF Touched, TypeOK
  <2>3. Demanded(m)' = Demanded(m)
    BY <1>0, <2>1, DemandedKept
  <2>4. \A t \in AlertTypes : RowsOf(m, t)' = RowsOf(m, t)
    BY <2>1 DEF RowsOf
  <2>5. QED BY <1>3, <2>1, <2>2, <2>3, <2>4, Frame
\* What the rules' statements have in common.
<1>7. ASSUME NEW u \in AlertTypes, pc[h] = u, pc'[h] = AfterRule[u], \A g \in Handlers \ {h} : pc'[g] = pc[g],
             UNCHANGED <<machine, taken, metrics, req, silent, marked>>,
             \A t \in AlertTypes \ {u} : RowsOf(m, t)' = RowsOf(m, t),
             \A r \in alerts : r.machine = m /\ r.type # u => (r.id \in Touched(h)' <=> r.id \in Touched(h)),
             \A t \in ThresholdTypes \ {u} : t \in high'[h] <=> t \in high[h],
             u \in RuleTypes => Judged(h, m, u)'
      PROVE  Undisturbed(h, m)'
  <2>1. Demanded(m)' = Demanded(m)
    BY <1>0, <1>7, DemandedKept
  <2>2. machine'[m].status = "online"
    BY <1>7 DEF Undisturbed
  <2>3. \A t \in AlertTypes \ {u} :
          /\ RowsOf(m, t)' = RowsOf(m, t)
          /\ \A r \in RowsOf(m, t) : r.id \in Touched(h)' <=> r.id \in Touched(h)
    BY <1>7 DEF RowsOf
  <2>4. CASE u \in RuleTypes
    <3>1. u # "offline" => req[h].samples # {}
      BY <1>0, <1>7, <2>4 DEF OwnInv, RuleTypes
    <3>2. /\ Handled(h)' = Handled(h) \cup {u} /\ u \notin Handled(h)
          /\ Handled(h) \subseteq RuleTypes
          /\ pc'[h] \in {"mem_high", "disk_full", "offline", "commit"}
      BY <1>7, <2>4, <3>1, HandledFacts
    <3>3. ASSUME NEW t \in Handled(h) PROVE Judged(h, m, t)'
      <4>1. t \in AlertTypes \ {u}
        BY <3>2 DEF RuleTypes
      <4>2. Judged(h, m, t)
        BY DEF Undisturbed
      <4>3. QED BY <2>1, <2>3, <4>1, <4>2 DEF Judged
    <3>4. pc'[h] \in ThresholdTypes => \A t \in ThresholdTypes \ Handled(h)' : t \in high'[h] <=> t \in Demanded(m)'
      <4>1. pc'[h] \in ThresholdTypes => u \in ThresholdTypes
        BY <1>7, <2>4 DEF AfterRule, RuleTypes
      <4>2. QED BY <1>7, <2>1, <3>2, <4>1 DEF Undisturbed
    <3>5. pc'[h] \notin Later /\ pc'[h] # "idle" /\ pc'[h] # "ingest"
      BY <3>2 DEF Later
    <3>6. \A t \in Handled(h)' : Judged(h, m, t)'
      BY <1>7, <2>4, <3>2, <3>3
    <3>7. QED BY <1>3, <1>7, <2>2, <3>4, <3>5, <3>6 DEF Undisturbed
  <2>5. CASE u \notin RuleTypes
    <3>1. u \in AnomalyTypes /\ pc'[h] \in Later \ RuleTypes /\ pc'[h] \notin {"idle", "ingest", "commit"}
      BY <1>7, <2>5 DEF AfterRule, RuleTypes, Later
    <3>2. Handled(h)' = {}
      BY <3>1 DEF Handled
    <3>3. ASSUME NEW t \in RuleTypes
          PROVE  /\ \A r \in RowsOf(m, t)' : r.by = NoTx /\ r.id \notin Touched(h)'
                 /\ RowsOf(m, t)' # {} <=> t \in Demanded(m)'
      <4>1. t \in AlertTypes \ {u}
        BY <2>5 DEF RuleTypes
      <4>2. /\ \A r \in RowsOf(m, t) : r.by = NoTx /\ r.id \notin Touched(h)
            /\ RowsOf(m, t) # {} <=> t \in Demanded(m)
        BY <1>7, <3>1 DEF Undisturbed, Later
      <4>3. QED BY <2>1, <2>3, <4>1, <4>2
    <3>4. QED BY <1>3, <1>7, <2>2, <3>1, <3>2, <3>3 DEF Undisturbed, RuleTypes
  <2>6. QED BY <2>4, <2>5
<1>8. ASSUME NEW u, pc[h] = u, OpenAlert(h) PROVE Undisturbed(h, m)' /\ req'[h] = req[h]
  <2>1. /\ u \in high[h] /\ dirty[h] = {}
        /\ InsertOpen(h, m, u)
        /\ high' = [high EXCEPT ![h] = @ \ {u}]
        /\ pc'[h] = AfterRule[u] /\ \A g \in Handlers \ {h} : pc'[g] = pc[g]
        /\ UNCHANGED <<machine, taken, metrics, req, silent, marked, dirty, flushed>>
    BY <1>0, <1>8 DEF OpenAlert, TypeOK
  <2>2. u \in AlertTypes /\ u # "offline"
    BY <1>0, <2>1 DEF TypeOK, OfflineRowsInv
  <2>3. high'[h] = high[h] \ {u}
    BY <1>0, <2>1 DEF TypeOK
  <2>4. /\ alerts \subseteq alerts' /\ \A r \in alerts' \ alerts : r.machine = m /\ r.type = u
        /\ \E r \in alerts' : /\ r.machine = m /\ r.type = u /\ r.by \in {NoTx, h}
                              /\ r.id \notin flushed[h]
    BY <1>0, <2>1, <2>2, InsertView
  <2>5. \A t \in AlertTypes \ {u} : RowsOf(m, t)' = RowsOf(m, t)
    BY <2>4 DEF RowsOf
  <2>6. Touched(h)' = Touched(h) /\ Touched(h)' = flushed[h]
    BY <2>1 DEF Touched
  <2>7. ASSUME u \in RuleTypes PROVE Judged(h, m, u)'
    <3>1. u \in ThresholdTypes /\ u \notin Handled(h)
      BY <1>8, <2>2, <2>7 DEF RuleTypes, Handled, Before
    <3>2. u \in Demanded(m)
      BY <1>8, <2>1, <3>1 DEF Undisturbed
    <3>3. Demanded(m)' = Demanded(m)
      BY <1>0, <2>1, DemandedKept
    <3>4. \E r \in RowsOf(m, u)' : r.by \in {NoTx, h} /\ r.id \notin Touched(h)'
      BY <2>4, <2>6 DEF RowsOf
    <3>5. QED BY <3>2, <3>3, <3>4 DEF Judged
  <2>8. Undisturbed(h, m)'
    BY <1>7, <1>8, <2>1, <2>2, <2>3, <2>5, <2>6, <2>7
  <2>9. QED BY <2>1, <2>8
<1>9. ASSUME NEW u, pc[h] = u, ResolveAlert(h) PROVE Undisturbed(h, m)' /\ req'[h] = req[h]
  <2>1. /\ u \in AlertTypes \ high[h] /\ dirty[h] = {}
        /\ dirty' = [dirty EXCEPT ![h] = FoundOpen(h)]
        /\ pc'[h] = AfterRule[u] /\ \A g \in Handlers \ {h} : pc'[g] = pc[g]
        /\ UNCHANGED <<machine, alerts, taken, metrics, req, high, silent, marked, flushed>>
    BY <1>0, <1>9 DEF ResolveAlert, TypeOK
  <2>3. Touched(h) = flushed[h] /\ Touched(h)' = FoundOpen(h) \cup flushed[h]
    BY <1>0, <2>1 DEF Touched, TypeOK
  <2>4. \A r \in alerts : r.id \in FoundOpen(h) => r.machine = m /\ r.type = u
    BY <1>0, <1>9 DEF VisibleTo, RowsOf, RowsInv
  <2>5. \A r \in RowsOf(m, u) : r.id \in Touched(h)'
    BY <1>1, <1>9, <2>3 DEF VisibleTo, RowsOf
  <2>6. ASSUME u \in RuleTypes PROVE Judged(h, m, u)'
    <3>1. u \notin Demanded(m)
      <4>1. CASE u = "offline"
        BY <4>1 DEF Demanded, HighOn
      <4>2. CASE u \in ThresholdTypes
        <5>1. u \notin Handled(h)
          BY <1>9, <4>2 DEF RuleTypes, Handled, Before
        <5>2. QED BY <1>9, <2>1, <4>2, <5>1 DEF Undisturbed
      <4>3. QED BY <2>6, <4>1, <4>2 DEF RuleTypes
    <3>2. Demanded(m)' = Demanded(m)
      BY <1>0, <2>1, DemandedKept
    <3>3. QED BY <2>1, <2>5, <3>1, <3>2 DEF Judged, RowsOf
  <2>7. \A t \in AlertTypes \ {u} : RowsOf(m, t)' = RowsOf(m, t)
    BY <2>1 DEF RowsOf
  <2>8. \A r \in alerts : r.machine = m /\ r.type # u => (r.id \in Touched(h)' <=> r.id \in Touched(h))
    BY <2>3, <2>4
  <2>9. Undisturbed(h, m)'
    BY <1>7, <1>9, <2>1, <2>6, <2>7, <2>8
  <2>10. QED BY <2>1, <2>9
<1>10. CASE Commit(h)
  <2>1. /\ pc[h] = "commit" /\ dirty[h] = {} /\ CommitAlerts(h) /\ req[h].samples # {}
        /\ pc' = [pc EXCEPT ![h] = "read_window"]
        /\ UNCHANGED <<machine, taken, metrics, req, silent, marked, dirty>>
    BY <1>2, <1>10 DEF Commit
  <2>2. pc'[h] = "read_window" /\ \A g \in Handlers \ {h} : pc'[g] = pc[g]
    BY <1>0, <2>1 DEF TypeOK
  <2>3. Handled(h) = RuleTypes /\ Handled(h)' = {}
    BY <2>1, <2>2 DEF Handled, Before, RuleTypes
  <2>4. Touched(h) = flushed[h] /\ Touched(h)' = {}
    BY <1>0, <2>1 DEF Touched, CommitAlerts, TypeOK
  <2>5. Demanded(m)' = Demanded(m)
    BY <1>0, <2>1, DemandedKept
  <2>6. ASSUME NEW t \in RuleTypes
        PROVE  /\ \A r \in RowsOf(m, t)' : r.by = NoTx /\ r.id \notin Touched(h)'
               /\ RowsOf(m, t)' # {} <=> t \in Demanded(m)
    <3>1. \A p \in RowsOf(m, t)' : \E r \in RowsOf(m, t) :
            r.id \notin flushed[h] /\ p.by = IF r.by = h THEN NoTx ELSE r.by
      BY <1>0, <2>1, CommitView DEF RowsOf, SameBut
    <3>2. \A r \in RowsOf(m, t) : r.id \notin flushed[h] => RowsOf(m, t)' # {}
      BY <1>0, <2>1, CommitView DEF RowsOf, SameBut
    <3>3. Judged(h, m, t)
      BY <2>3 DEF Undisturbed
    <3>4. \A r \in RowsOf(m, t) : r.by \in {NoTx, h}
      BY <1>1 DEF RowsOf
    <3>5. QED BY <2>4, <3>1, <3>2, <3>3, <3>4 DEF Judged
  <2>7. machine'[m].status = "online"
    BY <2>1 DEF Undisturbed
  <2>8. QED BY <1>3, <2>1, <2>2, <2>3, <2>5, <2>6, <2>7 DEF Undisturbed
<1>11. CASE CheckAnomalies(h)
  <2>1. /\ pc[h] = "read_window" /\ pc' = [pc EXCEPT ![h] = "cpu_anomaly"]
        /\ UNCHANGED <<machine, alerts, taken, metrics, req, silent, marked, dirty, flushed>>
    BY <1>2, <1>11 DEF CheckAnomalies
  <2>2. pc'[h] = "cpu_anomaly" /\ \A g \in Handlers \ {h} : pc'[g] = pc[g]
    BY <1>0, <2>1 DEF TypeOK
  <2>3. Handled(h)' = {}
    BY <2>2 DEF Handled, RuleTypes
  <2>4. Demanded(m)' = Demanded(m)
    BY <1>0, <2>1, DemandedKept
  <2>5. \A t : RowsOf(m, t)' = RowsOf(m, t) /\ Touched(h)' = Touched(h)
    BY <2>1 DEF RowsOf, Touched
  <2>6. QED BY <1>3, <2>1, <2>2, <2>3, <2>4, <2>5 DEF Undisturbed, Later
<1>12. CASE CommitAnomalies(h)
  BY <1>2, <1>12 DEF CommitAnomalies
<1>13. QED
  BY <1>2, <1>4, <1>5, <1>6, <1>8, <1>9, <1>10, <1>11, <1>12 DEF RequestStep

\* A request that starts while nothing else is busy with its machine is undisturbed.
LEMMA StartsUndisturbed ==
  ASSUME TypeOK, NEW h \in Handlers, NEW m \in Machines, Authenticate(h, m), alone'[h]
  PROVE  req'[h].machine = m /\ Undisturbed(h, m)'
<1> USE DEF tables, requests, passes, history
<1>1. /\ pc' = [pc EXCEPT ![h] = "ingest"]
      /\ \A g \in Handlers : g # h => req'[g] = req[g]
      /\ req'[h].machine = m /\ req'[h].loaded = machine[m].status
      /\ UNCHANGED <<machine, silent, marked>>
  BY DEF Authenticate, TypeOK
<1>2. /\ \A g \in Handlers : ~Serving(g, m)
      /\ \A s \in Schedulers : ~Passing(s, m)
  BY DEF Authenticate
<1>3. pc'[h] = "ingest" /\ \A g \in Handlers \ {h} : pc'[g] = pc[g]
  BY <1>1 DEF TypeOK
<1>4. Handled(h)' = {}
  BY <1>3 DEF Handled, RuleTypes
<1>5. QED BY <1>1, <1>2, <1>3, <1>4 DEF Undisturbed, Serving, Passing, Later

\* Every step keeps the invariant of the undisturbed requests.
LEMMA NextAlone == ASSUME BaseInv, AloneInv, [Next]_vars PROVE AloneInv'
<1> USE DEF tables, requests, passes, history
<1>1. SUFFICES ASSUME NEW h \in Handlers, alone'[h] PROVE Undisturbed(h, req[h].machine)'
  BY DEF AloneInv
<1>2. ASSUME NEW m \in Machines, Authenticate(h, m) PROVE Undisturbed(h, req[h].machine)'
  <2>1. req'[h].machine = m /\ Undisturbed(h, m)'
    BY <1>1, <1>2, StartsUndisturbed DEF BaseInv
  <2>2. QED BY <2>1
<1>3. ASSUME ~ \E m \in Machines : Authenticate(h, m) PROVE alone[h]
  <2>1. alone' = alone \/ \/ \E g \in Handlers \ {h}, m \in Machines : Authenticate(g, m)
                          \/ \E g \in Handlers : alone' = [alone EXCEPT ![g] = FALSE]
                          \/ \E s \in Schedulers : SelectSilent(s)
    <3>1. ASSUME NEW g \in Handlers, RequestStep(g) \/ RequestFails(g)
          PROVE  alone' = alone \/ \E k \in Handlers : alone' = [alone EXCEPT ![k] = FALSE]
      BY <3>1 DEF RequestStep, RequestFails, Ingest, ReadMetrics, Flush, OpenAlert, ResolveAlert,
                  Commit, CheckAnomalies, CommitAnomalies, Respond
    <3>2. ASSUME NEW s \in Schedulers, PassStep(s) \/ PassFails(s) PROVE alone' = alone
      BY <3>2 DEF PassStep, PassFails, CommitPass, MarkOffline, OpenOffline
    <3>3. ASSUME Tick \/ (\E m \in Machines : TakeSample(m)) \/ UNCHANGED vars PROVE alone' = alone
      BY <3>3 DEF Tick, TakeSample, vars
    <3>4. QED BY <1>3, <3>1, <3>2, <3>3 DEF Next
  <2>2. alone \in [Handlers -> BOOLEAN]
    BY DEF BaseInv, TypeOK
  <2>3. ASSUME NEW g \in Handlers \ {h}, NEW m \in Machines, Authenticate(g, m) PROVE alone[h]
    BY <1>1, <2>3 DEF Authenticate
  <2>4. ASSUME NEW s \in Schedulers, SelectSilent(s) PROVE alone[h]
    BY <1>1, <2>4 DEF SelectSilent
  <2>5. QED BY <1>1, <2>1, <2>2, <2>3, <2>4
<1>4. ASSUME ~ \E m \in Machines : Authenticate(h, m) PROVE Undisturbed(h, req[h].machine)'
  <2>1. PICK m : m = req[h].machine
    OBVIOUS
  <2>2. alone[h] /\ Undisturbed(h, m)
    BY <1>3, <1>4, <2>1 DEF AloneInv
  <2>3. m \in Machines
    BY <2>1, <2>2 DEF Undisturbed, BaseInv, TypeOK
  <2>4. CASE UNCHANGED vars
    <3>1. Demanded(m)' = Demanded(m)
      BY <2>3, <2>4, DemandedKept DEF vars, BaseInv
    <3>2. /\ UNCHANGED <<machine, pc, req, high>> /\ Touched(h)' = Touched(h)
          /\ \A t \in AlertTypes : RowsOf(m, t)' = RowsOf(m, t)
      BY <2>4 DEF vars, RowsOf, Touched
    <3>3. /\ \A g \in Handlers \ {h} : ~Serving(g, m)'
          /\ \A s \in Schedulers : ~Passing(s, m)'
      BY <2>2, <2>4 DEF vars, Undisturbed, Serving, Passing
    <3>4. Undisturbed(h, m)'
      BY <2>2, <2>3, <3>1, <3>2, <3>3, Frame
    <3>5. QED BY <2>1, <2>4, <3>4 DEF vars
  <2>5. CASE RequestStep(h) \/ RequestFails(h)
    <3>1. Undisturbed(h, m)' /\ req'[h] = req[h]
      BY <1>1, <2>1, <2>2, <2>3, <2>5, OwnStep
    <3>2. QED BY <2>1, <3>1
  <2>6. CASE \/ Tick \/ \E n \in Machines : TakeSample(n)
             \/ \E g \in Handlers \ {h} : \/ \E n \in Machines : Authenticate(g, n)
                                          \/ RequestStep(g) \/ RequestFails(g)
             \/ \E s \in Schedulers : SelectSilent(s) \/ PassStep(s) \/ PassFails(s)
    <3>1. Undisturbed(h, m)' /\ req'[h] = req[h]
      BY <1>1, <2>1, <2>2, <2>3, <2>6, OthersStep
    <3>2. QED BY <2>1, <3>1
  <2>7. QED BY <1>4, <2>4, <2>5, <2>6 DEF Next
<1>5. QED BY <1>2, <1>4

\* Only the commit of a transaction changes what an operator sees of a machine,
\* and only on the machines the transaction works for; what a request that stored
\* no samples commits is no threshold alert.
LEMMA OpenKept ==
  ASSUME TypeOK, OwnInv, OfflineRowsInv, NEW y \in Tx, NEW m \in Machines, NEW t \in AlertTypes,
         \/ \E n \in Machines, u \in AlertTypes : InsertOpen(y, n, u)
         \/ RollbackAlerts(y)
         \/ /\ CommitAlerts(y)
            /\ y \in Handlers => ~Serving(y, m)
            /\ y \in Schedulers => m \notin marked[y]
         \/ /\ CommitAlerts(y)
            /\ t \in ThresholdTypes /\ (y \in Handlers => ~Reports(y, m))
  PROVE  IsOpen(m, t)' <=> IsOpen(m, t)
<1>1. ASSUME NEW n \in Machines, NEW u \in AlertTypes, InsertOpen(y, n, u)
      PROVE  IsOpen(m, t)' <=> IsOpen(m, t)
  <2>1. alerts \subseteq alerts' /\ \A r \in alerts' \ alerts : r.by = y
    BY <1>1, InsertView
  <2>2. QED BY <2>1, TxAssumption DEF IsOpen
<1>2. ASSUME RollbackAlerts(y) PROVE IsOpen(m, t)' <=> IsOpen(m, t)
  BY <1>2, TxAssumption DEF RollbackAlerts, IsOpen
<1>3. ASSUME CommitAlerts(y), y \in Handlers => ~Serving(y, m), y \in Schedulers => m \notin marked[y]
      PROVE  IsOpen(m, t)' <=> IsOpen(m, t)
  <2>1. RowsOf(m, t)' = RowsOf(m, t)
    BY <1>3, OthersRows
  <2>2. \A T : T = RowsOf(m, t) => (IsOpen(m, t) <=> \E r \in T : r.by = NoTx)
    BY DEF IsOpen, RowsOf
  <2>3. \A T : T = RowsOf(m, t)' => (IsOpen(m, t)' <=> \E r \in T : r.by = NoTx)
    BY DEF IsOpen, RowsOf
  <2>4. QED BY <2>1, <2>2, <2>3
<1>4. ASSUME CommitAlerts(y), t \in ThresholdTypes, y \in Handlers => ~Reports(y, m)
      PROVE  IsOpen(m, t)' <=> IsOpen(m, t)
  <2>1. ASSUME NEW r \in alerts, r.machine = m, r.type = t PROVE r.by # y /\ r.id \notin flushed[y]
    <3>1. t # "offline"
      BY <1>4
    <3>2. r.by # y
      BY <1>4, <2>1, <3>1 DEF OwnInv
    <3>3. y \in Handlers => r.id \notin Touched(y)
      BY <1>4, <2>1, <3>1 DEF OwnInv, Reports
    <3>4. y \in Schedulers => r.id \notin Touched(y)
      BY DEF OwnInv
    <3>5. QED BY <3>2, <3>3, <3>4 DEF Touched
  <2>2. /\ \A p \in alerts' : \E r \in alerts : r.id \notin flushed[y] /\ SameBut(p, r, y)
        /\ \A r \in alerts : r.id \notin flushed[y] /\ r.by # y => r \in alerts'
    BY <1>4, CommitView
  <2>3. QED BY <2>1, <2>2 DEF IsOpen, SameBut
<1>5. QED BY <1>1, <1>2, <1>3, <1>4

\* What the undisturbed request h of machine m leaves behind when it responds.
LEMMA RespondSettles ==
  ASSUME BaseInv, AloneInv, NEW h \in Handlers, NEW m \in Machines, req[h].machine = m,
         alone[h], Respond(h), Commit(h) \/ CheckAnomalies(h) \/ CommitAnomalies(h)
  PROVE  PresenceAt(m)' /\ (req[h].samples # {} => ThresholdsAt(m)')
<1> USE DEF tables, requests, passes, history
<1>0. /\ TypeOK /\ OwnInv /\ OfflineRowsInv /\ SamplesInv /\ Undisturbed(h, m)
      /\ h \in Tx /\ h # NoTx
      /\ UNCHANGED <<machine, taken, metrics>>
      /\ pc[h] \in {"commit", "read_window", "commit_anomaly"}
  BY TxAssumption DEF BaseInv, AloneInv, Commit, CheckAnomalies, CommitAnomalies
<1>1. Demanded(m)' = Demanded(m)
  BY <1>0, DemandedKept
<1>2. machine'[m].status = "online"
  BY <1>0 DEF Undisturbed
<1>3. \A g \in Handlers : ~Serving(g, m)' /\ ~Reports(g, m)'
  BY <1>0 DEF Undisturbed, Respond, Serving, Reports, TypeOK
<1>4. req[h].samples # {} => metrics[m] # {}
  BY <1>0 DEF SamplesInv
<1>5. ASSUME NEW t \in RuleTypes, t = "offline" \/ req[h].samples # {}
      PROVE  IsOpen(m, t)' <=> t \in Demanded(m)
  <2>1. CASE Commit(h)
    <3>1. pc[h] = "commit" /\ dirty[h] = {} /\ CommitAlerts(h)
      BY <2>1 DEF Commit
    <3>2. t \in Handled(h)
      BY <1>5, <3>1 DEF Handled, Before, RuleTypes
    <3>3. Judged(h, m, t) /\ Touched(h) = flushed[h]
      BY <1>0, <3>1, <3>2 DEF Undisturbed, Touched
    <3>4. /\ \A p \in alerts' : \E r \in alerts : r.id \notin flushed[h] /\ SameBut(p, r, h)
          /\ \A r \in alerts : r.id \notin flushed[h] => \E p \in alerts' : SameBut(p, r, h)
      BY <1>0, <3>1, CommitView
    <3>5. CASE t \in Demanded(m)
      <4>1. PICK r \in alerts : /\ r.machine = m /\ r.type = t /\ r.by \in {NoTx, h}
                                /\ r.id \notin flushed[h]
        BY <3>3, <3>5 DEF Judged, RowsOf
      <4>2. PICK p \in alerts' : SameBut(p, r, h)
        BY <3>4, <4>1
      <4>3. QED BY <3>5, <4>1, <4>2 DEF SameBut, IsOpen
    <3>6. CASE t \notin Demanded(m)
      <4>1. \A r \in alerts : r.machine = m /\ r.type = t => r.id \in flushed[h]
        BY <3>3, <3>6 DEF Judged, RowsOf
      <4>2. QED BY <3>4, <3>6, <4>1 DEF SameBut, IsOpen
    <3>7. QED BY <3>5, <3>6
  <2>2. CASE CheckAnomalies(h) \/ CommitAnomalies(h)
    <3>1. pc[h] \in Later
      BY <2>2 DEF CheckAnomalies, CommitAnomalies, Later
    <3>2. /\ \A r \in RowsOf(m, t) : r.by = NoTx /\ r.id \notin Touched(h)
          /\ RowsOf(m, t) # {} <=> t \in Demanded(m)
      BY <1>0, <3>1 DEF Undisturbed
    <3>3. IsOpen(m, t) <=> t \in Demanded(m)
      BY <3>2 DEF IsOpen, RowsOf
    <3>4. CASE CheckAnomalies(h)
      BY <3>3, <3>4 DEF CheckAnomalies, IsOpen
    <3>5. CASE CommitAnomalies(h)
      <4>1. /\ \A p \in alerts' : \E r \in alerts : r.id \notin flushed[h] /\ SameBut(p, r, h)
            /\ \A r \in alerts : r.id \notin flushed[h] /\ r.by # h => r \in alerts'
        BY <1>0, <3>5, CommitView DEF CommitAnomalies
      <4>2. \A r \in alerts : r.machine = m /\ r.type = t => r.by = NoTx /\ r.id \notin flushed[h]
        BY <3>2 DEF RowsOf, Touched
      <4>3. IsOpen(m, t)' <=> IsOpen(m, t)
        BY <1>0, <4>1, <4>2 DEF IsOpen, SameBut
      <4>4. QED BY <3>3, <4>3
    <3>6. QED BY <2>2, <3>4, <3>5
  <2>3. QED BY <2>1, <2>2
<1>6. "offline" \notin Demanded(m)
  BY DEF Demanded, HighOn
<1>7. ~IsOpen(m, "offline")'
  BY <1>5, <1>6 DEF RuleTypes
<1>8. req[h].samples # {} => \A t \in ThresholdTypes : IsOpen(m, t)' <=> t \in Demanded(m)'
  BY <1>1, <1>5 DEF RuleTypes
<1>9. QED BY <1>0, <1>2, <1>3, <1>4, <1>7, <1>8 DEF PresenceAt, ThresholdsAt

\* Every step keeps the invariant of the settled machines.
LEMMA NextSettled == ASSUME BaseInv, AloneInv, SettledInv, [Next]_vars PROVE SettledInv'
<1> USE DEF tables, requests, passes, history
<1>1. SUFFICES ASSUME NEW m \in Machines
               PROVE  /\ "presence" \in settled'[m] => PresenceAt(m)'
                      /\ "thresholds" \in settled'[m] => ThresholdsAt(m)'
  BY DEF SettledInv
<1>0. /\ TypeOK /\ OwnInv /\ OfflineRowsInv /\ SamplesInv
      /\ "presence" \in settled[m] => PresenceAt(m)
      /\ "thresholds" \in settled[m] => ThresholdsAt(m)
      /\ \A g \in Handlers : g \in Tx /\ g \notin Schedulers
      /\ \A s \in Schedulers : s \in Tx /\ s \notin Handlers
  BY TxAssumption DEF BaseInv, SettledInv
<1> DEFINE Goal == /\ "presence" \in settled'[m] => PresenceAt(m)'
                   /\ "thresholds" \in settled'[m] => ThresholdsAt(m)'
\* A step that changes nothing the two parts speak of.
<1>2. ASSUME "presence" \in settled'[m] =>
               /\ "presence" \in settled[m] /\ machine'[m].status = machine[m].status
               /\ IsOpen(m, "offline")' <=> IsOpen(m, "offline")
               /\ \A g \in Handlers : Serving(g, m)' => Serving(g, m)
      PROVE  "presence" \in settled'[m] => PresenceAt(m)'
  BY <1>0, <1>2 DEF PresenceAt
<1>3. ASSUME "thresholds" \in settled'[m] =>
               /\ "thresholds" \in settled[m] /\ metrics'[m] = metrics[m]
               /\ UNCHANGED taken \/ \E n \in Machines : TakeSample(n)
               /\ \A t \in ThresholdTypes : IsOpen(m, t)' <=> IsOpen(m, t)
               /\ \A g \in Handlers : Reports(g, m)' => Reports(g, m)
      PROVE  "thresholds" \in settled'[m] => ThresholdsAt(m)'
  <2>1. SUFFICES ASSUME "thresholds" \in settled'[m] PROVE ThresholdsAt(m)'
    OBVIOUS
  <2>2. Demanded(m)' = Demanded(m)
    BY <1>0, <1>3, <2>1, DemandedKept
  <2>3. QED BY <1>0, <1>3, <2>1, <2>2 DEF ThresholdsAt
<1>4. ASSUME UNCHANGED <<alerts, settled>>, metrics'[m] = metrics[m],
             machine'[m].status = machine[m].status,
             UNCHANGED taken \/ \E n \in Machines : TakeSample(n),
             \A g \in Handlers : Serving(g, m)' => Serving(g, m),
             \A g \in Handlers : Reports(g, m)' => Reports(g, m)
      PROVE  Goal
  BY <1>2, <1>3, <1>4 DEF IsOpen
<1>5. ASSUME UNCHANGED <<alerts, settled, req, metrics>>,
             UNCHANGED taken \/ \E n \in Machines : TakeSample(n),
             machine'[m].status = machine[m].status,
             \A g \in Handlers : pc'[g] # "idle" => pc[g] # "idle"
      PROVE  Goal
  BY <1>4, <1>5 DEF Serving, Reports
<1>6. CASE Tick
  <2>1. machine'[m] = [machine[m] EXCEPT !.age = IF @ = Null \/ @ = OfflineAfter + 1 THEN @ ELSE @ + 1]
    BY <1>6 DEF Tick
  <2>2. machine[m] \in [age : Ages, status : Statuses]
    BY <1>0 DEF TypeOK
  <2>3. machine'[m].status = machine[m].status
    BY <2>1, <2>2
  <2>4. QED BY <1>5, <1>6, <2>3 DEF Tick
<1>7. ASSUME NEW n \in Machines, TakeSample(n) PROVE Goal
  BY <1>5, <1>7 DEF TakeSample
<1>8. ASSUME NEW h \in Handlers, NEW n \in Machines, Authenticate(h, n) PROVE Goal
  <2>1. PICK batch \in Batches(n) \cup {{}} :
          /\ req' = [req EXCEPT ![h] = [machine |-> n, samples |-> batch,
                                        loaded |-> machine[n].status]]
          /\ settled' = [settled EXCEPT ![n] = IF batch = {} THEN @ \ {"presence"} ELSE {}]
    BY <1>8 DEF Authenticate
  <2>2. /\ \A g \in Handlers : g # h => pc'[g] = pc[g] /\ req'[g] = req[g]
        /\ req'[h].machine = n /\ req'[h].samples = batch
        /\ UNCHANGED <<machine, alerts, taken, metrics>>
    BY <1>0, <1>8, <2>1 DEF Authenticate, TypeOK
  <2>3. /\ n = m => settled'[m] = IF batch = {} THEN settled[m] \ {"presence"} ELSE {}
        /\ n # m => settled'[m] = settled[m]
    BY <1>0, <2>1 DEF TypeOK
  <2>4. n # m => \A g \in Handlers : /\ Serving(g, m)' => Serving(g, m)
                                     /\ Reports(g, m)' => Reports(g, m)
    BY <2>2 DEF Serving, Reports
  <2>5. batch = {} => \A g \in Handlers : Reports(g, m)' => Reports(g, m)
    BY <2>2 DEF Serving, Reports
  <2>6. "presence" \in settled'[m] => PresenceAt(m)'
    BY <1>2, <2>2, <2>3, <2>4 DEF IsOpen
  <2>7. "thresholds" \in settled'[m] => ThresholdsAt(m)'
    BY <1>3, <2>2, <2>3, <2>4, <2>5 DEF IsOpen
  <2>8. QED BY <2>6, <2>7
<1>9. ASSUME NEW h \in Handlers, Ingest(h) PROVE Goal
  <2> DEFINE n == req[h].machine
  <2>1. /\ pc[h] = "ingest" /\ n \in Machines
        /\ metrics' = [metrics EXCEPT ![n] = @ \cup req[h].samples]
        /\ machine' = [machine EXCEPT ![n] = [age |-> 0, status |-> StatusAfterContact(h)]]
        /\ UNCHANGED <<alerts, settled, req, taken>>
        /\ \A g \in Handlers : pc'[g] # "idle" => pc[g] # "idle"
    BY <1>0, <1>9 DEF Ingest, TypeOK
  <2>2. n # m => machine'[m] = machine[m] /\ metrics'[m] = metrics[m]
    BY <1>0, <2>1 DEF TypeOK
  <2>3. n = m => Serving(h, m) /\ (req[h].samples # {} => Reports(h, m))
    BY <2>1 DEF Serving, Reports
  <2>4. req[h].samples = {} => metrics'[m] = metrics[m]
    BY <1>0, <2>1 DEF TypeOK
  <2>5. \A g \in Handlers : /\ Serving(g, m)' => Serving(g, m)
                            /\ Reports(g, m)' => Reports(g, m)
    BY <2>1 DEF Serving, Reports
  <2>6. "presence" \in settled'[m] => n # m
    BY <1>0, <2>1, <2>3 DEF PresenceAt
  <2>7. "thresholds" \in settled'[m] => n # m \/ req[h].samples = {}
    BY <1>0, <2>1, <2>3 DEF ThresholdsAt
  <2> HIDE DEF n
  <2>8. "presence" \in settled'[m] => PresenceAt(m)'
    BY <1>2, <2>1, <2>2, <2>5, <2>6 DEF IsOpen
  <2>9. "thresholds" \in settled'[m] => ThresholdsAt(m)'
    BY <1>3, <2>1, <2>2, <2>4, <2>5, <2>7 DEF IsOpen
  <2>10. QED BY <2>8, <2>9
<1>10. ASSUME NEW h \in Handlers, ReadMetrics(h) \/ Flush(h) \/ ResolveAlert(h) PROVE Goal
  <2>1. \A g \in Handlers : pc'[g] # "idle" => pc[g] # "idle"
    BY <1>0, <1>10 DEF ReadMetrics, Flush, ResolveAlert, TypeOK
  <2>2. UNCHANGED <<machine, alerts, settled, req, metrics, taken>>
    BY <1>10 DEF ReadMetrics, Flush, ResolveAlert
  <2>3. QED BY <1>5, <2>1, <2>2
\* A step that changes the alerts without making any visible or invisible.
<1>11. ASSUME UNCHANGED <<machine, metrics, taken>>, settled'[m] \subseteq settled[m],
              \A g \in Handlers : Serving(g, m)' => Serving(g, m),
              \A g \in Handlers : Reports(g, m)' => Reports(g, m),
              \A t \in AlertTypes : IsOpen(m, t)' <=> IsOpen(m, t)
       PROVE  Goal
  BY <1>2, <1>3, <1>11
<1>12. ASSUME NEW h \in Handlers, OpenAlert(h) PROVE Goal
  <2>1. /\ InsertOpen(h, req[h].machine, pc[h]) /\ pc[h] \in high[h]
        /\ UNCHANGED <<machine, metrics, taken, settled, req>>
    BY <1>12 DEF OpenAlert
  <2>2. pc[h] \in AlertTypes /\ req[h].machine \in Machines
    BY <1>0, <2>1 DEF TypeOK
  <2>3. \A t \in AlertTypes : IsOpen(m, t)' <=> IsOpen(m, t)
    BY <1>0, <2>1, <2>2, OpenKept
  <2>4. \A g \in Handlers : pc'[g] # "idle" => pc[g] # "idle"
    BY <1>0, <1>12, <2>2 DEF OpenAlert, TypeOK
  <2>5. \A g \in Handlers : /\ Serving(g, m)' => Serving(g, m)
                            /\ Reports(g, m)' => Reports(g, m)
    BY <2>1, <2>4 DEF Serving, Reports
  <2>6. QED BY <1>11, <2>1, <2>3, <2>5
<1>13. ASSUME NEW s \in Schedulers, NEW n \in Machines, OpenOffline(s, n) PROVE Goal
  <2>1. InsertOpen(s, n, "offline") /\ UNCHANGED <<machine, metrics, taken, settled, req, pc>>
    BY <1>13 DEF OpenOffline
  <2>2. \A t \in AlertTypes : IsOpen(m, t)' <=> IsOpen(m, t)
    BY <1>0, <2>1, OpenKept
  <2>3. QED BY <1>11, <2>1, <2>2 DEF Serving, Reports
<1>14. ASSUME NEW h \in Handlers, RequestFails(h) PROVE Goal
  <2>1. RollbackAlerts(h) /\ UNCHANGED <<machine, metrics, taken, settled>>
    BY <1>14 DEF RequestFails
  <2>2. \A t \in AlertTypes : IsOpen(m, t)' <=> IsOpen(m, t)
    BY <1>0, <2>1, OpenKept
  <2>3. \A g \in Handlers : /\ Serving(g, m)' => Serving(g, m)
                            /\ Reports(g, m)' => Reports(g, m)
    BY <1>0, <1>14 DEF RequestFails, Serving, Reports, TypeOK
  <2>4. QED BY <1>11, <2>1, <2>2, <2>3
<1>15. ASSUME NEW s \in Schedulers, PassFails(s) PROVE Goal
  <2>1. RollbackAlerts(s) /\ UNCHANGED <<machine, metrics, taken, settled, pc, req>>
    BY <1>15 DEF PassFails
  <2>2. \A t \in AlertTypes : IsOpen(m, t)' <=> IsOpen(m, t)
    BY <1>0, <2>1, OpenKept
  <2>3. QED BY <1>11, <2>1, <2>2 DEF Serving, Reports
<1>16. ASSUME NEW s \in Schedulers, CommitPass(s) PROVE Goal
  <2>1. /\ CommitAlerts(s)
        /\ settled'[m] = IF m \in marked[s] THEN settled[m] \ {"presence"} ELSE settled[m]
        /\ machine'[m] = [machine[m] EXCEPT !.status = StatusAfterPass(s, m)]
        /\ UNCHANGED <<metrics, taken, pc, req>>
    BY <1>16 DEF CommitPass
  <2>2. m \notin marked[s] => IsOpen(m, "offline")' <=> IsOpen(m, "offline")
    BY <1>0, <2>1, OpenKept
  <2>3. \A t \in ThresholdTypes : IsOpen(m, t)' <=> IsOpen(m, t)
    BY <1>0, <2>1, OpenKept
  <2>4. m \notin marked[s] => machine'[m].status = machine[m].status
    <3>1. machine[m] \in [age : Ages, status : Statuses]
      BY <1>0 DEF TypeOK
    <3>2. QED BY <2>1, <3>1
  <2>5. \A g \in Handlers : /\ Serving(g, m)' => Serving(g, m)
                            /\ Reports(g, m)' => Reports(g, m)
    BY <2>1 DEF Serving, Reports
  <2>6. "presence" \in settled'[m] => PresenceAt(m)'
    BY <1>2, <2>1, <2>2, <2>4, <2>5
  <2>7. "thresholds" \in settled'[m] => ThresholdsAt(m)'
    BY <1>3, <2>1, <2>3, <2>5
  <2>8. QED BY <2>6, <2>7
<1>17. ASSUME NEW h \in Handlers, Commit(h) \/ CheckAnomalies(h) \/ CommitAnomalies(h) PROVE Goal
  <2>0. /\ pc[h] \in {"commit", "read_window", "commit_anomaly"}
        /\ CommitAlerts(h) \/ UNCHANGED alerts
        /\ UNCHANGED <<machine, metrics, taken>>
    BY <1>17 DEF Commit, CheckAnomalies, CommitAnomalies
  <2>1. \A g \in Handlers : /\ Serving(g, m)' => Serving(g, m)
                            /\ Reports(g, m)' => Reports(g, m)
    <3>1. CASE Respond(h)
      BY <1>0, <3>1 DEF Respond, Serving, Reports, TypeOK
    <3>2. CASE ~Respond(h)
      <4>1. UNCHANGED req /\ \A g \in Handlers : pc'[g] # "idle" => pc[g] # "idle"
        BY <1>0, <1>17, <3>2 DEF Commit, CheckAnomalies, CommitAnomalies, TypeOK
      <4>2. QED BY <4>1 DEF Serving, Reports
    <3>3. QED BY <3>1, <3>2
  <2>2. ~Serving(h, m) => \A t \in AlertTypes : IsOpen(m, t)' <=> IsOpen(m, t)
    <3>1. CASE CommitAlerts(h)
      BY <1>0, <3>1, OpenKept
    <3>2. CASE UNCHANGED alerts
      BY <3>2 DEF IsOpen
    <3>3. QED BY <2>0, <3>1, <3>2
  <2>3. ~Reports(h, m) => \A t \in ThresholdTypes : IsOpen(m, t)' <=> IsOpen(m, t)
    <3>1. CASE CommitAlerts(h)
      BY <1>0, <3>1, OpenKept
    <3>2. CASE UNCHANGED alerts
      BY <3>2 DEF IsOpen
    <3>3. QED BY <2>0, <3>1, <3>2
  <2>4. CASE Respond(h) /\ alone[h] /\ req[h].machine = m
    <3>1. PresenceAt(m)' /\ (req[h].samples # {} => ThresholdsAt(m)')
      BY <1>17, <2>4, RespondSettles
    <3>2. settled'[m] = settled[m] \cup {"presence"}
                          \cup (IF req[h].samples = {} THEN {} ELSE {"thresholds"})
      BY <1>0, <2>4 DEF Respond, TypeOK
    <3>3. CASE req[h].samples = {}
      <4>1. "thresholds" \in settled'[m] => ThresholdsAt(m)'
        BY <1>3, <2>0, <2>1, <2>3, <3>2, <3>3 DEF Reports
      <4>2. QED BY <3>1, <4>1
    <3>4. QED BY <3>1, <3>3
  <2>5. CASE ~(Respond(h) /\ alone[h] /\ req[h].machine = m)
    <3>1. settled'[m] = settled[m]
      BY <1>0, <1>17, <2>5 DEF Commit, CheckAnomalies, CommitAnomalies, Respond, TypeOK
    <3>2. "presence" \in settled[m] => ~Serving(h, m)
      BY <1>0 DEF PresenceAt
    <3>3. "thresholds" \in settled[m] => ~Reports(h, m)
      BY <1>0 DEF ThresholdsAt
    <3>4. "presence" \in settled'[m] => PresenceAt(m)'
      BY <1>2, <2>0, <2>1, <2>2, <3>1, <3>2
    <3>5. "thresholds" \in settled'[m] => ThresholdsAt(m)'
      BY <1>3, <2>0, <2>1, <2>3, <3>1, <3>3
    <3>6. QED BY <3>4, <3>5
  <2>6. QED BY <2>4, <2>5
<1>18. ASSUME NEW s \in Schedulers, SelectSilent(s) \/ \E n \in Machines : MarkOffline(s, n) PROVE Goal
  BY <1>5, <1>18 DEF SelectSilent, MarkOffline
<1>19. CASE UNCHANGED vars
  BY <1>5, <1>19 DEF vars
<1>20. QED
  BY <1>6, <1>7, <1>8, <1>9, <1>10, <1>12, <1>13, <1>14, <1>15, <1>16, <1>17, <1>18, <1>19
     DEF Next, RequestStep, PassStep

\* The choices of n rows with all the others older, as the property puts it.
NewestSets(rows, n) ==
  {L \in SUBSET rows : Cardinality(L) = n /\ \A i \in L, j \in rows \ L : j < i}

\* "The n newest samples all exceed" said by choosing them, as the property says
\* it, and by counting the newer ones, as the query of the rule is modelled.
LEMMA NewestChosen ==
  ASSUME NEW N \in Nat, NEW rows \in SUBSET (0..N), NEW n \in Nat, NEW S
  PROVE  (\E L \in NewestSets(rows, n) : \A i \in L : i \in S)
         <=> n <= Cardinality(rows) /\ \A i \in Newest(rows, n) : i \in S
<1>1. \A L : L \in NewestSets(rows, n) <=> IsTop(L, rows, n)
  BY DEF IsTop, NewestSets
<1>2. Newest(rows, n) = Largest(rows, n)
  BY DEF Newest, Largest
<1>3. \A L \in NewestSets(rows, n) : L = Newest(rows, n)
  BY <1>1, <1>2, TopIsLargest
<1>4. ASSUME NEW L \in NewestSets(rows, n) PROVE n <= Cardinality(rows)
  <2>1. IsFiniteSet(rows) /\ L \in SUBSET rows /\ Cardinality(L) = n
    BY <1>4, BoundedFinite DEF NewestSets
  <2>2. QED BY <2>1, FS_Subset
<1>5. n <= Cardinality(rows) => NewestSets(rows, n) # {}
  BY <1>1, TopExists
<1>6. QED BY <1>3, <1>4, <1>5

\* What the settled machines' thresholds amount to.
LEMMA ThresholdsMeaning ==
  ASSUME TypeOK, SettledInv
  PROVE  SettledThresholds
<1>1. SUFFICES ASSUME NEW m \in Machines, "thresholds" \in settled[m]
      PROVE  LET stored == metrics[m]
                 newest(n) == {L \in SUBSET stored : /\ Cardinality(L) = n
                                            /\ \A i \in L, j \in stored \ L : j < i}
                 exceeded(what, n) == \E L \in newest(n) : \A i \in L : what \in taken[m][i]
             IN  /\ IsOpen(m, "mem_high") <=> exceeded("mem", 1)
                 /\ IsOpen(m, "disk_full") <=> exceeded("disk", 1)
                 /\ IsOpen(m, "cpu_high") <=> exceeded("cpu", ConsecutivePoints)
  BY DEF SettledThresholds
<1> DEFINE stored == metrics[m]
           exceeded(what, n) == \E L \in NewestSets(stored, n) : \A i \in L : what \in taken[m][i]
<1>2. stored \in SUBSET (0..MaxSamples) /\ MaxSamples \in Nat /\ ConsecutivePoints \in Nat
  BY SettingsAssumption DEF TypeOK
<1>3. 1 <= Cardinality(stored)
  <2>1. stored # {}
    BY <1>1 DEF SettledInv, ThresholdsAt
  <2>2. IsFiniteSet(stored) /\ Cardinality(stored) \in Nat
    BY <1>2, BoundedFinite
  <2>3. Cardinality(stored) # 0
    BY <2>1, <2>2, FS_EmptySet
  <2>4. QED BY <2>2, <2>3
<1>4. ASSUME NEW what, NEW n \in Nat
      PROVE  exceeded(what, n) <=> n <= Cardinality(stored) /\ \A i \in Newest(stored, n) : what \in taken[m][i]
  <2> DEFINE S == {i \in stored : what \in taken[m][i]}
  <2>1. (\E L \in NewestSets(stored, n) : \A i \in L : i \in S)
           <=> n <= Cardinality(stored) /\ \A i \in Newest(stored, n) : i \in S
    BY <1>2, NewestChosen
  <2>2. (\E L \in NewestSets(stored, n) : \A i \in L : i \in S) <=> exceeded(what, n)
    BY DEF NewestSets
  <2>3. \A i \in Newest(stored, n) : i \in stored
    BY DEF Newest
  <2>4. QED BY <2>1, <2>2, <2>3
<1>5. \A t \in ThresholdTypes : IsOpen(m, t) <=> t \in HighOn(m, stored)
  BY <1>1 DEF SettledInv, ThresholdsAt, Demanded
<1>6. /\ "mem_high" \in HighOn(m, stored) <=> \A i \in Newest(stored, 1) : "mem" \in taken[m][i]
      /\ "disk_full" \in HighOn(m, stored) <=> \A i \in Newest(stored, 1) : "disk" \in taken[m][i]
      /\ "cpu_high" \in HighOn(m, stored) <=>
           /\ Cardinality(stored) >= ConsecutivePoints
           /\ \A i \in Newest(stored, ConsecutivePoints) : "cpu" \in taken[m][i]
  BY DEF HighOn
<1> HIDE DEF exceeded
<1>7. /\ exceeded("mem", 1) <=> 1 <= Cardinality(stored) /\ \A i \in Newest(stored, 1) : "mem" \in taken[m][i]
      /\ exceeded("disk", 1) <=> 1 <= Cardinality(stored) /\ \A i \in Newest(stored, 1) : "disk" \in taken[m][i]
      /\ exceeded("cpu", ConsecutivePoints) <=>
           /\ ConsecutivePoints <= Cardinality(stored)
           /\ \A i \in Newest(stored, ConsecutivePoints) : "cpu" \in taken[m][i]
  BY <1>2, <1>4
<1>8. ConsecutivePoints <= Cardinality(stored) <=> Cardinality(stored) >= ConsecutivePoints
  BY <1>2, BoundedFinite
<1>9. /\ IsOpen(m, "mem_high") <=> exceeded("mem", 1)
      /\ IsOpen(m, "disk_full") <=> exceeded("disk", 1)
      /\ IsOpen(m, "cpu_high") <=> exceeded("cpu", ConsecutivePoints)
  BY <1>3, <1>5, <1>6, <1>7, <1>8
<1>10. QED BY <1>9 DEF exceeded, NewestSets

\* The invariants of this section hold in every reachable state.
LEMMA SettledInvariant == Spec => [](TypeOK /\ SettledInv)
<1>1. Init => BaseInv /\ AloneInv /\ SettledInv
  <2>1. ASSUME Init PROVE RowsInv /\ OfflineRowsInv /\ AloneInv /\ SettledInv
    BY <2>1 DEF Init, RowsInv, OfflineRowsInv, AloneInv, SettledInv
  <2>2. QED BY <2>1, InitTypeOK, InitOwn, InitSamples DEF BaseInv
<1>2. BaseInv /\ AloneInv /\ SettledInv /\ [Next]_vars => BaseInv' /\ AloneInv' /\ SettledInv'
  <2>1. BaseInv /\ [Next]_vars => BaseInv'
    BY NextTypeOK, NextRows, NextOfflineRows, NextOwn, NextSamples DEF BaseInv
  <2>2. QED BY <2>1, NextAlone, NextSettled
<1>3. BaseInv /\ SettledInv => TypeOK /\ SettledInv
  BY DEF BaseInv
<1>4. QED BY <1>1, <1>2, <1>3, PTL DEF Spec

\* A request that nothing of its machine overlapped leaves it online and without
\* an offline alert until a pass puts it offline again or another request starts,
\* whatever failed, raced or waited before (record_heartbeat,
\* resolve_offline_if_needed), for any number of workers and schedulers.
THEOREM SettledRequestPresence == Spec => []SettledPresence
<1>1. TypeOK /\ SettledInv => SettledPresence
  BY DEF SettledInv, SettledPresence, PresenceAt
<1>2. QED BY <1>1, SettledInvariant, PTL

\* A metrics request that nothing of its machine overlapped leaves the threshold
\* alerts exactly as the newest stored samples demand (check_threshold_alerts),
\* for any batch sizes, samples and number of consecutive points.
THEOREM SettledRequestThresholds == Spec => []SettledThresholds
<1>1. TypeOK /\ SettledInv => SettledThresholds
  BY ThresholdsMeaning
<1>2. QED BY <1>1, SettledInvariant, PTL
=============================================================================
