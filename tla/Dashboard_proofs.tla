--------------------------- MODULE Dashboard_proofs ---------------------------
(***************************************************************************)
(* Every step of the dashboard is a step of the limiter, or leaves it      *)
(* alone, and a step of the page, or leaves it alone; so each of the two   *)
(* keeps an invariant of its own.                                          *)
(***************************************************************************)
EXTENDS Dashboard, FiniteSetTheorems, TLAPS

LimiterStep ==
  \/ \E c \in Clients :
       \/ Ask(c) \/ RegisterFailure(c) \/ Reset(c)
       \/ \E right \in BOOLEAN : Verify(c, right)
  \/ RedisFails \/ RedisBack \/ LimiterTick

ViewChange == ViewStep \/ Enter \/ Expire

\* A step of the whole seen by each part.
LEMMA StepSplits ==
  ASSUME [Next]_vars
  PROVE  [LimiterStep]_limiterVars /\ [ViewChange]_viewVars
<1>1. CASE LoggedIn
  BY <1>1, UserAssumption DEF LoggedIn, LimiterStep, ViewChange
<1>2. CASE TryToLogIn
  BY <1>2 DEF TryToLogIn, LimiterStep
<1>3. CASE Redis
  BY <1>3 DEF Redis, LimiterStep
<1>4. CASE Watch
  BY <1>4 DEF Watch, ViewChange
<1>5. CASE Tick
  BY <1>5 DEF Tick, LimiterStep, ViewChange
<1>6. CASE UNCHANGED vars
  BY <1>6 DEF vars
<1> QED
  BY <1>1, <1>2, <1>3, <1>4, <1>5, <1>6 DEF Next

(***************************************************************************)
(* The limiter.                                                            *)
(***************************************************************************)
\* A failure that Redis did not take is that of an attempt that it let down; while it is
\* down it lets down all that are under way.
LetDown ==
  /\ unrecorded <= exposed
  /\ ~redisUp => unrecorded + Cardinality(Guessing) <= exposed

LimiterInv == LimiterTypeOK /\ LetDown /\ BoundedGuessing

\* The attempts that may still fail are some of the clients.
LEMMA GuessingFinite ==
  /\ IsFiniteSet(Guessing)
  /\ Cardinality(Guessing) \in Nat
  /\ Cardinality(Guessing) <= Cardinality(Clients)
  /\ \A c \in Clients \ Guessing : Cardinality(Guessing) + 1 <= Cardinality(Clients)
<1>1. Guessing \subseteq Clients
  BY DEF Guessing
<1>2. IsFiniteSet(Guessing) /\ Cardinality(Guessing) <= Cardinality(Clients)
  BY <1>1, LimiterAssumption, FS_Subset
<1>3. Cardinality(Guessing) \in Nat
  BY <1>2, FS_CardinalityType
<1>4. ASSUME NEW c \in Clients \ Guessing
      PROVE  Cardinality(Guessing) + 1 <= Cardinality(Clients)
  <2>1. /\ IsFiniteSet(Guessing \cup {c})
        /\ Cardinality(Guessing \cup {c}) = Cardinality(Guessing) + 1
    BY <1>2, <1>4, FS_AddElement
  <2>2. Guessing \cup {c} \subseteq Clients
    BY <1>1, <1>4
  <2>3. Cardinality(Guessing \cup {c}) <= Cardinality(Clients)
    BY <2>2, LimiterAssumption, FS_Subset
  <2> QED BY <2>1, <2>3
<1> QED BY <1>2, <1>3, <1>4

LEMMA LimiterStart == LimiterInit => LimiterInv
<1> SUFFICES ASSUME LimiterInit PROVE LimiterInv
  OBVIOUS
<1>1. DOMAIN failures = {}
  BY DEF LimiterInit
<1>2. IsFiniteSet(DOMAIN failures) /\ Cardinality(DOMAIN failures) = 0
  BY <1>1, FS_EmptySet
<1>3. Guessing = {}
  BY DEF LimiterInit, Guessing
<1>4. Cardinality(Guessing) = 0
  BY <1>3, FS_EmptySet
<1>5. Cardinality(Clients) \in Nat
  BY LimiterAssumption, FS_CardinalityType
<1>6. LimiterTypeOK
  BY <1>1, <1>2, LimiterAssumption DEF LimiterInit, LimiterTypeOK
<1>7. BoundedGuessing /\ LetDown
  BY <1>2, <1>4, <1>5, LimiterAssumption DEF BoundedGuessing, LetDown, Counted, LimiterInit
<1> QED BY <1>6, <1>7 DEF LimiterInv

\* One more attempt under way: there was room for its failure, or Redis was down.
LEMMA AskKeeps ==
  ASSUME LimiterInv, NEW c \in Clients, Ask(c)
  PROVE  LimiterInv'
<1> USE DEF LimiterInv, LimiterTypeOK
<1>1. Guessing' = Guessing \cup {c} /\ c \notin Guessing
  BY DEF Ask, Guessing
<1>2. Cardinality(Guessing)' = Cardinality(Guessing) + 1
  BY <1>1, GuessingFinite, FS_AddElement
<1>3. Counted' = Counted /\ Counted \in Nat
  BY FS_CardinalityType DEF Ask, Counted
<1>4. LimiterTypeOK'
  BY DEF Ask
<1>5. Cardinality(Guessing) + 1 <= Cardinality(Clients)
  BY <1>1, GuessingFinite
<1>6. Cardinality(Clients) \in Nat
  BY LimiterAssumption, FS_CardinalityType
<1>7. CASE redisUp
  <2>1. Counted + 1 <= MaxFailures
    BY <1>3, <1>7, LimiterAssumption DEF Ask, IsBlocked
  <2>2. exposed' = exposed /\ unrecorded' = unrecorded /\ redisUp'
    BY <1>7 DEF Ask
  <2>3. Counted' + unrecorded' + Cardinality(Guessing)' + 1
          <= MaxFailures + Cardinality(Clients) + exposed'
    BY <1>2, <1>3, <1>5, <1>6, <2>1, <2>2, GuessingFinite, LimiterAssumption DEF LetDown
  <2>4. LetDown'
    BY <2>2 DEF LetDown
  <2> QED BY <1>4, <2>3, <2>4, LimiterAssumption DEF BoundedGuessing
<1>8. CASE ~redisUp
  <2>1. exposed' = exposed + 1 /\ unrecorded' = unrecorded /\ ~redisUp'
    BY <1>8 DEF Ask
  <2>2. Counted' + unrecorded' + Cardinality(Guessing)' + 1
          <= MaxFailures + Cardinality(Clients) + exposed'
    BY <1>2, <1>3, <1>6, <2>1, GuessingFinite, LimiterAssumption DEF BoundedGuessing
  <2>3. LetDown'
    BY <1>2, <1>8, <2>1, GuessingFinite DEF LetDown
  <2> QED BY <1>4, <2>2, <2>3 DEF BoundedGuessing
<1> QED BY <1>7, <1>8

LEMMA VerifyKeeps ==
  ASSUME LimiterInv, NEW c \in Clients, NEW right \in BOOLEAN, Verify(c, right)
  PROVE  LimiterInv'
<1> USE DEF LimiterInv, LimiterTypeOK
<1>1. Guessing' \subseteq Guessing
  BY DEF Verify, Guessing
<1>2. Cardinality(Guessing)' \in Nat /\ Cardinality(Guessing)' <= Cardinality(Guessing)
  BY <1>1, GuessingFinite, FS_Subset, FS_CardinalityType
<1>3. Counted' = Counted /\ Counted \in Nat /\ UNCHANGED <<exposed, unrecorded, redisUp>>
  BY FS_CardinalityType DEF Verify, Counted
<1>4. Cardinality(Clients) \in Nat
  BY LimiterAssumption, FS_CardinalityType
<1>5. LimiterTypeOK'
  BY DEF Verify
<1>6. BoundedGuessing' /\ LetDown'
  BY <1>2, <1>3, <1>4, GuessingFinite, LimiterAssumption DEF BoundedGuessing, LetDown
<1> QED BY <1>5, <1>6

\* An attempt under way becomes a failure, on record or lost: the sum does not grow.
LEMMA RegisterKeeps ==
  ASSUME LimiterInv, NEW c \in Clients, RegisterFailure(c)
  PROVE  LimiterInv'
<1> USE DEF LimiterInv, LimiterTypeOK
<1>1. Guessing' = Guessing \ {c} /\ c \in Guessing
  BY DEF RegisterFailure, Guessing
<1>2. Cardinality(Guessing)' = Cardinality(Guessing) - 1
  BY <1>1, GuessingFinite, FS_RemoveElement
<1>3. Counted \in Nat /\ Cardinality(Clients) \in Nat
  BY LimiterAssumption, FS_CardinalityType DEF Counted
<1>4. /\ LimiterTypeOK' /\ Counted' \in Nat
      /\ \/ redisUp /\ Counted' = Counted + 1 /\ unrecorded' = unrecorded
         \/ ~redisUp /\ Counted' = Counted /\ unrecorded' = unrecorded + 1
  <2>1. CASE redisUp
    <3>1. PICK slot \in 1..(Counted + 1) \ DOMAIN failures :
            failures' = [s \in DOMAIN failures \cup {slot} |->
                           IF s = slot THEN Window ELSE failures[s]] /\ unrecorded' = unrecorded
      BY <2>1 DEF RegisterFailure
    <3>2. DOMAIN failures' = DOMAIN failures \cup {slot}
      BY <3>1
    <3>3. \A s \in DOMAIN failures' : failures'[s] \in 1..Window
      BY <3>1, LimiterAssumption
    <3>4. IsFiniteSet(DOMAIN failures') /\ Cardinality(DOMAIN failures') = Counted + 1
      BY <3>1, <3>2, FS_AddElement DEF Counted
    <3>5. attempt' \in [Clients -> {"idle", "verify", "register", "reset"}]
          /\ redisUp' \in BOOLEAN /\ exposed' \in Nat
      BY DEF RegisterFailure
    <3> QED BY <1>3, <2>1, <3>1, <3>3, <3>4, <3>5 DEF Counted
  <2>2. CASE ~redisUp
    <3>1. failures' = failures
      BY <2>2 DEF RegisterFailure
    <3> QED BY <1>3, <2>2, <3>1 DEF RegisterFailure, Counted
  <2> QED BY <2>1, <2>2
<1>5. exposed' = exposed /\ redisUp' = redisUp
  BY DEF RegisterFailure
<1>6. Cardinality(Guessing) \in Nat /\ Cardinality(Guessing)' = Cardinality(Guessing) - 1
  BY <1>2, GuessingFinite
<1>7. BoundedGuessing'
  BY <1>3, <1>4, <1>5, <1>6, LimiterAssumption DEF BoundedGuessing
<1>8. LetDown'
  <2>1. CASE redisUp
    BY <1>4, <1>5, <2>1 DEF LetDown
  <2>2. CASE ~redisUp
    <3>1. /\ unrecorded + Cardinality(Guessing) <= exposed
          /\ unrecorded \in Nat /\ exposed \in Nat
      BY <2>2 DEF LetDown
    <3>2. unrecorded' = unrecorded + 1 /\ exposed' = exposed
      BY <1>4, <1>5, <2>2
    <3>3. IsFiniteSet(Guessing') /\ Cardinality(Guessing') = Cardinality(Guessing) - 1
      BY <1>1, GuessingFinite, FS_RemoveElement
    <3>4. Cardinality(Guessing') \in Nat
      BY <3>3, FS_CardinalityType
    <3>5. /\ unrecorded' <= exposed'
          /\ unrecorded' + Cardinality(Guessing') <= exposed'
      BY <1>6, <3>1, <3>2, <3>3, <3>4
    <3> QED BY <3>5 DEF LetDown
  <2> QED BY <2>1, <2>2
<1> QED BY <1>4, <1>7, <1>8

\* Fewer failures, and no attempt more that may fail.
LEMMA FewerKeeps ==
  ASSUME LimiterInv, LimiterTypeOK', Guessing' \subseteq Guessing,
         UNCHANGED <<exposed, unrecorded, redisUp>>,
         DOMAIN failures' \subseteq DOMAIN failures
  PROVE  LimiterInv'
<1>1. Counted \in Nat /\ Counted' \in Nat /\ Counted' <= Counted
  BY FS_Subset, FS_CardinalityType DEF LimiterInv, LimiterTypeOK, Counted
<1>2. Cardinality(Guessing)' \in Nat /\ Cardinality(Guessing)' <= Cardinality(Guessing)
  BY GuessingFinite, FS_Subset, FS_CardinalityType
<1>3. Cardinality(Clients) \in Nat
  BY LimiterAssumption, FS_CardinalityType
<1> QED
  BY <1>1, <1>2, <1>3, GuessingFinite, LimiterAssumption
  DEF LimiterInv, LimiterTypeOK, BoundedGuessing, LetDown

LEMMA LimiterKeeps ==
  ASSUME LimiterInv, [LimiterStep]_limiterVars
  PROVE  LimiterInv'
<1>1. ASSUME NEW c \in Clients, Reset(c) PROVE LimiterInv'
  <2>1. DOMAIN failures' \subseteq DOMAIN failures
    BY <1>1 DEF Reset
  <2>2. IsFiniteSet(DOMAIN failures')
    BY <2>1, FS_Subset DEF LimiterInv, LimiterTypeOK
  <2>3. LimiterTypeOK'
    BY <1>1, <2>2 DEF Reset, LimiterInv, LimiterTypeOK
  <2>4. Guessing' \subseteq Guessing /\ UNCHANGED <<exposed, unrecorded, redisUp>>
    BY <1>1 DEF Reset, Guessing, LimiterInv, LimiterTypeOK
  <2> QED BY <2>1, <2>3, <2>4, FewerKeeps
<1>2. CASE LimiterTick
  <2>1. DOMAIN failures' = {t \in DOMAIN failures : failures[t] > 1}
    BY <1>2 DEF LimiterTick, Slide
  <2>2. IsFiniteSet(DOMAIN failures')
    BY <2>1, FS_Subset DEF LimiterInv, LimiterTypeOK
  <2>3. \A s \in DOMAIN failures' : failures'[s] \in 1..Window
    BY <1>2, <2>1, LimiterAssumption DEF LimiterTick, Slide, LimiterInv, LimiterTypeOK
  <2>4. LimiterTypeOK'
    BY <1>2, <2>2, <2>3 DEF LimiterTick, LimiterInv, LimiterTypeOK
  <2>5. Guessing' = Guessing /\ UNCHANGED <<exposed, unrecorded, redisUp>>
    BY <1>2 DEF LimiterTick, Guessing
  <2> QED BY <2>1, <2>4, <2>5, FewerKeeps
<1>3. CASE RedisFails
  <2>1. /\ failures' = failures /\ attempt' = attempt /\ unrecorded' = unrecorded
        /\ ~redisUp' /\ redisUp' \in BOOLEAN /\ exposed' = exposed + Cardinality(Guessing)
    BY <1>3 DEF RedisFails
  <2>2. Guessing' = Guessing /\ Counted' = Counted /\ Counted \in Nat
    BY <2>1, FS_CardinalityType DEF Guessing, Counted, LimiterInv, LimiterTypeOK
  <2>3. exposed' \in Nat /\ LimiterTypeOK'
    BY <2>1, GuessingFinite DEF LimiterInv, LimiterTypeOK
  <2>4. Cardinality(Clients) \in Nat
    BY LimiterAssumption, FS_CardinalityType
  <2>5. LetDown'
    BY <2>1, <2>2, <2>3, GuessingFinite DEF LetDown, LimiterInv, LimiterTypeOK
  <2>6. BoundedGuessing'
    BY <2>1, <2>2, <2>3, <2>4, GuessingFinite, LimiterAssumption
    DEF BoundedGuessing, LimiterInv, LimiterTypeOK
  <2> QED BY <2>3, <2>5, <2>6 DEF LimiterInv
<1>4. CASE RedisBack \/ UNCHANGED limiterVars
  <2>1. /\ UNCHANGED <<failures, attempt, exposed, unrecorded>> /\ redisUp' \in BOOLEAN
        /\ redisUp' \/ redisUp' = redisUp
    BY <1>4 DEF RedisBack, limiterVars, LimiterInv, LimiterTypeOK
  <2> QED BY <2>1 DEF LimiterInv, LimiterTypeOK, BoundedGuessing, LetDown, Counted, Guessing
<1> QED
  BY <1>1, <1>2, <1>3, <1>4, AskKeeps, VerifyKeeps, RegisterKeeps DEF LimiterStep

(***************************************************************************)
(* The page.                                                               *)
(***************************************************************************)
\* Each committed change and each message was published.
Announced ==
  /\ db + (IF writer = "published" THEN 1 ELSE 0) <= published + 1
  /\ wire <= published

\* An answer on its way was read after the page last asked for it.
AnswerFresh == fetch \in Nat => fetch >= due /\ fetch >= shown

ViewInv == ViewTypeOK /\ Announced /\ AnswerFresh

LEMMA ViewStart == ViewInit => ViewInv
BY ViewAssumption DEF ViewInit, ViewInv, ViewTypeOK, Announced, AnswerFresh

LEMMA WriterKeeps ==
  ASSUME ViewInv, Publish \/ EndWrite
  PROVE  ViewInv'
<1>1. CASE Publish
  <2> USE <1>1, ViewAssumption DEF Publish, ViewInv, ViewTypeOK, Announced, AnswerFresh,
                                   sessionVars, fetchVars
  <2>1. wire' \in 0..MaxEvents /\ wire' <= published'
    OBVIOUS
  <2> QED BY <2>1
<1>2. CASE EndWrite
  <2>1. UNCHANGED <<published, troubles, page, token, ticket, socket, wire, fetch, shown, due>>
    BY <1>2 DEF EndWrite, sessionVars, socketVars, fetchVars
  <2>2. writer = "published" /\ writer' = "idle" /\ db' \in {db, db + 1}
    BY <1>2 DEF EndWrite
  <2>3. /\ db \in Nat \ {0} /\ published \in Nat /\ published <= MaxEvents
        /\ db <= published
    BY <2>2, ViewAssumption DEF ViewInv, ViewTypeOK, Announced
  <2>4. db' \in Nat \ {0} /\ db <= db' /\ db' <= published + 1
    BY <2>2, <2>3
  <2>5. db' \in 1..(MaxEvents + 1)
    BY <2>3, <2>4, ViewAssumption
  <2>6. Announced'
    BY <2>1, <2>2, <2>4 DEF ViewInv, Announced
  <2>7. /\ fetch' \in {None, Asked} \cup 1..db'
        /\ shown' \in 0..db' /\ due' \in 0..db'
    BY <2>1, <2>3, <2>4 DEF ViewInv, ViewTypeOK
  <2>8. ViewTypeOK'
    BY <2>1, <2>2, <2>5, <2>7 DEF ViewInv, ViewTypeOK
  <2> QED BY <2>1, <2>6, <2>8 DEF ViewInv, AnswerFresh
<1> QED BY <1>1, <1>2

LEMMA PageKeeps ==
  ASSUME ViewInv, Enter \/ Reload \/ Unauthorized \/ Poll \/ Expire
  PROVE  ViewInv'
<1> USE ViewAssumption DEF ViewInv, ViewTypeOK, Announced, AnswerFresh,
                          writerVars, sessionVars, socketVars, fetchVars
<1>1. CASE Enter
  BY <1>1 DEF Enter, Mount
<1>2. CASE Reload
  BY <1>2 DEF Reload, Mount
<1>3. CASE Unauthorized
  BY <1>3 DEF Unauthorized
<1>4. CASE Poll
  BY <1>4 DEF Poll, StartFetch
<1>5. CASE Expire
  <2>1. token' \in 0..TokenTtl
    BY <1>5 DEF Expire
  <2>2. ticket' \in {None, Asked} \cup 0..TicketTtl
    BY <1>5 DEF Expire
  <2> QED BY <1>5, <2>1, <2>2 DEF Expire
<1> QED BY <1>1, <1>2, <1>3, <1>4, <1>5

LEMMA FetchKeeps ==
  ASSUME ViewInv, ServeFetch \/ ShowFetch \/ FailFetch \/ Deliver
  PROVE  ViewInv'
<1>1. CASE ServeFetch /\ token = 0
  BY <1>1, PageKeeps DEF ServeFetch
<1> USE ViewAssumption DEF ViewInv, ViewTypeOK, Announced, AnswerFresh,
                          writerVars, sessionVars, socketVars, fetchVars
<1>2. CASE ServeFetch /\ token # 0
  BY <1>2 DEF ServeFetch
<1>3. CASE ShowFetch
  BY <1>3 DEF ShowFetch
<1>4. CASE FailFetch
  BY <1>4 DEF FailFetch
<1>5. CASE Deliver
  <2>1. /\ fetch' \in {None, Asked} \cup 1..db /\ due' \in 0..db
        /\ fetch' \in Nat => fetch' >= due' /\ fetch' >= shown
    BY <1>5 DEF Deliver, Invalidate, StartFetch
  <2> QED BY <1>5, <2>1 DEF Deliver
<1> QED BY <1>1, <1>2, <1>3, <1>4, <1>5

LEMMA SocketKeeps ==
  ASSUME ViewInv, IssueTicket \/ OpenSocket \/ Subscribe \/ Drop
  PROVE  ViewInv'
<1>1. CASE IssueTicket /\ token = 0
  BY <1>1, PageKeeps DEF IssueTicket
<1> USE ViewAssumption DEF ViewInv, ViewTypeOK, Announced, AnswerFresh,
                          writerVars, sessionVars, socketVars, fetchVars
<1>2. CASE IssueTicket /\ token # 0
  BY <1>2 DEF IssueTicket
<1>3. CASE OpenSocket
  BY <1>3 DEF OpenSocket
<1>4. CASE Subscribe
  BY <1>4 DEF Subscribe
<1>5. CASE Drop
  BY <1>5 DEF Drop
<1> QED BY <1>1, <1>2, <1>3, <1>4, <1>5

LEMMA ViewKeeps ==
  ASSUME ViewInv, [ViewChange]_viewVars
  PROVE  ViewInv'
<1>1. CASE UNCHANGED viewVars
  BY <1>1 DEF ViewInv, ViewTypeOK, Announced, AnswerFresh,
              viewVars, writerVars, sessionVars, socketVars, fetchVars
<1> QED
  BY <1>1, WriterKeeps, PageKeeps, FetchKeeps, SocketKeeps DEF ViewChange, ViewStep

\* Only the arrival of an answer puts something new on the page.
LEMMA ShownFresh ==
  ASSUME ViewInv, [ViewChange]_viewVars, shown' # shown, shown' # 0
  PROVE  shown' >= shown /\ shown' >= due
<1>1. ShowFetch
  BY DEF ViewChange, ViewStep, viewVars, fetchVars, writerVars, Publish, EndWrite, Reload,
         Mount, ServeFetch, Unauthorized, FailFetch, Poll, Deliver, IssueTicket, OpenSocket,
         Subscribe, Drop, Enter, Expire
<1>2. shown' = fetch /\ fetch \in Nat
  BY <1>1 DEF ShowFetch
<1> QED BY <1>2 DEF ViewInv, AnswerFresh

LEMMA Invariants == Spec => [](LimiterInv /\ ViewInv)
<1>1. Init => LimiterInv /\ ViewInv
  BY LimiterStart, ViewStart DEF Init
<1>2. LimiterInv /\ ViewInv /\ [Next]_vars => (LimiterInv /\ ViewInv)'
  BY LimiterKeeps, ViewKeeps, StepSplits
<1> QED BY <1>1, <1>2, PTL DEF Spec

\* The state keeps its shape, for any number of clients, changes and failures.
THEOREM DashboardTypeCorrect == Spec => []TypeOK
<1>1. LimiterInv /\ ViewInv => TypeOK
  BY DEF LimiterInv, ViewInv, TypeOK
<1> QED BY <1>1, Invariants, PTL

\* However attempts interleave, and whenever Redis fails and comes back, the wrong passwords,
\* on record, lost or still under way, exceed the limit by one for each client but the first
\* and one for each attempt that Redis let down (is_blocked, register_failure).
THEOREM GuessingBounded == Spec => []BoundedGuessing
<1>1. LimiterInv /\ ViewInv => BoundedGuessing
  BY DEF LimiterInv
<1> QED BY <1>1, Invariants, PTL

\* Whatever is published, lost or late, the page never goes back to an older version and
\* never shows an answer from before the last refetch it asked for; a message that is
\* handled during the first fetch of a page asks for none (invalidateQueries of lib/ws.ts).
THEOREM ShownNeverStale == Spec => NothingStaleShown
<1>1. /\ LimiterInv /\ ViewInv /\ [Next]_vars
      => [shown' # shown /\ shown' # 0 => shown' >= shown /\ shown' >= due]_viewVars
  BY ShownFresh, StepSplits
<1> QED BY <1>1, Invariants, PTL DEF Spec, NothingStaleShown
=============================================================================
