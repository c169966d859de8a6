---------------------------- MODULE LoginLimiter ----------------------------
(***************************************************************************)
(* POST /auth/login behind the limiter of failed attempts                  *)
(* (routers/auth.py, core/ratelimit.py), for clients that share one        *)
(* address.  An attempt asks the limiter, verifies the password, and then  *)
(* registers its failure or resets the count; other attempts run between.  *)
(* When Redis does not answer, the limiter lets everybody in.              *)
(*                                                                         *)
(* An attempt that is refused (429) leaves everything as it was.           *)
(***************************************************************************)
EXTENDS Naturals, FiniteSets

CONSTANTS
  Clients,      \* the clients behind the address
  MaxFailures,  \* DEFAULT_MAX_FAILURES
  Window,       \* DEFAULT_WINDOW_SECONDS
  MaxExposed    \* bound of the attempts that Redis lets down

VARIABLES
  failures,  \* the sorted set: how long each failure in the window will count
  attempt,   \* attempt[c]: where the attempt of c is
  redisUp,   \* Redis answers
  exposed,   \* history: the attempts let in while Redis was down, or under way when it went down
  unrecorded \* history: the wrong passwords whose failure Redis did not take

limiterVars == <<failures, attempt, redisUp, exposed, unrecorded>>

ASSUME LimiterAssumption == /\ IsFiniteSet(Clients)
                            /\ MaxFailures \in Nat \ {0}
                            /\ Window \in Nat \ {0}
                            /\ MaxExposed \in Nat

Counted == Cardinality(DOMAIN failures)

\* Mutant of IsBlocked: the count may exceed the maximum by one.
IsBlockedAbove == redisUp /\ Counted > MaxFailures

\* is_blocked, which purges the failures that have left the window.
IsBlocked == redisUp /\ Counted >= MaxFailures

Ask(c) ==
  /\ attempt[c] = "idle" /\ ~IsBlocked
  /\ redisUp \/ exposed < MaxExposed
  /\ attempt' = [attempt EXCEPT ![c] = "verify"]
  /\ exposed' = IF redisUp THEN exposed ELSE exposed + 1
  /\ UNCHANGED <<failures, redisUp, unrecorded>>

Verify(c, right) ==
  /\ attempt[c] = "verify"
  /\ attempt' = [attempt EXCEPT ![c] = IF right THEN "reset" ELSE "register"]
  /\ UNCHANGED <<failures, redisUp, exposed, unrecorded>>

\* A member of its own for each failure; lost when Redis does not answer.
RegisterFailure(c) ==
  /\ attempt[c] = "register"
  /\ attempt' = [attempt EXCEPT ![c] = "idle"]
  /\ IF redisUp
     THEN \E slot \in 1..(Counted + 1) \ DOMAIN failures :
            /\ \A s \in 1..(slot - 1) : s \in DOMAIN failures
            /\ failures' = [s \in DOMAIN failures \cup {slot} |->
                              IF s = slot THEN Window ELSE failures[s]]
            /\ UNCHANGED unrecorded
     ELSE unrecorded' = unrecorded + 1 /\ UNCHANGED failures
  /\ UNCHANGED <<redisUp, exposed>>

\* The right password: the count starts over and the client gets its token.
Reset(c) ==
  /\ attempt[c] = "reset"
  /\ attempt' = [attempt EXCEPT ![c] = "idle"]
  /\ failures' = IF redisUp THEN <<>> ELSE failures
  /\ UNCHANGED <<redisUp, exposed, unrecorded>>

\* Attempts that may still be a wrong password, or are one that is not registered yet.
Guessing == {c \in Clients : attempt[c] \in {"verify", "register"}}

RedisFails ==
  /\ redisUp /\ redisUp' = FALSE
  /\ exposed' = exposed + Cardinality(Guessing) /\ exposed' <= MaxExposed
  /\ UNCHANGED <<failures, attempt, unrecorded>>

RedisBack ==
  /\ ~redisUp /\ redisUp' = TRUE
  /\ UNCHANGED <<failures, attempt, exposed, unrecorded>>

\* Mutant of Slide: zremrangebyscore is left out, the count still has what is too old.
SlideKeeping == [s \in DOMAIN failures |-> IF failures[s] > 0 THEN failures[s] - 1 ELSE 0]

\* One unit of time: what has left the window is not counted any more.
Slide == [s \in {t \in DOMAIN failures : failures[t] > 1} |-> failures[s] - 1]

LimiterTick == failures' = Slide /\ UNCHANGED <<attempt, redisUp, exposed, unrecorded>>

LimiterInit ==
  /\ failures = <<>>
  /\ attempt = [c \in Clients |-> "idle"]
  /\ redisUp = TRUE /\ exposed = 0 /\ unrecorded = 0

(***************************************************************************)
(* Properties.                                                             *)
(***************************************************************************)
\* Shape of the limiter's state.
LimiterTypeOK ==
  /\ IsFiniteSet(DOMAIN failures)
  /\ \A s \in DOMAIN failures : failures[s] \in 1..Window
  /\ attempt \in [Clients -> {"idle", "verify", "register", "reset"}]
  /\ redisUp \in BOOLEAN /\ exposed \in Nat /\ unrecorded \in Nat

\* The limiter is asked before the password is verified and told after, so attempts at the
\* same time overrun it, by at most one each but the first.  Redis adds one for each attempt
\* that it lets down: let in while it did not answer, or under way when it stopped.  Wrong
\* passwords, whether their failure is on record or was lost, are never more than that,
\* however attempts and outages interleave (is_blocked, register_failure).
BoundedGuessing ==
  Counted + unrecorded + Cardinality(Guessing) + 1
    <= MaxFailures + Cardinality(Clients) + exposed
=============================================================================
