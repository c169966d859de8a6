------------------------------ MODULE Dashboard ------------------------------
(***************************************************************************)
(* A user of the dashboard: logs in behind the limiter, from an address    *)
(* that others share, and watches a page until the JWT expires.            *)
(***************************************************************************)
EXTENDS LoginLimiter, LiveView

CONSTANT User  \* the client whose page is modelled

ASSUME UserAssumption == User \in Clients

vars == <<limiterVars, viewVars>>

\* The right password of the user: setToken and router.replace("/dashboard").
LoggedIn == Reset(User) /\ Enter

\* Everything the clients do on the login page but the step above.
TryToLogIn ==
  /\ \E c \in Clients :
       \/ Ask(c) /\ (c = User => page = "login")
       \/ \E right \in BOOLEAN : Verify(c, right)
       \/ RegisterFailure(c)
       \/ c # User /\ Reset(c)
  /\ UNCHANGED viewVars

Redis == (RedisFails \/ RedisBack) /\ UNCHANGED viewVars

Watch == ViewStep /\ UNCHANGED limiterVars

Tick == LimiterTick /\ Expire

Init == LimiterInit /\ ViewInit

Next == LoggedIn \/ TryToLogIn \/ Redis \/ Watch \/ Tick

Spec == Init /\ [][Next]_vars

FairSpec ==
  /\ Spec /\ ViewFairness
  /\ \A c \in Clients : WF_vars(RegisterFailure(c) /\ UNCHANGED viewVars)

(***************************************************************************)
(* Properties.                                                             *)
(***************************************************************************)
\* Shape of the state: only failures that are inside the window are kept, and what the page
\* shows was committed.
TypeOK == LimiterTypeOK /\ ViewTypeOK

\* Nobody is blocked for good: as long as time passes, the failures leave the window
\* (is_blocked purges before it counts), whatever the others behind the address do.
BlockEnds == WF_vars(Tick) => (IsBlocked ~> ~IsBlocked)
=============================================================================
