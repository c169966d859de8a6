------------------------------ MODULE LiveView ------------------------------
(***************************************************************************)
(* How a change reaches an open page of the dashboard: the API publishes   *)
(* on Redis and then commits (alerting.py, events.py), the WebSocket       *)
(* endpoint forwards what is published while it is subscribed              *)
(* (routers/ws.py), the page refetches on a message and every 20 to 30 s   *)
(* (apps/web/lib/ws.ts, the pages), and goes to the login page on a 401.   *)
(*                                                                         *)
(* The data of the page is a version: the number of changes it shows, 0    *)
(* while nothing was fetched yet.  What depends on Redis may fail at any   *)
(* time: a message is lost, no ticket is given, the socket drops.          *)
(***************************************************************************)
EXTENDS Naturals

CONSTANTS
  MaxEvents,    \* bound of the changes that are published
  MaxTroubles,  \* bound of the fetches that fail and of the reloads
  TokenTtl,     \* access_token_ttl_minutes
  TicketTtl,    \* _TICKET_TTL_S
  None,         \* no ticket, no fetch
  Asked         \* a request that is on its way to the API

VARIABLES
  db,         \* the committed version
  writer,     \* the request that changes something: "idle", "published"
  published,  \* how many were published
  troubles,   \* how many fetches failed and how often the page was reloaded
  page,       \* "login" or "shown"
  token,      \* how long the JWT of the page is still valid
  ticket,     \* None, Asked, or the time that is left to the ticket it holds
  socket,     \* "none", "accepted", "subscribed", "closed"
  wire,       \* messages on their way to the page
  fetch,      \* None, Asked, or the version that is on its way to the page
  shown,      \* the version that the page shows
  due         \* history: the committed version when the last fetch was asked for

writerVars == <<db, writer, published>>
sessionVars == <<page, token>>
socketVars == <<ticket, socket, wire>>
fetchVars == <<fetch, shown, due>>
viewVars == <<writerVars, troubles, sessionVars, socketVars, fetchVars>>

ASSUME ViewAssumption == /\ MaxEvents \in Nat /\ MaxTroubles \in Nat
                         /\ TokenTtl \in Nat \ {0} /\ TicketTtl \in Nat \ {0}
                         /\ None \notin Nat /\ Asked \notin Nat /\ None # Asked

(***************************************************************************)
(* The request that changes something.                                     *)
(***************************************************************************)
\* Redis forwards to who is subscribed now; an error of Redis is swallowed.
Publish ==
  /\ writer = "idle" /\ published < MaxEvents
  /\ writer' = "published" /\ published' = published + 1
  /\ wire' \in {wire} \cup (IF socket = "subscribed" THEN {wire + 1} ELSE {})
  /\ UNCHANGED <<db, troubles, sessionVars, ticket, socket, fetchVars>>

\* The commit, or a rollback after the event was published.
EndWrite ==
  /\ writer = "published"
  /\ writer' = "idle" /\ db' \in {db, db + 1}
  /\ UNCHANGED <<published, troubles, sessionVars, socketVars, fetchVars>>

(***************************************************************************)
(* The page: opened, left, and its data.                                   *)
(***************************************************************************)
\* useQuery fetches, useRealtimeEvents asks for a ticket.
Mount ==
  /\ page' = "shown" /\ fetch' = Asked /\ shown' = 0 /\ due' = db
  /\ ticket' = Asked /\ socket' = "none" /\ wire' = 0

\* The user gets a JWT and the page opens.
Enter ==
  /\ page = "login" /\ token' = TokenTtl /\ Mount
  /\ UNCHANGED <<writerVars, troubles>>

Reload ==
  /\ page = "shown" /\ troubles < MaxTroubles
  /\ Mount /\ troubles' = troubles + 1
  /\ UNCHANGED <<writerVars, token>>

\* Mutant of Unauthorized: a 401 is an error like another.
UnauthorizedIgnored ==
  /\ fetch' = IF fetch = Asked THEN None ELSE fetch
  /\ ticket' = IF ticket = Asked THEN None ELSE ticket
  /\ UNCHANGED <<writerVars, troubles, sessionVars, socket, wire, shown, due>>

\* apiFetch on a 401: the cookie is cleared, the page and all it holds are gone.
Unauthorized ==
  /\ page' = "login" /\ token' = 0 /\ fetch' = None /\ shown' = 0 /\ due' = 0
  /\ ticket' = None /\ socket' = "none" /\ wire' = 0
  /\ UNCHANGED <<writerVars, troubles>>

StartFetch == fetch' = Asked /\ due' = db

\* The API authenticates a GET (get_current_user) and reads.
ServeFetch ==
  /\ fetch = Asked
  /\ IF token = 0 THEN Unauthorized
     ELSE /\ fetch' = db
          /\ UNCHANGED <<writerVars, troubles, sessionVars, socketVars, shown, due>>

ShowFetch ==
  /\ fetch \in Nat
  /\ shown' = fetch /\ fetch' = None
  /\ UNCHANGED <<writerVars, troubles, sessionVars, socketVars, due>>

\* The request or its answer fails; it is tried once more.
FailFetch ==
  /\ fetch # None /\ troubles < MaxTroubles
  /\ troubles' = troubles + 1
  /\ fetch' \in {Asked, None}
  /\ UNCHANGED <<writerVars, sessionVars, socketVars, shown, due>>

\* Mutant of Poll: only a message makes the page fetch again.
PollNever == FALSE /\ UNCHANGED viewVars

\* refetchInterval.
Poll ==
  /\ page = "shown" /\ fetch = None /\ StartFetch
  /\ UNCHANGED <<writerVars, troubles, sessionVars, socketVars, shown>>

\* Mutant of Invalidate: a fetch that is under way is the refetch.
InvalidateJoining == due' = db /\ fetch' = IF fetch = None THEN Asked ELSE fetch

\* invalidateQueries: a fetch that is under way is cancelled and asked again, unless it
\* is the first one, which the message joins.
Invalidate ==
  IF fetch # None /\ shown = 0 THEN UNCHANGED <<fetch, due>> ELSE StartFetch

(***************************************************************************)
(* The socket of the page.                                                 *)
(***************************************************************************)
\* A message reaches the page.
Deliver ==
  /\ wire > 0 /\ wire' = wire - 1
  /\ Invalidate
  /\ UNCHANGED <<writerVars, troubles, sessionVars, ticket, socket, shown>>

\* create_ws_ticket; when it fails the page goes on without a socket.
IssueTicket ==
  /\ ticket = Asked
  /\ IF token = 0 THEN Unauthorized
     ELSE /\ ticket' \in {TicketTtl, None}
          /\ UNCHANGED <<writerVars, troubles, sessionVars, socket, wire, fetchVars>>

\* The GETDEL of ws_endpoint: the ticket is gone, whatever the answer.
OpenSocket ==
  /\ ticket \in Nat /\ socket = "none"
  /\ ticket' = None
  /\ socket' \in {"closed"} \cup (IF ticket > 0 THEN {"accepted"} ELSE {})
  /\ UNCHANGED <<writerVars, troubles, sessionVars, wire, fetchVars>>

Subscribe ==
  /\ socket = "accepted" /\ socket' = "subscribed"
  /\ UNCHANGED <<writerVars, troubles, sessionVars, ticket, wire, fetchVars>>

\* The connection or the subscription is lost; useRealtimeEvents opens no other.
Drop ==
  /\ socket \in {"accepted", "subscribed"}
  /\ socket' = "closed" /\ wire' = 0
  /\ UNCHANGED <<writerVars, troubles, sessionVars, ticket, fetchVars>>

\* One unit of time for what expires: the JWT and the ticket.
Expire ==
  /\ token' = IF token = 0 THEN 0 ELSE token - 1
  /\ ticket' = IF ticket \in Nat /\ ticket > 0 THEN ticket - 1 ELSE ticket
  /\ UNCHANGED <<writerVars, troubles, page, socket, wire, fetchVars>>

ViewInit ==
  /\ db = 1 /\ writer = "idle" /\ published = 0 /\ troubles = 0
  /\ page = "login" /\ token = 0
  /\ ticket = None /\ socket = "none" /\ wire = 0
  /\ fetch = None /\ shown = 0 /\ due = 0

ViewStep ==
  \/ Publish \/ EndWrite \/ Reload
  \/ ServeFetch \/ ShowFetch \/ FailFetch \/ Poll
  \/ Deliver \/ IssueTicket \/ OpenSocket \/ Subscribe \/ Drop

\* The requests that are under way end, and the timer of the page fires.
ViewFairness ==
  /\ WF_viewVars(EndWrite) /\ WF_viewVars(Deliver)
  /\ WF_viewVars(ServeFetch) /\ WF_viewVars(ShowFetch) /\ WF_viewVars(Poll)

(***************************************************************************)
(* Properties.                                                             *)
(***************************************************************************)
\* Shape of the page's state: what it shows or is about to show was committed.
ViewTypeOK ==
  /\ db \in 1..(MaxEvents + 1) /\ writer \in {"idle", "published"}
  /\ published \in 0..MaxEvents /\ troubles \in 0..MaxTroubles
  /\ page \in {"login", "shown"} /\ token \in 0..TokenTtl
  /\ ticket \in {None, Asked} \cup 0..TicketTtl
  /\ socket \in {"none", "accepted", "subscribed", "closed"} /\ wire \in 0..MaxEvents
  /\ fetch \in {None, Asked} \cup 1..db /\ shown \in 0..db /\ due \in 0..db

\* An answer is shown only when it was read after the last refetch was asked for: what the
\* page shows never goes back, and a page that has shown something never misses a change
\* that was committed before the message that announced the change was handled (the
\* cancelled refetch of lib/ws.ts).  Not so while its first fetch is under way: a message
\* joins that fetch, which may have been read before the commit, and the change waits for
\* the next message or poll (EventuallyShown).
NothingStaleShown ==
  [][shown' # shown /\ shown' # 0 => shown' >= shown /\ shown' >= due]_viewVars

\* Every change reaches a page that stays open and keeps its session, whether its message
\* was lost, came before the commit, or the socket was never opened (refetchInterval).
EventuallyShown ==
  \A v \in 1..(MaxEvents + 1) :
    (db >= v /\ page = "shown") ~> (shown >= v \/ page = "login")

\* A page whose JWT has expired goes to the login page without a click (apiFetch on 401).
SessionEnds == (page = "shown" /\ token = 0) ~> (page = "login")
=============================================================================
