----------------------------- MODULE Enrollment -----------------------------
(***************************************************************************)
(* Enrolment with one enrolment token: POST /machines creates the machine  *)
(* and its token, POST /agents/enroll exchanges the token for a JWT and    *)
(* consumes it, and the client keeps the JWT in a state file.  Clients are *)
(* the processes configured with the token: the Rust agent, the Suricata   *)
(* forwarder, a host cloned with its configuration.                        *)
(***************************************************************************)
EXTENDS Naturals, FiniteSets

CONSTANTS
  Agents,        \* processes configured with the token
  Forwarders,    \* those that are the Python forwarder
  Handlers,      \* requests the API can be serving at one time
  Nobody,        \* no client
  MaxFailures    \* bound: lost messages, timeouts, failed commits, crashes

ASSUME EnrollmentAssumption ==
  /\ Forwarders \subseteq Agents
  /\ Nobody \notin Agents
  /\ IsFiniteSet(Handlers)
  /\ MaxFailures \in Nat

\* A request, and whether its client is still there to read the answer.
Requests == [client : Agents, connected : BOOLEAN]
Free == [client |-> Nobody, connected |-> FALSE]

VARIABLES
  token,     \* machines.enroll_token_hash: "none" before POST /machines
  hostname,  \* machines.hostname: the client whose enrolment was committed last
  serving,   \* the request each handler has matched with the machine, or Free
  inbox,     \* requests the API has not looked at yet
  answers,   \* answers on their way: <<client, "jwt" or "error">>
  at,        \* where each client is
  file,      \* the state file of each client
  issued,    \* history: JWTs created for the token
  failures   \* failures so far

api == <<token, hostname, issued>>
net == <<serving, inbox, answers>>
clients == <<at, file>>
vars == <<api, net, clients, failures>>

TypeOK ==
  /\ token \in {"none", "live", "consumed"}
  /\ hostname \in Agents \cup {Nobody}
  /\ serving \in [Handlers -> Requests \cup {Free}]
  /\ inbox \subseteq Requests
  /\ answers \subseteq Agents \X {"jwt", "error"}
  /\ at \in [Agents -> {"start", "asking", "answered", "saving", "enrolled", "exited"}]
  /\ file \in [Agents -> {"missing", "torn", "saved"}]
  /\ issued \in Nat
  /\ failures \in 0..MaxFailures

Init ==
  /\ token = "none"
  /\ hostname = Nobody
  /\ serving = [h \in Handlers |-> Free]
  /\ inbox = {}
  /\ answers = {}
  /\ at = [a \in Agents |-> "start"]
  /\ file = [a \in Agents |-> "missing"]
  /\ issued = 0
  /\ failures = 0

Fails == failures < MaxFailures /\ failures' = failures + 1

-----------------------------------------------------------------------------
(* The API.                                                                *)

\* POST /machines: the row with the hash of a fresh token.
CreateMachine ==
  /\ token = "none"
  /\ token' = "live"
  /\ UNCHANGED <<hostname, issued, net, clients, failures>>

\* The answer is read by a client that is still connected, or by nobody.
Reply(r, what) ==
  answers' = IF r.connected THEN answers \cup {<<r.client, what>>} ELSE answers

\* Mutant of FindToken: the handler goes on without a machine.
FindTokenOrNone(h, r) ==
  /\ serving[h] = Free
  /\ r \in inbox
  /\ inbox' = inbox \ {r}
  /\ serving' = [serving EXCEPT ![h] = IF token = "live" THEN r ELSE [r EXCEPT !.client = Nobody]]
  /\ UNCHANGED <<api, answers, clients, failures>>

\* The SELECT of enroll: the machine whose hash matches, or HTTP 401.
FindToken(h, r) ==
  /\ serving[h] = Free
  /\ r \in inbox
  /\ inbox' = inbox \ {r}
  /\ \/ token = "live" /\ serving' = [serving EXCEPT ![h] = r] /\ UNCHANGED answers
     \/ token # "live" /\ Reply(r, "error") /\ UNCHANGED serving
  /\ UNCHANGED <<api, clients, failures>>

\* Mutant of Used: the handler forgets to clear the hash.
StillLive == "live"

\* enroll_token_hash = NULL.
Used == "consumed"

\* The UPDATE by primary key and its commit: it does not look at the hash again.
Consume(h) ==
  /\ serving[h] # Free
  /\ token' = Used
  /\ hostname' = serving[h].client
  /\ issued' = issued + 1
  /\ serving' = [serving EXCEPT ![h] = Free]
  /\ Reply(serving[h], "jwt")
  /\ UNCHANGED <<inbox, clients, failures>>

\* The request fails before its commit: HTTP 500, nothing changed.
EnrollFails(h) ==
  /\ serving[h] # Free
  /\ Fails
  /\ serving' = [serving EXCEPT ![h] = Free]
  /\ Reply(serving[h], "error")
  /\ UNCHANGED <<api, inbox, clients>>

LoseMessage ==
  /\ Fails
  /\ \/ \E r \in inbox : inbox' = inbox \ {r} /\ UNCHANGED answers
     \/ \E m \in answers : answers' = answers \ {m} /\ UNCHANGED inbox
  /\ UNCHANGED <<api, serving, clients>>

-----------------------------------------------------------------------------
(* A client.                                                               *)

\* Mutant of NoState: the state file is not looked at.
IgnoreState(a) == TRUE

\* A forwarder takes a torn state file for none; the agent refuses to start.
NoState(a) == file[a] = "missing" \/ (file[a] = "torn" /\ a \in Forwarders)

Post(a) ==
  /\ at' = [at EXCEPT ![a] = "asking"]
  /\ inbox' = inbox \cup {[client |-> a, connected |-> TRUE]}

\* main: load the state file, else post the token.
Start(a) ==
  /\ at[a] = "start" /\ token # "none"
  /\ \/ NoState(a) /\ Post(a)
     \/ /\ ~NoState(a)
        /\ at' = [at EXCEPT ![a] = IF file[a] = "saved" THEN "enrolled" ELSE "exited"]
        /\ UNCHANGED inbox
  /\ UNCHANGED <<api, serving, answers, file, failures>>

\* HTTP 200, or a status that ends the process with an error.
Answered(a) ==
  /\ at[a] = "asking"
  /\ \E what \in {"jwt", "error"} :
       /\ <<a, what>> \in answers
       /\ answers' = answers \ {<<a, what>>}
       /\ at' = [at EXCEPT ![a] = IF what = "jwt" THEN "answered" ELSE "exited"]
  /\ UNCHANGED <<api, serving, inbox, file, failures>>

\* The connection of a client closes: its request is served all the same.
HangUp(a) ==
  LET gone(r) == IF r.client = a THEN [r EXCEPT !.connected = FALSE] ELSE r IN
  /\ serving' = [h \in Handlers |-> gone(serving[h])]
  /\ inbox' = {gone(r) : r \in inbox}
  /\ answers' = {m \in answers : m[1] # a}

AnswerPossible(a) ==
  \/ \E m \in answers : m[1] = a
  \/ \E r \in inbox \cup {serving[h] : h \in Handlers} : r.client = a /\ r.connected

\* 15 s without an answer end the process with an error: the answer is only
\* late (a failure), or it will never come.
GiveUp(a) ==
  /\ at[a] = "asking"
  /\ IF AnswerPossible(a) THEN Fails ELSE UNCHANGED failures
  /\ at' = [at EXCEPT ![a] = "exited"]
  /\ HangUp(a)
  /\ UNCHANGED <<api, file>>

\* Mutant of BeginSave: the JWT is kept in memory only.
KeepInMemory(a) ==
  /\ at[a] = "answered"
  /\ at' = [at EXCEPT ![a] = "enrolled"]
  /\ UNCHANGED <<api, net, file, failures>>

\* save is a plain write: the file is truncated, then filled.
BeginSave(a) ==
  /\ at[a] = "answered"
  /\ at' = [at EXCEPT ![a] = "saving"]
  /\ file' = [file EXCEPT ![a] = "torn"]
  /\ UNCHANGED <<api, net, failures>>

EndSave(a) ==
  /\ at[a] = "saving"
  /\ at' = [at EXCEPT ![a] = "enrolled"]
  /\ file' = [file EXCEPT ![a] = "saved"]
  /\ UNCHANGED <<api, net, failures>>

\* The process dies at any point, or a write fails and ends it.
Crash(a) ==
  /\ at[a] \notin {"start", "exited"}
  /\ Fails
  /\ at' = [at EXCEPT ![a] = "start"]
  /\ HangUp(a)
  /\ UNCHANGED <<api, file>>

\* The service manager starts the process again after an error.
Restart(a) ==
  /\ at[a] = "exited"
  /\ at' = [at EXCEPT ![a] = "start"]
  /\ UNCHANGED <<api, net, file, failures>>

-----------------------------------------------------------------------------
ApiStep ==
  \/ CreateMachine
  \/ \E h \in Handlers : Consume(h) \/ \E r \in inbox : FindToken(h, r)
ClientStep(a) == Start(a) \/ Answered(a) \/ BeginSave(a) \/ EndSave(a) \/ Restart(a)

Next ==
  \/ ApiStep
  \/ \E h \in Handlers : EnrollFails(h)
  \/ LoseMessage
  \/ \E a \in Agents : ClientStep(a) \/ GiveUp(a) \/ Crash(a)

Spec == Init /\ [][Next]_vars

\* The API serves what arrives, and a client (or its service manager) goes on.
FairSpec == Spec /\ WF_vars(ApiStep) /\ \A a \in Agents : WF_vars(ClientStep(a))

-----------------------------------------------------------------------------
(* Properties.                                                             *)

\* Only requests that had found the token before it was consumed get a JWT:
\* the race of concurrent enrolments is bounded by the requests in progress,
\* and nobody enters it later (agents.py:22-36).
OnlyRacingEnrolments ==
  /\ token # "consumed" => issued = 0
  /\ issued + Cardinality({h \in Handlers : serving[h] # Free}) <= Cardinality(Handlers)

\* An enrolled client goes on with the identity it has: no restart, crash or
\* late answer makes it ask for another one (main.rs:57, forwarder.py:99).
EnrolledForGood ==
  [][\A a \in Agents : file[a] = "saved" => file'[a] = "saved" /\ at'[a] # "asking"]_vars

\* Without failures somebody gets enrolled, whoever else tries at the same
\* time: two clients with one token do not keep each other out.
SomebodyEnrols == [](failures = 0) => <>(\E a \in Agents : file[a] = "saved")

\* What README.md:61 and agents.py:32 say: the token is good for one enrolment.
SingleUse == issued <= 1
=============================================================================
