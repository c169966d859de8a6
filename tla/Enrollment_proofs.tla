------------------------- MODULE Enrollment_proofs -------------------------
(***************************************************************************)
(* Proofs about Enrollment for any clients, handlers and failures: type    *)
(* correctness, the bound on the race of concurrent enrolments, and that   *)
(* an enrolled client never asks for another identity.                     *)
(***************************************************************************)
EXTENDS Enrollment, FiniteSetTheorems, TLAPS

USE EnrollmentAssumption

\* The initial state is well typed.
LEMMA InitTypeOK == ASSUME Init PROVE TypeOK
  BY DEF Init, TypeOK

\* A request in hand is one of a client.
LEMMA ServingFact ==
  ASSUME TypeOK, NEW h \in Handlers, serving[h] # Free
  PROVE  serving[h] \in Requests /\ serving[h].client \in Agents
  BY DEF TypeOK, Requests

\* A reply goes to the client of the request.
LEMMA ReplyTypes ==
  ASSUME TypeOK, NEW r \in Requests, NEW what \in {"jwt", "error"}, Reply(r, what)
  PROVE  answers' \subseteq Agents \X {"jwt", "error"}
  BY DEF TypeOK, Requests, Reply

\* A client that hangs up leaves its requests, and no handler free or busy.
LEMMA HangUpTypes ==
  ASSUME TypeOK, NEW a \in Agents, HangUp(a)
  PROVE  /\ serving' \in [Handlers -> Requests \cup {Free}]
         /\ inbox' \subseteq Requests
         /\ answers' \subseteq Agents \X {"jwt", "error"}
         /\ \A h \in Handlers : serving'[h] = Free <=> serving[h] = Free
<1> DEFINE gone(r) == IF r.client = a THEN [r EXCEPT !.connected = FALSE] ELSE r
<1>1. ASSUME NEW r \in Requests PROVE gone(r) \in Requests /\ gone(r) # Free
  <2>1. r \in [client : Agents, connected : BOOLEAN] /\ r.client # Nobody
    BY DEF Requests
  <2>2. gone(r) \in [client : Agents, connected : BOOLEAN] /\ gone(r).client = r.client
    BY <2>1
  <2>3. Free.client = Nobody
    BY DEF Free
  <2>4. QED BY <2>1, <2>2, <2>3 DEF Requests
<1>2. gone(Free) = Free
  BY DEF Free
<1>3. /\ serving' = [h \in Handlers |-> gone(serving[h])]
      /\ inbox' = {gone(r) : r \in inbox}
      /\ answers' = {m \in answers : m[1] # a}
  BY DEF HangUp
<1>4. Free \notin Requests
  BY DEF Free, Requests
<1> HIDE DEF gone
<1>5. \A h \in Handlers : /\ serving'[h] \in Requests \cup {Free}
                          /\ serving'[h] = Free <=> serving[h] = Free
  BY <1>1, <1>2, <1>3, <1>4 DEF TypeOK
<1>6. inbox' \subseteq Requests
  BY <1>1, <1>3 DEF TypeOK
<1>7. QED BY <1>3, <1>5, <1>6 DEF TypeOK

\* Every step keeps the state well typed.
LEMMA NextTypeOK == ASSUME TypeOK, [Next]_vars PROVE TypeOK'
<1> USE DEF api, net, clients
<1>1. CASE CreateMachine
  BY <1>1 DEF CreateMachine, TypeOK
<1>2. ASSUME NEW h \in Handlers, NEW r \in inbox, FindToken(h, r) PROVE TypeOK'
  <2>1. r \in Requests
    BY DEF TypeOK
  <2>2. answers' \subseteq Agents \X {"jwt", "error"}
    BY <1>2, <2>1, ReplyTypes DEF FindToken, TypeOK
  <2>3. serving' \in [Handlers -> Requests \cup {Free}]
    BY <1>2, <2>1 DEF FindToken, TypeOK
  <2>4. QED BY <1>2, <2>2, <2>3 DEF FindToken, TypeOK
<1>3. ASSUME NEW h \in Handlers, Consume(h) PROVE TypeOK'
  <2>1. serving[h] \in Requests /\ serving[h].client \in Agents
    BY <1>3, ServingFact DEF Consume
  <2>2. answers' \subseteq Agents \X {"jwt", "error"}
    BY <1>3, <2>1, ReplyTypes DEF Consume
  <2>3. serving' \in [Handlers -> Requests \cup {Free}]
    BY <1>3 DEF Consume, TypeOK
  <2>4. QED BY <1>3, <2>1, <2>2, <2>3 DEF Consume, Used, TypeOK
<1>4. ASSUME NEW h \in Handlers, EnrollFails(h) PROVE TypeOK'
  <2>1. serving[h] \in Requests
    BY <1>4, ServingFact DEF EnrollFails
  <2>2. answers' \subseteq Agents \X {"jwt", "error"}
    BY <1>4, <2>1, ReplyTypes DEF EnrollFails
  <2>3. serving' \in [Handlers -> Requests \cup {Free}]
    BY <1>4 DEF EnrollFails, TypeOK
  <2>4. QED BY <1>4, <2>2, <2>3 DEF EnrollFails, Fails, TypeOK
<1>5. CASE LoseMessage
  BY <1>5 DEF LoseMessage, Fails, TypeOK
<1>6. ASSUME NEW a \in Agents, Start(a) PROVE TypeOK'
  <2>1. inbox' \subseteq Requests
    <3>1. [client |-> a, connected |-> TRUE] \in Requests
      BY DEF Requests
    <3>2. inbox' = inbox \/ inbox' = inbox \cup {[client |-> a, connected |-> TRUE]}
      BY <1>6 DEF Start, Post
    <3>3. QED BY <3>1, <3>2 DEF TypeOK
  <2>2. at' \in [Agents -> {"start", "asking", "answered", "saving", "enrolled", "exited"}]
    BY <1>6 DEF Start, Post, TypeOK
  <2>3. QED BY <1>6, <2>1, <2>2 DEF Start, TypeOK
<1>7. ASSUME NEW a \in Agents, Answered(a) \/ BeginSave(a) \/ EndSave(a) \/ Restart(a)
      PROVE  TypeOK'
  BY <1>7 DEF Answered, BeginSave, EndSave, Restart, TypeOK
<1>8. ASSUME NEW a \in Agents, GiveUp(a) \/ Crash(a) PROVE TypeOK'
  <2>1. HangUp(a)
    BY <1>8 DEF GiveUp, Crash
  <2>2. QED BY <1>8, <2>1, HangUpTypes DEF GiveUp, Crash, Fails, TypeOK
<1>9. CASE UNCHANGED vars
  BY <1>9 DEF vars, TypeOK
<1>10. QED
  BY <1>1, <1>2, <1>3, <1>4, <1>5, <1>6, <1>7, <1>8, <1>9 DEF Next, ApiStep, ClientStep

\* Every reachable state is well typed.
THEOREM TypeCorrect == Spec => []TypeOK
<1>1. Init => TypeOK
  BY InitTypeOK
<1>2. TypeOK /\ [Next]_vars => TypeOK'
  BY NextTypeOK
<1>3. QED BY <1>1, <1>2, PTL DEF Spec

-----------------------------------------------------------------------------
(* The race of concurrent enrolments.                                      *)

Busy == {h \in Handlers : serving[h] # Free}

\* Handlers that become free or busy.
LEMMA BusyFacts ==
  /\ Cardinality(Busy) \in Nat
  /\ Cardinality(Busy) <= Cardinality(Handlers)
  /\ \A h \in Busy : Busy' = Busy \ {h} => Cardinality(Busy') = Cardinality(Busy) - 1
<1>1. Busy \subseteq Handlers /\ IsFiniteSet(Handlers)
  BY DEF Busy
<1>2. QED BY <1>1, FS_Subset, FS_CardinalityType, FS_RemoveElement

\* A step that consumes the token ends a request that had found it, and once it
\* is consumed no request finds it.
LEMMA NextRacing ==
  ASSUME TypeOK, OnlyRacingEnrolments, [Next]_vars
  PROVE  OnlyRacingEnrolments'
<1> USE DEF api, net, clients, OnlyRacingEnrolments
<1>1. Cardinality(Busy) \in Nat /\ Cardinality(Handlers) \in Nat /\ issued \in Nat
  BY BusyFacts, FS_CardinalityType DEF TypeOK
<1>2. (token # "consumed" => issued = 0) /\ issued + Cardinality(Busy) <= Cardinality(Handlers)
  BY DEF Busy
<1>3. Cardinality(Busy') <= Cardinality(Handlers) /\ Cardinality(Busy') \in Nat
  <2>1. Busy' \subseteq Handlers /\ IsFiniteSet(Handlers)
    BY DEF Busy
  <2>2. QED BY <2>1, FS_Subset, FS_CardinalityType
<1>4. SUFFICES /\ token' # "consumed" => issued' = 0
               /\ issued' + Cardinality(Busy') <= Cardinality(Handlers)
  BY DEF Busy
<1>5. CASE CreateMachine
  BY <1>1, <1>2, <1>5 DEF CreateMachine, Busy
<1>6. ASSUME NEW h \in Handlers, NEW r \in inbox, FindToken(h, r)
      PROVE  /\ token' # "consumed" => issued' = 0
             /\ issued' + Cardinality(Busy') <= Cardinality(Handlers)
  <2>1. CASE token = "live"
    BY <1>1, <1>2, <1>3, <1>6, <2>1 DEF FindToken
  <2>2. CASE token # "live"
    BY <1>1, <1>2, <1>6, <2>2 DEF FindToken, Busy
  <2>3. QED BY <2>1, <2>2
<1>7. ASSUME NEW h \in Handlers, Consume(h) \/ EnrollFails(h)
      PROVE  /\ token' # "consumed" => issued' = 0
             /\ issued' + Cardinality(Busy') <= Cardinality(Handlers)
  <2>1. h \in Busy /\ Busy' = Busy \ {h}
    BY <1>7 DEF Consume, EnrollFails, Busy, TypeOK
  <2>2. Cardinality(Busy') = Cardinality(Busy) - 1
    BY <2>1, BusyFacts
  <2>3. QED BY <1>1, <1>2, <1>7, <2>2 DEF Consume, Used, EnrollFails
<1>8. CASE \/ LoseMessage
           \/ \E a \in Agents : ClientStep(a)
  <2>1. UNCHANGED <<token, issued, serving>>
    BY <1>8 DEF LoseMessage, ClientStep, Start, Answered, BeginSave, EndSave, Restart
  <2>2. QED BY <1>2, <2>1 DEF Busy
<1>9. ASSUME NEW a \in Agents, GiveUp(a) \/ Crash(a)
      PROVE  /\ token' # "consumed" => issued' = 0
             /\ issued' + Cardinality(Busy') <= Cardinality(Handlers)
  <2>1. HangUp(a) /\ UNCHANGED <<token, issued>>
    BY <1>9 DEF GiveUp, Crash
  <2>2. Busy' = Busy
    BY <2>1, HangUpTypes DEF Busy
  <2>3. QED BY <1>2, <2>1, <2>2
<1>10. CASE UNCHANGED vars
  BY <1>2, <1>10 DEF vars, Busy
<1>11. QED BY <1>5, <1>6, <1>7, <1>8, <1>9, <1>10 DEF Next, ApiStep

\* No more JWTs are issued for one token than the API serves requests at once,
\* and only to requests that had found the token unconsumed (agents.py:22-36).
THEOREM RaceBounded == Spec => []OnlyRacingEnrolments
<1>1. Init => OnlyRacingEnrolments
  <2> SUFFICES ASSUME Init PROVE OnlyRacingEnrolments
    OBVIOUS
  <2>1. Busy = {}
    BY DEF Init, Busy
  <2>2. Cardinality(Busy) = 0 /\ Cardinality(Handlers) \in Nat
    BY <2>1, FS_EmptySet, FS_CardinalityType
  <2>3. issued = 0
    BY DEF Init
  <2>4. QED BY <2>2, <2>3 DEF OnlyRacingEnrolments, Busy
<1>2. TypeOK /\ OnlyRacingEnrolments /\ [Next]_vars => OnlyRacingEnrolments'
  BY NextRacing
<1>3. QED BY <1>1, <1>2, TypeCorrect, PTL DEF Spec

-----------------------------------------------------------------------------
(* Enrolled clients.                                                       *)

\* A client with a saved JWT is running with it or about to load it.
SavedInv == \A a \in Agents : file[a] = "saved" => at[a] \in {"start", "enrolled"}

\* Every step keeps a saved JWT and its client away from a new enrolment.
LEMMA NextSaved ==
  ASSUME TypeOK, SavedInv, [Next]_vars, NEW a \in Agents
  PROVE  /\ file'[a] = "saved" => at'[a] \in {"start", "enrolled"}
         /\ file[a] = "saved" => file'[a] = "saved" /\ at'[a] # "asking"
<1> USE DEF api, net, clients, SavedInv, TypeOK
<1>1. CASE CreateMachine \/ LoseMessage \/ UNCHANGED vars
  BY <1>1 DEF CreateMachine, LoseMessage, vars
<1>2. CASE \E h \in Handlers : Consume(h) \/ EnrollFails(h) \/ \E r \in inbox : FindToken(h, r)
  BY <1>2 DEF Consume, EnrollFails, FindToken
<1>3. ASSUME NEW b \in Agents, Start(b)
      PROVE  /\ file'[a] = "saved" => at'[a] \in {"start", "enrolled"}
             /\ file[a] = "saved" => file'[a] = "saved" /\ at'[a] # "asking"
  BY <1>3 DEF Start, Post, NoState
<1>4. ASSUME NEW b \in Agents, Answered(b) \/ BeginSave(b) \/ EndSave(b) \/ Restart(b)
      PROVE  /\ file'[a] = "saved" => at'[a] \in {"start", "enrolled"}
             /\ file[a] = "saved" => file'[a] = "saved" /\ at'[a] # "asking"
  BY <1>4 DEF Answered, BeginSave, EndSave, Restart
<1>5. ASSUME NEW b \in Agents, GiveUp(b) \/ Crash(b)
      PROVE  /\ file'[a] = "saved" => at'[a] \in {"start", "enrolled"}
             /\ file[a] = "saved" => file'[a] = "saved" /\ at'[a] # "asking"
  BY <1>5 DEF GiveUp, Crash
<1>6. QED BY <1>1, <1>2, <1>3, <1>4, <1>5 DEF Next, ApiStep, ClientStep

\* No restart, crash or late answer makes an enrolled client lose its JWT or ask
\* for another one (state.rs, main.rs:57, forwarder.py:99).
THEOREM IdentityKept == Spec => EnrolledForGood
<1>1. Init => SavedInv
  BY DEF Init, SavedInv
<1>2. TypeOK /\ SavedInv /\ [Next]_vars
        => /\ SavedInv'
           /\ \A a \in Agents : file[a] = "saved" => file'[a] = "saved" /\ at'[a] # "asking"
  BY NextSaved DEF SavedInv
<1>3. QED BY <1>1, <1>2, TypeCorrect, PTL DEF Spec, EnrolledForGood

=============================================================================
