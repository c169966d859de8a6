--------------------------- MODULE SampleDelivery ---------------------------
(***************************************************************************)
(* What the agent promises about its samples, without files, requests or   *)
(* retries.  The agent is responsible for a set of samples; it may drop    *)
(* one only when the server has it, when the newest one is struck by a     *)
(* failure, when the oldest one makes room for more than Capacity, or with *)
(* all the others when it could not read them as it measured a new one.    *)
(***************************************************************************)
EXTENDS Naturals, FiniteSets

CONSTANT Capacity    \* samples the agent answers for

VARIABLES
  produced,    \* samples 1..produced have been measured
  kept,        \* samples the agent still answers for
  delivered,   \* samples the server has
  unread       \* the last sample at which the queue could not be read

svars == <<produced, kept, delivered, unread>>

SInit == produced = 0 /\ kept = {} /\ delivered = {} /\ unread = 0

Produce ==
  /\ produced' = produced + 1
  /\ kept' = kept \cup {produced + 1}
  /\ UNCHANGED <<delivered, unread>>

\* The queue cannot be read: its samples are gone, or they are where they were.
ProduceUnread ==
  /\ produced' = produced + 1
  /\ unread' = produced + 1
  /\ kept' \in {kept \cup {produced + 1}, {produced + 1}}
  /\ UNCHANGED delivered

\* The server may store anything ever measured, also what the agent gave up on
\* in the meantime (a request that was only late).
Deliver ==
  /\ \E S \in SUBSET (1..produced) : delivered' = delivered \cup S
  /\ UNCHANGED <<produced, kept, unread>>

\* Delivered samples are let go; a full agent also lets the oldest go, and one that could
\* not read its queue all that is older than the newest, until it measures the next.
Release ==
  /\ kept' \subseteq kept
  /\ \A i \in kept \ kept' : \/ i \in delivered
                             \/ /\ Cardinality(kept) > Capacity
                                /\ \A j \in kept : i <= j
                             \/ unread = produced /\ i < produced
  /\ UNCHANGED <<produced, delivered, unread>>

\* A crash or a failed write takes the newest sample only.
LoseNewest ==
  /\ kept' = kept \ {produced}
  /\ UNCHANGED <<produced, delivered, unread>>

SNext == Produce \/ ProduceUnread \/ Deliver \/ Release \/ LoseNewest

SSpec == SInit /\ [][SNext]_svars
=============================================================================
