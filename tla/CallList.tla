------------------------------ MODULE CallList ------------------------------
(***************************************************************************)
(* What predictive dialing promises to the people on a campaign's list and *)
(* to the agents: a contact is in one room at a time and a room has one    *)
(* contact; only a contact whom a room has in hand is called; and          *)
(* who has been called, or left the list, is not taken up again.  Queue    *)
(* rows, claims, sweeps, turns and webhooks are not said here.             *)
(***************************************************************************)
EXTENDS Naturals

CONSTANTS
  Contacts,
  Rooms

VARIABLES
  stage,    \* by contact
  hands     \* by contact: the rooms that attend to it

vars == <<stage, hands>>

\* Who is not on the list at first counts as done.
Init ==
  /\ stage \in [Contacts -> {"waiting", "done"}]
  /\ hands = [c \in Contacts |-> {}]

\* A free room takes a contact whom nobody has.
Take(c, r) ==
  /\ stage[c] = "waiting"
  /\ \A d \in Contacts : r \notin hands[d]
  /\ stage' = [stage EXCEPT ![c] = "held"]
  /\ hands' = [hands EXCEPT ![c] = {r}]

Call(c) ==
  /\ stage[c] = "held"
  /\ stage' = [stage EXCEPT ![c] = "called"]
  /\ UNCHANGED hands

\* A contact is put back without a call, or crossed off.
Drop(c, s) ==
  /\ stage[c] = "held" /\ s \in {"waiting", "done"}
  /\ stage' = [stage EXCEPT ![c] = s]
  /\ hands' = [hands EXCEPT ![c] = {}]

\* Contacts leave the list, who were waiting or have been called; a call may go
\* on to a recording after its room has turned to the next contact.
Leave(S, T) ==
  /\ \A c \in S : stage[c] \in {"waiting", "called"}
  /\ \A c \in T : stage[c] = "called"
  /\ stage' = [c \in Contacts |-> IF c \in S THEN "done" ELSE stage[c]]
  /\ hands' = [c \in Contacts |-> IF c \in S \cup T THEN {} ELSE hands[c]]

Next ==
  \/ \E S, T \in SUBSET Contacts : Leave(S, T)
  \/ \E c \in Contacts, r \in Rooms : Take(c, r)
  \/ \E c \in Contacts : Call(c) \/ \E s \in {"waiting", "done"} : Drop(c, s)

Spec == Init /\ [][Next]_vars
=============================================================================
