----------------------------- MODULE Reception -----------------------------
(***************************************************************************)
(* What the routing of inbound calls promises to the two sides it brings   *)
(* together: an agent and a caller each have one open offer at the most, a *)
(* caller whose offers came to nothing MaxOffers times gets no further     *)
(* one, an offer ends once, one that was accepted is not timed out, and an *)
(* agent is free again exactly when the offer ends.  Tables, statuses,     *)
(* sweeps and webhooks are not said here.                                  *)
(***************************************************************************)
EXTENDS Naturals, FiniteSets

CONSTANTS
  Agents, Callers,
  Offers,        \* ids of offers
  NoAgent, NoCaller, NoOffer,
  MaxOffers

VARIABLES
  offer,     \* by id: its stage, its agent and its caller
  serving    \* by agent: the offer the agent is taken by

vars == <<offer, serving>>

Init ==
  /\ offer = [o \in Offers |-> [stage |-> "unused", agent |-> NoAgent, caller |-> NoCaller]]
  /\ serving = [a \in Agents |-> NoOffer]

Open(o) == offer[o].stage \in {"offered", "accepted"}

\* The offers to the caller that nobody accepted.
Missed(c) == {o \in Offers : offer[o].caller = c /\ offer[o].stage = "timed_out"}

Ring(a, c, o) ==
  /\ serving[a] = NoOffer /\ offer[o].stage = "unused"
  /\ \A p \in Offers : Open(p) => offer[p].caller # c
  /\ Cardinality(Missed(c)) < MaxOffers
  /\ offer' = [offer EXCEPT ![o] = [stage |-> "offered", agent |-> a, caller |-> c]]
  /\ serving' = [serving EXCEPT ![a] = o]

Accept(o) ==
  /\ offer[o].stage = "offered"
  /\ offer' = [offer EXCEPT ![o].stage = "accepted"]
  /\ UNCHANGED serving

\* Offers end, several at a time when they have timed out.
End(O, stage) ==
  /\ offer' = [o \in Offers |-> IF o \in O THEN [offer[o] EXCEPT !.stage = stage] ELSE offer[o]]
  /\ serving' = [a \in Agents |-> IF serving[a] \in O THEN NoOffer ELSE serving[a]]

TimeOut(O) == (\A o \in O : offer[o].stage = "offered") /\ End(O, "timed_out")

Complete(o) == Open(o) /\ End({o}, "completed")

Next ==
  \/ \E a \in Agents, c \in Callers, o \in Offers : Ring(a, c, o)
  \/ \E o \in Offers : Accept(o) \/ Complete(o)
  \/ \E O \in SUBSET Offers : TimeOut(O)

Spec == Init /\ [][Next]_vars
=============================================================================
