------------------------------ MODULE Account ------------------------------
(***************************************************************************)
(* What a workspace's account promises, whatever calls, texts, callbacks,  *)
(* jobs and sweeps there are: an event is charged only after it used       *)
(* something, once at the most; a payment is credited once; and nothing    *)
(* else moves the balance.  How an event gets from one to the other is not *)
(* said here.                                                              *)
(***************************************************************************)
EXTENDS Integers

CONSTANTS
  Events,          \* billable events: legs of calls, texts
  Sessions,        \* Stripe checkout sessions
  Price,           \* by event, in credits
  TopUp,           \* credits a session buys
  OpeningCredits

VARIABLES
  used,      \* events that are over and used something
  charged,   \* events with a DEBIT in the ledger
  topups,    \* sessions with a CREDIT
  credits    \* the balance

vars == <<used, charged, topups, credits>>

Init ==
  /\ used = {}
  /\ charged = {}
  /\ topups = {}
  /\ credits = OpeningCredits

\* The two legs of a call are over at once.
Use ==
  /\ used' \in SUBSET Events /\ used \subseteq used'
  /\ UNCHANGED <<charged, topups, credits>>

Charge(k) ==
  /\ k \in used \ charged
  /\ charged' = charged \cup {k}
  /\ credits' = credits - Price[k]
  /\ UNCHANGED <<used, topups>>

Credit(s) ==
  /\ s \notin topups
  /\ topups' = topups \cup {s}
  /\ credits' = credits + TopUp
  /\ UNCHANGED <<used, charged>>

Next ==
  \/ Use
  \/ \E k \in Events : Charge(k)
  \/ \E s \in Sessions : Credit(s)

Spec == Init /\ [][Next]_vars
=============================================================================
