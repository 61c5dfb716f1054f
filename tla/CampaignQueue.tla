--------------------------- MODULE CampaignQueue ---------------------------
(***************************************************************************)
(* The campaign_queue table of one campaign: a row per contact, and the    *)
(* statements and stored procedures that move it, as functions of the      *)
(* table.  Each is one SQL statement or one plpgsql function that locks    *)
(* the rows it writes, so the modules that use it take it as one step.     *)
(* dequeued_at is set exactly in the states "dequeued" and "failed", the   *)
(* only two whose statements write it, and is not a field of its own.      *)
(***************************************************************************)
EXTENDS Naturals

CONSTANTS
  Contacts,     \* contacts the campaign may queue, all with a phone number;
                \* numbered in the order they were first queued
  Agents,       \* users that dial
  NoAgent,      \* assigned_to_user_id IS NULL
  Households,   \* sets of contacts that share a household_id
  MaxAttempts   \* campaign_queue_policy().max_attempts

ASSUME QueueConstantsOK ==
  /\ NoAgent \notin Agents
  /\ MaxAttempts \in Nat \ {0}
  /\ Households \subseteq SUBSET Contacts
  /\ Contacts \subseteq Nat

\* claim abstracts claimed_at: not set, younger or older than stale_after.
\* tries is attempt_count, which no statement here compares beyond MaxAttempts.
Entry == [state : {"absent", "queued", "assigned", "dequeued", "failed"},
          holder : Agents \cup {NoAgent},
          claim : {"unset", "fresh", "stale"},
          tries : 0..MaxAttempts]

Fresh == [state |-> "queued", holder |-> NoAgent, claim |-> "unset", tries |-> 0]

Finished(e) == e.state \in {"dequeued", "failed"}

\* (mutant) The attempt that is running counts as used up.
Exhausted_Early(e) == e.tries + 1 >= MaxAttempts

Exhausted(e) == e.tries >= MaxAttempts

-----------------------------------------------------------------------------
(* The rows' transitions.                                                  *)

\* (mutant) Releasing a contact leaves it with its agent.
Released_Kept(e) == [e EXCEPT !.state = "queued"]

\* buildQueuedQueueUpdate: claimed_at and attempt_count are not among its columns.
Released(e) == [e EXCEPT !.state = "queued", !.holder = NoAgent]

\* buildDequeuedQueueUpdate
Dequeued(e) == [e EXCEPT !.state = "dequeued", !.holder = NoAgent]

\* (mutants) A claim without claimed_at; a claim that does not count as an attempt.
Claimed_NoStamp(e, a) ==
  [e EXCEPT !.state = "assigned", !.holder = a, !.claim = "unset",
            !.tries = IF Exhausted(e) THEN @ ELSE @ + 1]
Claimed_Free(e, a) == [e EXCEPT !.state = "assigned", !.holder = a, !.claim = "fresh"]

\* The UPDATE of claim_next_queue_contact.
Claimed(e, a) ==
  [e EXCEPT !.state = "assigned", !.holder = a, !.claim = "fresh",
            !.tries = IF Exhausted(e) THEN @ ELSE @ + 1]

-----------------------------------------------------------------------------
(* The stored procedures, over a table q : [Contacts -> Entry].            *)

\* The WHERE of claim_next_queue_contact.
Claimable(q) == {c \in Contacts : q[c].state = "queued"}

\* ORDER BY queue_order LIMIT 1, for the contact a claim takes; ahead holds the
\* pairs of contacts in queue order.
IsNext(q, ahead, c) ==
  /\ c \in Claimable(q)
  /\ \A d \in Claimable(q) : <<d, c>> \notin ahead

\* fail_exhausted_campaign_queue_contacts
FailExhausted(q) ==
  [c \in Contacts |->
     IF q[c].state \in {"queued", "assigned"} /\ Exhausted(q[c])
     THEN [q[c] EXCEPT !.state = "failed", !.holder = NoAgent, !.claim = "unset"]
     ELSE q[c]]

\* reset_stale_campaign_queue_claims
ResetStale(q) ==
  [c \in Contacts |->
     LET e == FailExhausted(q)[c]
     IN IF e.state = "assigned" /\ e.claim = "stale"
        THEN [e EXCEPT !.state = "queued", !.holder = NoAgent, !.claim = "unset"]
        ELSE e]

\* (mutant) Only queued rows count as pending.
PendingWork_Queued(q) == \E c \in Contacts : q[c].state = "queued"

\* campaign_queue_has_pending_work
PendingWork(q) ==
  \E c \in Contacts :
    \/ q[c].state = "queued"
    \/ q[c].state = "assigned" /\ q[c].claim = "fresh" /\ ~Exhausted(q[c])

\* The guard of dequeue_contact: unclaimed, or claimed by the caller.
MayDequeue(e, a) ==
  \/ e.state = "queued"
  \/ e.state = "assigned" /\ a # NoAgent /\ e.holder = a

Housemates(c) == UNION {h \in Households : c \in h}

\* (mutant) The fan-out skips the rest of the household.
DequeueContact_Alone(q, c, fanOut, a) ==
  [q EXCEPT ![c] = IF MayDequeue(@, a) THEN Dequeued(@) ELSE @]

\* dequeue_contact: the contact and, with group_on_household, its household.
DequeueContact(q, c, fanOut, a) ==
  [d \in Contacts |->
     IF d \in {c} \cup (IF fanOut THEN Housemates(c) ELSE {}) /\ MayDequeue(q[d], a)
     THEN Dequeued(q[d])
     ELSE q[d]]

\* handle_campaign_queue_entry: a live row is reused unless the caller requeues.
Reused(q, c, requeue) == q[c].state \in {"queued", "assigned"} /\ ~requeue

EnqueueEntry(q, c, requeue) ==
  IF Reused(q, c, requeue) THEN q
  ELSE IF q[c].state = "absent" THEN [q EXCEPT ![c] = Fresh]
  ELSE [q EXCEPT ![c] = Released(@)]

\* A written row goes to MAX(queue_order) + 1.
EnqueueOrder(q, ahead, c, requeue) ==
  IF Reused(q, c, requeue) THEN ahead
  ELSE (ahead \ ({c} \X Contacts)) \cup ((Contacts \ {c}) \X {c})
=============================================================================
