----------------------------- MODULE WorkQueue -----------------------------
(***************************************************************************)
(* What the job table promises to whoever enqueues: a row is worked on by  *)
(* one process at a time, is taken from no process that is alive, is       *)
(* started at most MaxStarts times before somebody offers it again, is     *)
(* given up after MaxStarts starts and not before, and is not touched once *)
(* it is done.  Leases, counters and sweeps are not said here, nor who     *)
(* finds out that a process is gone.                                       *)
(***************************************************************************)
EXTENDS Naturals

CONSTANTS
  Jobs,        \* ids of rows
  Workers,
  MaxStarts

VARIABLES
  state,    \* by job
  hands,    \* by job: the processes that work on it
  starts    \* by job: how often it was started since it was offered

vars == <<state, hands, starts>>

Init ==
  /\ state = [j \in Jobs |-> "absent"]
  /\ hands = [j \in Jobs |-> {}]
  /\ starts = [j \in Jobs |-> 0]

Becomes(S, s) == state' = [j \in Jobs |-> IF j \in S THEN s ELSE state[j]]
StartsAnew(S) == starts' = [j \in Jobs |-> IF j \in S THEN 0 ELSE starts[j]]

Submit(j) ==
  /\ state[j] = "absent"
  /\ Becomes({j}, "queued") /\ StartsAnew({j})
  /\ UNCHANGED hands

\* A free process and a waiting row that nobody works on.
Take(j, w) ==
  /\ state[j] = "queued" /\ hands[j] = {}
  /\ starts[j] < MaxStarts
  /\ \A i \in Jobs : w \notin hands[i]
  /\ Becomes({j}, "running")
  /\ hands' = [hands EXCEPT ![j] = {w}]
  /\ starts' = [starts EXCEPT ![j] = @ + 1]

Finish(j, w) ==
  /\ state[j] = "running" /\ hands[j] = {w}
  /\ Becomes({j}, "completed")
  /\ hands' = [hands EXCEPT ![j] = {}]
  /\ UNCHANGED starts

Fail(j, w) ==
  /\ state[j] = "running" /\ hands[j] = {w}
  /\ Becomes({j}, IF starts[j] < MaxStarts THEN "queued" ELSE "dead_letter")
  /\ hands' = [hands EXCEPT ![j] = {}]
  /\ UNCHANGED starts

\* The process is gone; the row does not show it yet.
Lose(j, w) ==
  /\ hands[j] = {w}
  /\ hands' = [hands EXCEPT ![j] = {}]
  /\ UNCHANGED <<state, starts>>

\* Some of the rows that were lost, and no other, wait again.
Recover(S) ==
  /\ \A j \in S : state[j] = "running" /\ hands[j] = {}
  /\ Becomes(S, "queued")
  /\ UNCHANGED <<hands, starts>>

GiveUp(S) ==
  /\ \A j \in S : state[j] = "queued" /\ starts[j] = MaxStarts
  /\ Becomes(S, "dead_letter")
  /\ UNCHANGED <<hands, starts>>

Revive(S) ==
  /\ \A j \in S : state[j] = "dead_letter"
  /\ Becomes(S, "queued") /\ StartsAnew(S)
  /\ UNCHANGED hands

Purge(j) ==
  /\ state[j] \in {"completed", "dead_letter"} /\ hands[j] = {}
  /\ Becomes({j}, "absent") /\ StartsAnew({j})
  /\ UNCHANGED hands

Next ==
  \/ \E j \in Jobs : Submit(j) \/ Purge(j)
  \/ \E j \in Jobs, w \in Workers : Take(j, w) \/ Finish(j, w) \/ Fail(j, w) \/ Lose(j, w)
  \/ \E S \in SUBSET Jobs : Recover(S) \/ GiveUp(S) \/ Revive(S)

Spec == Init /\ [][Next]_vars
=============================================================================
