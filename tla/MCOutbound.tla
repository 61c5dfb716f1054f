----------------------------- MODULE MCOutbound -----------------------------
(* Outbound for TLC: the constants' values are in the .cfg files.            *)
EXTENDS Outbound, TLC

\* Bound: numbers are rented, and swept, while there is no campaign.
OneConcern == type = "none" \/ UNCHANGED rentalVars

\* Bound: where calls race, their side-effect jobs wait.
JobsWait == \A u \in Usages, n \in News : job'[u][n] \in {"none", "queued"}

\* FollowedTexts is empty or FollowedCalls.  Usages, tabs, agents, jobs and numbers have
\* no order, contacts are numbered.
Symmetry == Permutations(FollowedCalls) \cup Permutations(Usages \ FollowedCalls) \cup
              Permutations(Tabs) \cup Permutations(Agents) \cup Permutations(Dispatchers) \cup
              Permutations(Numbers) \cup Permutations(Sweeps)
=============================================================================
