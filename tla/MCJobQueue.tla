----------------------------- MODULE MCJobQueue -----------------------------
(* JobQueue for TLC: the constants' values are in the .cfg files.            *)
EXTENDS JobQueue, TLC

\* Rows are told apart by their columns and by older, workers by their state.
Symmetry == Permutations(Workers) \cup Permutations(JobIds) \cup Permutations(Admins)
=============================================================================
