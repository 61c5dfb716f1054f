---------------------------- MODULE MCAcdRouter ----------------------------
(* AcdRouter for TLC: the constants' values are in the .cfg files.           *)
EXTENDS AcdRouter, TLC

\* Agents, callers and entry ids have no order.
Symmetry == Permutations(Agents) \cup Permutations(Callers) \cup Permutations(Entries)
=============================================================================
