------------------------ MODULE MCPredictiveDialer ------------------------
(* PredictiveDialer for TLC: the constants' values are in the .cfg files.    *)
EXTENDS PredictiveDialer, TLC

\* Legs, agents and the uuids of rooms have no order, contacts do.
Symmetry == Permutations(Legs) \cup Permutations(Agents) \cup Permutations(Uuids)
=============================================================================
