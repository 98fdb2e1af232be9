--------------------------- MODULE MCTracePipeline ---------------------------
(* Instances of TracePipeline for TLC. *)
EXTENDS TracePipeline, TLC

CONSTANTS m1, m2, g1, a1

MCTwoMutators == {m1, m2}
MCOneMutator == {m1}
MCGCThreads == {g1}
MCAgents == {a1}
None == {}
=============================================================================
