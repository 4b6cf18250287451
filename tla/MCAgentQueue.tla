---------------------------- MODULE MCAgentQueue ----------------------------
(* Model values and symmetry for the agent queue.                          *)
EXTENDS AgentQueue, TLC

Symmetry == Permutations(Runs)
=============================================================================
