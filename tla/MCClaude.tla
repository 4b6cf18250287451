------------------------------- MODULE MCClaude -------------------------------
(* ClaudeTurns for TLC: two runs, so that the second creates a thread after a *)
(* first turn that failed, or resumes the thread of one that completed.      *)
EXTENDS ClaudeTurns
=============================================================================
