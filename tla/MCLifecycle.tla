----------------------------- MODULE MCLifecycle -----------------------------
(* Model values and symmetry for the life of the server process.           *)
EXTENDS ServerLifecycle, TLC

Symmetry == Permutations(Controllers) \cup Permutations(Pids)
=============================================================================
