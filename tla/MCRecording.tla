---------------------------- MODULE MCRecording ----------------------------
(* Model values and symmetry for the recording core.                       *)
EXTENDS Recording, TLC

Symmetry == Permutations(Sessions) \cup Permutations(Sources)
            \cup Permutations(Tabs \ {None}) \cup Permutations(EventIds)
=============================================================================
