------------------------------- MODULE MCUiFeed -------------------------------
(* UiFeed for TLC: the sessions are alike, so their permutations are symmetries. *)
EXTENDS UiFeed, TLC

Symmetry == Permutations(Selectable)
=============================================================================
