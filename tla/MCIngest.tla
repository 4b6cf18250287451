------------------------------ MODULE MCIngest ------------------------------
(* Model values and symmetry for the delivery of events.                   *)
EXTENDS IngestTransport, TLC

Symmetry == Permutations(Sessions)
=============================================================================
