----------------------------- MODULE MCAppServer -----------------------------
(* AppServer for TLC: its runs differ in their bounds only. *)
EXTENDS AppServer
=============================================================================
