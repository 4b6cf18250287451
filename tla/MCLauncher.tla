------------------------------ MODULE MCLauncher ------------------------------
(* LauncherWindow for TLC: the constants are given values in the configurations. *)
EXTENDS LauncherWindow
=============================================================================
