--------------------------- MODULE SettingsRegister ---------------------------
(***************************************************************************)
(* What settings/json_store.py promises of a settings file with a backup:  *)
(* a register.  A change takes effect at once or, if the program dies, not *)
(* at all; damage to one of the two files may undo the latest change and   *)
(* no more.                                                                *)
(***************************************************************************)
CONSTANT Defaults   \* the value of a file that was never saved

VARIABLES
    value,      \* what the program would load
    previous    \* what it would have loaded before the latest change

Init == value = Defaults /\ previous = Defaults

Change == previous' = value
Damage == value' = previous /\ previous' = previous

Spec == Init /\ [][Change \/ Damage]_<<value, previous>>
=============================================================================
