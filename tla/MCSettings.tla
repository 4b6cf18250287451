------------------------------ MODULE MCSettings ------------------------------
(* ServerSettings for TLC: a theme, one language's prompt, the form of the   *)
(* agents, and a prompt sent together with an agent selection.               *)
EXTENDS ServerSettings
MCBodies == {{"theme"}, {"en"}, {"ru", "agent"}, {"agent", "codex", "claude"}}
=============================================================================
