------------------------------ MODULE MCContext ------------------------------
(* AgentContext for TLC: two utterances fill the cap, three exceed it.       *)
EXTENDS AgentContext
MCActions == {[strategy |-> "since_previous_turn", value |-> 1, cap |-> 3],
              [strategy |-> "last_minutes", value |-> 1, cap |-> 3]}
MCFreePrompt == [strategy |-> "last_utterances", value |-> 1, cap |-> 3]
=============================================================================
