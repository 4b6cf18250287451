CONSTANTS
    Controllers = {c1, c2}
    Pids = {i1, i2}
    None = none
    Commands = {"status", "start", "force", "restart_force"}
    MaxProcesses = 2
    MaxCommands = 2
    MaxFaults = 1
    MaxPolls = 1
SPECIFICATION Spec
INVARIANTS OneServer  StoppedIsDead
SYMMETRY Symmetry
CHECK_DEADLOCK FALSE
