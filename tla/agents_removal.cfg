SPECIFICATION Spec
CONSTANTS
    Adapters = {codex, claude}
    Procs = {p1}
    MaxEvents = 1
SYMMETRY Symmetry
PROPERTY RemovalRefusesModified
CHECK_DEADLOCK FALSE
