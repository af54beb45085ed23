SPECIFICATION Spec
CONSTANTS
    Adapters = {codex, claude}
    Procs = {p1, p2}
    MaxEvents = 1
SYMMETRY Symmetry
VIEW SoloView
INVARIANTS
    CommandsAreAtomic
PROPERTY LossIsExplained
CHECK_DEADLOCK FALSE
