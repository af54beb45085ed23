CONSTANTS
    Procs = {p1}
    Ids = {a, b}
    Versions = {v1, v2}
    NoRecord = NoRecord
    MaxRecords = 2
    Serialised = TRUE
    Faults <- AllFaults
SPECIFICATION Spec
INVARIANTS RegisteredContentSurvives LaunchIsVerified DamageIsConfined
PROPERTIES ImplementsRegistry
VIEW SerialView
SYMMETRY SlotSymmetry
