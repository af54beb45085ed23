SPECIFICATION Spec
CONSTANTS
    StandardTools <- Standard3
    MinimalTools <- Minimal2
    MaxScans = 2
INVARIANTS
    VerdictIsEarned
    OneScanPerDirectory
    SuccessIsComplete
    ReportAgreesWithResult
CHECK_DEADLOCK FALSE
