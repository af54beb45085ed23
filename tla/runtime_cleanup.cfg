SPECIFICATION Spec
CONSTANTS
    Runners = {"dast", "api", "fuzzing"}
    MaxProbes = 1
INVARIANT CleanupFailureIsToolFailure
CHECK_DEADLOCK FALSE
