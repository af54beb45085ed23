SPECIFICATION Spec
CONSTANTS
    Procs = {p1, p2}
    Tools <- SomeTools
    Metadata <- SomeMetadata
    Verifier = "cosign"
    Artifacts <- SomeArtifacts
    NoEntry = NoEntry
    MaxFaults = 2
VIEW CacheView
SYMMETRY Symmetry
INVARIANTS
    PublishedIsGenuine
    RunsWhatItValidated
    FailureLeavesNoStaging
PROPERTY PublishedStays
