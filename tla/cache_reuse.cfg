SPECIFICATION Spec
CONSTANTS
    Procs = {p1}
    Tools <- SomeTools
    Metadata <- SomeMetadata
    Verifier = "cosign"
    Artifacts <- SomeArtifacts
    NoEntry = NoEntry
    MaxFaults = 0
PROPERTY RuntimeIsReused
