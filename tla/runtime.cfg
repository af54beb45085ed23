SPECIFICATION FairSpec
CONSTANTS
    Runners <- EveryRunner
    MaxProbes = 2
    MaxFindings = 2
    MaxCandidates = 2
    Families <- SomeFamilies
    ZapReports <- SomeZapReports
    EngineReports <- SomeEngineReports
    Schema <- SomeSchema
    OtherSchemas <- SomeOtherSchemas
    MaxOperations = 2
    NameOrder <- SomeNames
    NoId = "none"
    Policies <- SomePolicies
INVARIANTS
    OnlyToolFailuresLeaveThings
    RanIsEvidenced
    ExitIsPublished
    ComparisonIsHonest
    FlagsAreEarned
    EvidenceReachesVerdict
PROPERTY Ends
CHECK_DEADLOCK FALSE
