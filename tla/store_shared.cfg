CONSTANTS
    Procs = {p1, p2}
    Ids = {a, b}
    Versions = {v1}
    NoRecord = NoRecord
    MaxRecords = 2
    Serialised = FALSE
    Faults <- NoLastingFault
    NormalizedJson = NormalizedJson
    ReportTxt = ReportTxt
    ArtifactNames = {NormalizedJson, ReportTxt}
    Executions <- Deviations
    NoRun = NoRun
    NoResults = NoResults
SPECIFICATION AdapterSpec
INVARIANTS OnlyRemovalLosesContent ResultsAreEarned
PROPERTIES NeverOverwritten
VIEW AdapterView
SYMMETRY Symmetry
