CONSTANTS
    N = 5
    Inputs <- SomeFindings
    NoValue = NoValue
    MaxPairs = 8
    MaxMembers = 4
    Reports <- SomeReports
    Scanners <- SomeScanners
    FamilyByCwe <- SomeFamilies
    FamilyByCategory <- SomeCategories
    MaxLine = 9
    MaxFindings = 5
    Origins <- SomeOrigins
    Null = Null
    Baseline = {"old"}
    Suppressions = {"listed"}
    Controls <- SomeControls
    NoDocuments = NoDocuments
SPECIFICATION DocumentSpec
VIEW DocumentView
INVARIANTS GroupsArePartition CollisionsStayApart GroupsAreEvidenced DecisionsAreKept SeparationIsExplained FailureIsExplained JoiningNeverHides
PROPERTIES Ends
CHECK_DEADLOCK FALSE
