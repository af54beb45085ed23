SPECIFICATION Spec
CONSTANTS
    workflow = workflow
    policy = policy
    twin = twin
    github = github
    githubTwin = githubTwin
    workflows = workflows
    i1 = i1
    i2 = i2
    i3 = i3
    i4 = i4
    Paths <- MCPaths
    Dirs <- MCDirs
    Parents <- MCParents
    Key <- MCKey
    Plan <- MCPlan
    Inodes = {i1, i2, i3, i4}
    Procs = {p1, p2}
    MaxEdits = 1
SYMMETRY Symmetry
INVARIANTS
    SuccessIsComplete
    FailureLeavesNothing
PROPERTY LossIsExplained
CHECK_DEADLOCK FALSE
