SPECIFICATION Spec
CONSTANTS
    Releases <- MCReleases
    Legacy <- MCLegacy
    Version <- MCVersion
    Source <- MCSource
    Common <- MCCommon
    Support <- MCSupport
    Stable <- MCStable
    Place <- MCPlace
    MaxMishaps = 1
INVARIANTS
    ValidIsIntact
    ValidCanGrow
    ReviewIsHonest
    InterruptionIsNoticed
PROPERTIES
    InitKeepsValid
CHECK_DEADLOCK FALSE
