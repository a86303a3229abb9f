SPECIFICATION Spec
CONSTANTS
    a = a
    b = b
    c = c
    d = d
    s1 = s1
    s2 = s2
    Claim <- MCClaim
    Conclusion <- MCConclusion
    NoClaim = NoClaim
    NoLimit = NoLimit
    Day = 4
    NoLead = NoLead
    NotNumeric = NotNumeric
    Required <- MCRequired
    HighExposure = 4
    HighAlerts = 3
    HumanRadius = 3
    TwoSourceRadius = 3
    TwoSourceExposure = 2
    Source <- MCSource
    NoSource = NoSource
    Families <- AllFamilies
INVARIANTS
    RadiusIsClosure
    DepthIsDistance
    HarmIsReported
    LowMeansSettled
    CompletedIsCleared
PROPERTIES
    EveryTurnLeavesLess
CHECK_DEADLOCK FALSE
