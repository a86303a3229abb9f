SPECIFICATION Spec
CONSTANTS
    p1 = p1
    p2 = p2
    a1 = a1
    a2 = a2
    r1 = r1
    c1 = c1
    NoCase = NoCase
    Proc = {p1, p2}
    Account = {a1, a2}
    Principal = {r1}
    PrincipalOf <- MCPrincipalOf
    Case = {c1}
    MintAmount <- MCMintAmount
    SpendCost <- MCSpendCost
    BurnAmounts = {50}
    SeedAmounts = {150}
    SimulatedMintPermitted = FALSE
    TicksPerDay = 1
    MaxClock = 2
    MaxSeq = 3
    MaxRecords = 0
CHECK_DEADLOCK FALSE
SYMMETRY Symmetric
INVARIANTS
    SeqUnique
    PunctualSpendsAreTaken
    OrderedReplayCovered
    CheckpointCostsAtMostOne
PROPERTIES
    SpendIsLocal
