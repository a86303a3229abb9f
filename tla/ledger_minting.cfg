SPECIFICATION Spec
CONSTANTS
    p1 = p1
    p2 = p2
    a1 = a1
    a2 = a2
    r1 = r1
    c1 = c1
    NoCase = NoCase
    Proc = {p1, p2}
    Account = {a1}
    Principal = {r1}
    PrincipalOf <- MCPrincipalOf
    Case = {c1}
    MintAmount <- MCMintAmount
    SpendCost <- MCSpendCost
    BurnAmounts = {50}
    SeedAmounts = {}
    SimulatedMintPermitted = FALSE
    TicksPerDay = 1
    MaxClock = 1
    MaxSeq = 3
    MaxRecords = 3
CHECK_DEADLOCK FALSE
SYMMETRY Symmetric
INVARIANTS
    MintBacked
PROPERTIES
    ChallengeFreezes
