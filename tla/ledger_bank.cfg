SPECIFICATION Spec
CONSTANTS
    p1 = p1
    p2 = p2
    a1 = a1
    a2 = a2
    r1 = r1
    c1 = c1
    NoCase = NoCase
    Proc = {p1}
    Account = {a1}
    Principal = {r1}
    PrincipalOf <- MCPrincipalOf
    Case = {c1}
    MintAmount <- MCBankMintAmount
    SpendCost <- MCSpendCost
    BurnAmounts = {50}
    SeedAmounts = {}
    SimulatedMintPermitted = FALSE
    TicksPerDay = 2
    MaxClock = 2
    MaxSeq = 4
    MaxRecords = 0
CHECK_DEADLOCK FALSE
PROPERTIES
    ImplementsBank
