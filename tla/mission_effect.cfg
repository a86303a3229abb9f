SPECIFICATION Spec
CONSTANTS
    r1 = r1
    r2 = r2
    Runner = {r1, r2}
    Steps <- MCShortSteps
    Mutating = {"remediation.prepare"}
    Bundles <- Escalations
    Backend = {"github"}
    MaxSetbacks = 0
    MaxRequests = 3
    MaxLines = 8
    MaxFailures = 0
INVARIANTS
    EffectsAreAuthorized
    CreditIsEarned
    ExecutedIsVerified
    CreditIsPaidFor
    WaitingCanBeDecided
SYMMETRY Symmetric
CHECK_DEADLOCK FALSE
