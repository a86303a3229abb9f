SPECIFICATION FairSpec
CONSTANTS
    r1 = r1
    r2 = r2
    Runner = {r1}
    Steps <- MCSteps
    Mutating = {"remediation.execute"}
    Bundles <- EveryKind
    Backend = {"github"}
    MaxSetbacks = 1
    MaxRequests = 5
    MaxLines = 8
    MaxFailures = 1
INVARIANTS
    FinalStatusIsGrounded
PROPERTIES
    CheckpointedMissionEnds
CHECK_DEADLOCK FALSE
