SPECIFICATION Spec
CONSTANTS
    c1 = c1
    c2 = c2
    k1 = k1
    k2 = k2
    Caller = {c1, c2}
    Key = {k1, k2}
    Backend = {"sandbox_file", "github"}
    MaxLines = 5
    MaxFailures = 1
INVARIANTS
    RecordsNameEffects
    RepeatsAreOwed
PROPERTIES
    SettledOnce
    ImplementsRetried
SYMMETRY Symmetric
CHECK_DEADLOCK FALSE
