SPECIFICATION FairSpec
CONSTANTS
    p1 = p1
    p2 = p2
    w1 = w1
    w2 = w2
    c1 = c1
    c2 = c2
    t1 = t1
    k1 = k1
    k2 = k2
    d1 = d1
    NoKey = NoKey
    Process = {p1, p2}
    Worker = {w1, w2}
    Placement <- MCPlacement
    Consumer = {c1, c2}
    Topic = {t1}
    Wiring <- MCWiring
    Event <- MCEvent
    SafeKey <- MCSafeKey
    MaxPublishes = 2
    MaxRedeliveries = 1
    MaxFaults = 1
INVARIANTS
    HandledAtMostOnce
    SilenceIsOwed
PROPERTIES
    HeardInTheEnd
CHECK_DEADLOCK FALSE
