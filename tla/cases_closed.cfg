SPECIFICATION Spec
CONSTANTS
    Nothing = Nothing
    Case = {c1}
    Caller = {p1, p2}
    Step = {s1, s2}
    Data = {d1, d2}
    MaxOps = 6
PROPERTIES
    ClosedIsTerminal
CHECK_DEADLOCK FALSE
