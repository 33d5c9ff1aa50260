\* A client numbers its two parts 1 and 3; nothing fails.
CONSTANTS
    r1 = r1
    r2 = r2
    Reqs = {r1, r2}
    TotalParts = 2
    PartNumbers = {1, 2, 3}
    Faults = {}
    MaxBacklog = 2
SPECIFICATION Spec
INVARIANT EveryExpectedPartVerified
CHECK_DEADLOCK FALSE
