\* The worker may crash.
CONSTANTS
    r1 = r1
    r2 = r2
    Reqs = {r1, r2}
    TotalParts = 1
    PartNumbers = {1}
    Faults = {"worker"}
    MaxBacklog = 2
SPECIFICATION PipelineSpec
INVARIANT CrashRedelivers
CHECK_DEADLOCK FALSE
