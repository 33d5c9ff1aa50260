\* No faults, a file of one part: nothing is forgotten and everything gets ready.
CONSTANTS
    r1 = r1
    r2 = r2
    Reqs = {r1, r2}
    TotalParts = 1
    PartNumbers = {1}
    Faults = {}
    MaxBacklog = 2
SPECIFICATION FairPipelineSpec
INVARIANT StoredIsPending
PROPERTIES
    StoredBecomesReady
    ReadyIsAnnounced
\* Requests about a deleted file are refused: nothing more happens to it.
CHECK_DEADLOCK FALSE
