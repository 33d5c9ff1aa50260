\* Two requests about a file of two parts, under every fault.
CONSTANTS
    r1 = r1
    r2 = r2
    Reqs = {r1, r2}
    TotalParts = 2
    PartNumbers = {1, 2}
    Faults = {"calls", "ingestion", "worker"}
    MaxBacklog = 2
SPECIFICATION PipelineSpec
SYMMETRY Symmetry
INVARIANTS
    PipelineTypeOK
    StoredIsWhole
    EventIsBacked
    ReceivedPartsExist
    RecordedPartsSurvive
    NoOrphanRows
    AnnouncedIsWhole
PROPERTIES
    NoResurrection
    LifecycleSpec
\* Requests about a deleted file are refused: nothing more happens to it.
CHECK_DEADLOCK FALSE
