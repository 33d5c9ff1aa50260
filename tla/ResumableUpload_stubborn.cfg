\* A file of two parts, three requests at once, three failures of any kind.
CONSTANTS
    Reqs = {"r1", "r2", "r3"}
    TotalParts = 2
    PartNumbers = {1, 2}
    Faults = {"calls", "ingestion"}
    MaxBacklog = 3
    Stubborn = TRUE
    MaxFailures = 3
SPECIFICATION FairUploadSpec
INVARIANT UploadTypeOK
PROPERTY StubbornUploadFinishes
\* The client is told that its upload is complete.
CHECK_DEADLOCK FALSE
