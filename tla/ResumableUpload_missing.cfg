\* Two answers that do not come, and nothing else goes wrong.
CONSTANTS
    Reqs = {"r1", "r2"}
    TotalParts = 2
    PartNumbers = {1, 2}
    Faults = {}
    MaxBacklog = 3
    Stubborn = FALSE
    MaxFailures = 2
SPECIFICATION FairUploadSpec
PROPERTY SendingTheMissingSuffices
CHECK_DEADLOCK FALSE
