\* Two recordings over two seconds; nothing fails.
CONSTANTS
    Egresses = {e1, e2}
    LastSecond = 2
    MaxPosts = 1
    MaxUnacked = 0
    Faults = {}
SPECIFICATION FairSpec
INVARIANTS
    RowsAgreeWithLiveKit
    NotesAreOfTheirRecording
    StopMeansStopped
PROPERTY CompletedGetsNotes
\* Every egress may be recorded and its notes written.
CHECK_DEADLOCK FALSE
