\* One recording, three POSTs of its end, two acknowledgements of its
\* event lost, every fault.
CONSTANTS
    Egresses = {e1}
    LastSecond = 2
    MaxPosts = 3
    MaxUnacked = 2
    Faults = {"calls", "api", "worker"}
SPECIFICATION Spec
INVARIANTS
    TypeOK
    ReadyEventIsBacked
    NoMoreNotesThanWrites
    AnnouncedNotesAreReady
\* The egress may be recorded and its notes written.
CHECK_DEADLOCK FALSE
