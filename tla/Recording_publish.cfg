\* Two recordings; nothing fails.
CONSTANTS
    Egresses = {e1, e2}
    LastSecond = 2
    MaxPosts = 2
    MaxUnacked = 0
    Faults = {}
SPECIFICATION Spec
SYMMETRY Symmetry
INVARIANT CompletionIsPublished
\* Every egress may be recorded and its notes written.
CHECK_DEADLOCK FALSE
