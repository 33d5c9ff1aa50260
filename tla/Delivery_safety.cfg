\* Two participants, two downloads at once, a file of two blocks.
CONSTANTS
    ann = ann
    bob = bob
    d1 = d1
    d2 = d2
    Participants = {ann, bob}
    Downloads = {d1, d2}
    FileSize = 2
    Numbers <- MCNumbers
    ResumeOnly = TRUE
SPECIFICATION Spec
SYMMETRY Symmetry
INVARIANTS
    TypeOK
    DeliveredWasSent
    DeliveriesAreGrounded
    RangesAreExact
PROPERTY OnlyOwnDeliveryHides
