SPECIFICATION Spec
CONSTANTS
    Publishers = {p1, p2}
    Readers = {r1, r2}
    Capacity = 2
    MaxSequence = 4
INVARIANTS
    RingIsNewest
    EveryRecordAccountedOnce
    LossesAreEvicted
PROPERTIES
    ImplementsAccounted
    CatchesUp
\* Publishing may stop for good with every reader parked.
CHECK_DEADLOCK FALSE
