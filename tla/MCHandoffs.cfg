SPECIFICATION Spec
CONSTANTS
    Setters = {s1}
    Painters = {p1}
    Readers = {r1, r2}
    MaxOffers = 3
    Fillers = {f1, f2}
    Senders = {t1}
    Abandoners = {a1}
    Receivers = {c1, c2}
INVARIANTS
    NeverOlderThanSeen
    AcceptedIsDeliveredOnce
PROPERTIES
    CatchesUp
    DecidedIsObserved
\* Every call may have returned, and a quiescent slot is a legal end.
CHECK_DEADLOCK FALSE
