SPECIFICATION Spec
CONSTANTS
    Kinds <- MCKinds
    Commands <- MCCommands
    Timeout = 1
    MaxQueuedEvents = 1
    SocketCapacity = 2
    MaxCalls = 2
    MaxWatches = 2
    MaxPublications = 2
INVARIANTS
    BoundsHold
    NotificationsAccounted
    PaintFollowsSubscription
PROPERTIES
    ImplementsControlCall
    FailureIsFinal
    OperationsReturn
\* A tool may stop using its connection at any time.
CHECK_DEADLOCK FALSE
