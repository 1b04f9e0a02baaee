SPECIFICATION Spec
CONSTANTS
    Kinds <- MCKinds
    Commands = {}
    Timeout = 1
    MaxQueuedEvents = 1
    SocketCapacity = 2
    MaxCalls = 2
    MaxWatches = 1
    MaxPublications = 2
INVARIANT PaintFollowsArm
\* A tool may stop using its connection at any time.
CHECK_DEADLOCK FALSE
