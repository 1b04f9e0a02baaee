SPECIFICATION Spec
CONSTANTS
    DeclaredChecks <- CheckShapes
    Commands <- AllCommands
    Seeds <- SuiteSeeds
    NoSeed = "none"
    MaxFaults = 2
    Tasks = {"inventory", "kept", "query", "scrolled", "never"}
    Surfaces = 2
    Depth = 2
    Pages = {2, 3}
    RowsToMount = 3
    MaxPasses = 3
    MaxScrolls = 6
    MaxPagers = 3
    MaxClicks = 2
    Covered <- CoverSurfaces
    MaxInner = 1
    Start <- StartPages
    Subjects = {"a", "b", "c"}
    Viewport = 1
    MaxLength = 4
    MaxDrifts = 1
    WaitBudget = 4
    Streak = 3
    StillCaptures = 4
    MaxAnswer = 1
    MaxCapture = 2
    MaxMoves = 3
    Asked <- GpuAsked
    States <- GpuStates
    Lowest <- GpuLowest
    Largest <- GpuLargest
    Grain = 2
    Timeout = 4
    MinBudget = 1
    Poll = 1
    Slow = 1
    Manifests <- LoadManifests
    Groups = {"*", "h", "b1", "none"}
    ValueSets <- LoadSupplied
    Credentials <- LoadCredentials
    DefaultTimeout = 900
    SpanLimit = 4096
    RunPlans <- PlanRunPlans
    Environments <- PlanEnvironments
    MaxLosses = 1
    Sweeps <- HostSweeps
    Pids = {1, 2}
    Tries = 2
    Leftover = {1, 2}
    Scripts <- HostScripts
    MaxRestarts = 1
INVARIANT SessionChecksRunSignedIn
\* Each part ends: with a verdict, a total, a report or a refusal.
CHECK_DEADLOCK FALSE
