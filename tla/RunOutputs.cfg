SPECIFICATION MCSpec
CONSTANTS
    q1 = q1
    q2 = q2
    x = x
    s = s
    Runs = {q1, q2, x, s}
    Program <- MCProgram
    Files = 2
    Calls = 4
    Destinations = 2
    MaxParts = 2
    Messages = 2
    Millisecond = 2
    Budget = 3
    Late = 3
    a = a
    b = b
    c = c
    one = one
    two = two
    Run = {a, b, c}
    NoRun = NoRun
    MaxSequence = 2
    NoMessage = NoMessage
    Invalid = invalid
    MaxPartials = 2
    MaxRuns = 2
    MaxPending = 2
    MaxStates = 2
    Missing = Missing
    MaxShown = 3
    MaxTime = 3
    MaxNow = 2
    Delay = 1
    MaxSamples = 3
    NoState = NoState
CHECK_DEADLOCK FALSE
INVARIANTS
    ReadableIsWhole
    EveryDatagramIsAccountedInTime
    MemoryIsBounded
    StatesFitDescriptions
    LatestReadyRunIsActive
    ReportAddsUp
PROPERTIES
    OnlyItsMakerChangesIt
    Publishes
    PublishReturns
    ImplementsFeed
    StreamFollowsItsWatermarks
