SPECIFICATION MCSpec
CONSTANTS
    Workers = 2
    Columns = 3
    Positions <- MCPositions
    Interfaces = 1
    Feels <- MCFeels
    States = {s1, s2}
    Hints = {h1, h2}
    Inputs = {u1, u2}

    Carriers = 2
    Wheeled = 2
    CarrierOf <- MCCarrierOf
    State = {running, leaving}
    Hint = {near, far}
    running = running
    leaving = leaving
    near = near
    far = far
    NotFinite = NotFinite
    Lost = Lost
    MaxWorkers = 2
    Nothing = Nothing
    NoValue = NoValue

    Outlines <- MCOutlines
    RailNodes <- MCRailNodes
    Rail <- MCRail
    BinWidth <- MCBinWidth
    Bins <- MCBins
    Model = {narrow, wide}
    Pose = {upright, rolled}
    narrow = narrow
    wide = wide
    upright = upright
    rolled = rolled
    Epsilon = 0
    MergeTolerance = 1
    GridStations = 3
    MaxIslands = 2
    MaxPatches = 1
    Generations = 3
    Speeds = {0, 1}

    Circles <- MCCircles
    Stations = 3
    Limit = 8
    Screening = 1
    MaxBisections = 3
    Resolution = 2

    Contact = 1
    MaxCalls = 2
    NoName = NoName
    HalfTurn = 2
    Refused = Refused
INVARIANTS
    SameAsTheLoop
    GeometryIsOfThePose
    PairsDoTheWorkOfTheirLaws
PROPERTIES
    ImplementsForces
CHECK_DEADLOCK FALSE
