SPECIFICATION MCSpec
CONSTANTS
  Horizon = 3
  State <- MCState
  Local = {low, high}
  Installed <- MCInstalled
  Flow <- MCFlow
  Trial <- MCTrial
  MaxSteps = 2
  Origin = {first}
  Nobody = nobody
  Nothing = nothing
  u = u
  v = v
  w = w
  MaxBodies = 3
  FrameName = {world, u, v, w}
  World = world
  CallerName <- MCCallerName
  NoName = none
  Kind = {"weld", "ball_rpy"}
  OneWay = {"ball_rpy"}
  Vehicles <- MCVehicles
  Records <- MCRecords
  Arrangements <- MCArrangements
  Gravities = {1, 2}
  Ways = {"GZ18", "IRW", "another line", "no contact"}
  Carriers <- MCCarriers
  Interfaces <- MCInterfaces
  Profiles = "closed"
  Reference = 100
  Default = Default
  root = root
  near = near
  far = far
  leaf = leaf
  File = {root, near, far, leaf}
  Candidate = {root}
  Ledgers <- MCLedgers
  SourceTrees <- MCTrees
  Slack = 1
  MaxNodes = 12
  Nowhere = Nowhere
SYMMETRY Symmetry
CHECK_DEADLOCK FALSE
INVARIANT
  BuiltAsStated
PROPERTIES
  BuildsTheForest
  Implements
