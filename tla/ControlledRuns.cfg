SPECIFICATION MCSpec
CONSTANTS
  Horizon = 6
  Period = 3
  MaxOrdinal = 2
  OtherPeriod = 2
  TerminalOrdinal = 3
  MostWork = 2
  CommunicationOrdinals = 3
  Decimation = 2
  State <- MCState
  Local <- MCLocal
  Installed <- MCInstalled
  Flow <- MCFlow
  Memory <- MCMemory
  InitialMemory = 0
  Control <- MCControl
  Wrong = wrong
  Unprimed = unprimed
  Samples = 4
  Wheels = 2
  Carriers = {1, 2}
  Bodies = {3}
  PassiveRuns <- MCRuns
  Seeds <- MCSeeds
  Place <- MCPlace
  Project <- MCProject
  LineStart = 2
  LineEnd = 8
  Lost = lost
  NoUse = none
  Axles = 2
  Unit = 16
  Radius = 2
  TorqueLimit = 60
  PiFilter = 1
  Strides = {4, 7}
  TableAxles = 3
  Slots = 2
  TableSamples = 2
  Drawn = {1, 3}
  Rates <- MCRates
  Nodes <- MCNodes
  Rows <- MCRows
  Forward <- MCForward
  CruisePeriod = 2
  Deadband = 1
  Threshold = 1
  TargetSpeed = 3
  Gain = 2
  IntegralLimit = 1
  OutputLimit = 7
  Filtered = TRUE
CHECK_DEADLOCK FALSE
INVARIANTS
  TorquesObeyTheirLaws
  OutputsTellTheRun
  ObservationsJoinStates
  StatedWorkIsTheWorkDone
PROPERTIES
  ImplementsLoop
  ControlDrivesTheLoop
  ExperimentEnds
