SPECIFICATION MCSpec
CONSTANTS
  Horizon = 36
  Nominal = 16
  Floor = 4
  Rounding = 1
  RadauHorizon = 5
  Snap = 1
  Trials = 5
  Singulars = 3
  Columns = 2
  Perturbations = 1
  Iterations = 3
  CvodeHorizon = 4
  Parallel = TRUE
  CoreHorizon = 34
  Lengths = {8, 16}
  CoreRounding = 1
  Norms = {1, 2}
  Inputs = {1, 2}
  CoreIterations = 1
INVARIANTS
  CoreTakesTheAttempt
  SolvesTheRightSystem
  ThrownIsTheCause
  CoreHoldsItsPoint
  TwoStepsAreOneHistory
PROPERTIES
  ImplementsStepper
  LibrariesAreSteppers
  CallsEnd
