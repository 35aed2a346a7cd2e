SPECIFICATION Spec
CONSTANTS
  Run = {"a", "b"}
  NoRun = NoRun
  None = None
  MaxSequence = 1
  LayoutsOf <- MCLayoutsOf
  TimeOf <- MCTimeOf
  Window = 1
INVARIANTS
  FedSceneIsCurrent
  StatesAreDescribed
PROPERTIES
  LeftForGood
  WatermarkHolds
