SPECIFICATION Spec
CONSTANTS
  Run = {"a", "b"}
  NoRun = NoRun
  None = None
  MaxSequence = 1
  LayoutsOf <- MCLayoutOf
  TimeOf <- MCTimeOf
  Window = 1
PROPERTIES
  CatchesUp
