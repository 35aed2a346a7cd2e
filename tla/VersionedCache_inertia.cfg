SPECIFICATION Spec
CONSTANTS
  Slot <- InertiaSlots
  Source <- MCSource
  Content = {c1, c2}
  WriteGroup <- MCWriteGroup
  DependsOn <- MCDependsOn
  Reads <- MCReads
  Borrows <- MCBorrows
  Takes <- MCTakes
  Rank <- MCRank
  MaxVersion = 2
  MaxCount = 2
SYMMETRY ContentSymmetry
CHECK_DEADLOCK FALSE
INVARIANTS
  FreshIsCold
  BorrowsStayFresh
