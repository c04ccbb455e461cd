SPECIFICATION Spec
CONSTANTS
  Runs = {r1, r2, r3}
  PageSizes = {0, 1}
  MaxPages = 1
  Faults <- AllFaults
  None = None
  NoRow = NoRow
SYMMETRY Symmetry
INVARIANTS
  TypeOK
  SingleActiveRun
  AnswerMatchesStore
  ReprocessedIsClosed
PROPERTY
  ImplementsSlot
