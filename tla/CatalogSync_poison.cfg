SPECIFICATION Spec
CONSTANTS
  Runs = {r1}
  PageSizes = {0, 1, 2}
  MaxPages = 2
  Faults <- PoisonOnly
  None = None
  NoRow = NoRow
INVARIANT
  ItemFailureKeepsBatch
