SPECIFICATION FairSpec
CONSTANTS
  Runs = {r1}
  PageSizes = {0, 1, 2}
  MaxPages = 3
  Faults <- AllFaults
  None = None
  NoRow = NoRow
INVARIANTS
  StoredCountsBalance
  EvidenceLagsOnePage
PROPERTIES
  EvidenceOnlyGrows
  EveryCallAnswers
