SPECIFICATION Spec
CONSTANTS
  Calls = {c1, c2, c3}
  Ids = {1}
  Names = {1, 2}
  Blank = 0
  Addresses <- MCAddresses
  Normalized <- MCNormalized
  InitialUsers <- OneUser
  Limit = 1
  Operations <- Updates
  DbFails = FALSE
  None = None
SYMMETRY Symmetry
INVARIANT
  DeactivatedOnce
