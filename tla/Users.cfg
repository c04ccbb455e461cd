SPECIFICATION Spec
CONSTANTS
  Calls = {c1, c2, c3}
  Ids = {1, 2, 3, 4}
  Names = {1, 2}
  Blank = 0
  Addresses <- MCAddresses
  Normalized <- MCNormalized
  InitialUsers <- EmptyOrTwo
  Limit = 1
  Operations <- AllOperations
  DbFails = TRUE
  None = None
SYMMETRY Symmetry
INVARIANTS
  TypeOK
  OneUserPerMailbox
  AnsweredIsStored
  AnswerIsTheRow
  ListMissesNone
