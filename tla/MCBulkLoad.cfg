SPECIFICATION Spec
CONSTANTS
  Token <- MCToken
  Var <- MCVar
  Bare <- MCBare
  Chopped <- MCChopped
  Hashed = {13}
  Minus = 10
  Rows <- MCRows
  FileSource = 9
  Asserted <- MCAsserted
  Resolved <- MCResolved
  Concluded <- MCConcluded
  MaxRows = 3
  MaxCalls = 2
  MaxSteps = 4
INVARIANTS
  WalkMeetsEachOnce
  ListingsAgree
  ContradictionsReported
  NothingLostSilently
  RowsAccounted
PROPERTIES
  StoresAreSets
  LoadsReturn
