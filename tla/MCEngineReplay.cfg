SPECIFICATION Spec
CONSTANTS
  Token <- MCToken
  Var <- MCVar
  InputBeliefs <- chain
  InputResolutions <- none
  InputRules <- open
  IngestBudget = 3
  BulkBudget = 3
  MaxLog = 3
  MaxFaults = 0
INVARIANT
  ReplaySucceeds
