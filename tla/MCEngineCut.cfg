SPECIFICATION Spec
CONSTANTS
  Token <- MCToken
  Var <- MCVar
  InputBeliefs <- chain
  InputResolutions <- none
  InputRules <- back
  IngestBudget = 1
  BulkBudget = 1
  MaxLog = 3
  MaxFaults = 0
INVARIANT
  UnknownMeansUnreached
