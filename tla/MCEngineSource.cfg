SPECIFICATION Spec
CONSTANTS
  Token <- MCToken
  Var <- MCVar
  InputBeliefs <- disguised
  InputResolutions <- none
  InputRules <- one
  IngestBudget = 3
  BulkBudget = 3
  MaxLog = 3
  MaxFaults = 0
INVARIANT
  CallersFactsKept
