SPECIFICATION Spec
CONSTANTS
  Token <- MCToken
  Var <- MCVar
  InputBeliefs <- chain
  InputResolutions <- flips
  InputRules <- one
  IngestBudget = 3
  BulkBudget = 3
  MaxLog = 3
  MaxFaults = 1
INVARIANT
  FalsePremiseKeptOut
