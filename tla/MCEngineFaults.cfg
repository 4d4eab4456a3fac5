SPECIFICATION Spec
CONSTANTS
  Token <- MCToken
  Var <- MCVar
  InputBeliefs <- chainOrNot
  InputResolutions <- flips
  InputRules <- withOpen
  IngestBudget = 3
  BulkBudget = 5
  MaxLog = 3
  MaxFaults = 1
INVARIANTS
  TypeOK
  NoInventedFacts
  GraphIsProjection
  ProofsAreSound
  RulesSaturated
  MemoryMatchesLog
