SPECIFICATION Spec
CONSTANTS
  Token <- MCToken
  Var <- MCVar
  InputBeliefs <- loop
  InputResolutions <- premiseFlips
  InputRules <- one
  IngestBudget = 3
  BulkBudget = 8
  MaxLog = 4
  MaxFaults = 0
INVARIANTS
  NoInventedFacts
  GraphIsProjection
  ProofsAreSound
  RulesSaturated
  MemoryMatchesLog
PROPERTIES
  CallsReturn
