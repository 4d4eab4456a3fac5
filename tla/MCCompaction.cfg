SPECIFICATION CompactionSpec
CONSTANTS
  Token <- MCToken
  Var <- MCVar
  InputBeliefs <- facts
  InputResolutions <- resolved
  InputRules <- ruleChoices
  IngestBudget = 3
  BulkBudget = 4
  MaxLog = 3
  MaxFaults = 1
  MaxCompactions = 1
  CodecRules <- codecRules
  CodecBeliefs <- codecBeliefs
INVARIANTS
  LogStillMatches
  CompactedStateReturns
  CompactingTwiceIsOnce
  CodecsInvert
