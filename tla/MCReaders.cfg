SPECIFICATION StepsSpec
CONSTANTS
  Token <- MCToken
  Var <- MCVar
  InputBeliefs <- circle
  InputResolutions <- denial
  InputRules <- transitive
  IngestBudget = 8
  BulkBudget = 5
  MaxLog = 3
  MaxFaults = 1
  Asked <- askedFor
  Roots <- root
  Depths <- deep
INVARIANTS
  GraphNeverAhead
PROPERTIES
  AnswersWereTrue
  AnswersCiteProofs
  ExplanationsBracketed
  StepsMakeCalls
