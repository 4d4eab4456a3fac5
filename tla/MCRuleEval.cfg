SPECIFICATION Spec
CONSTANTS
  Token <- MCToken
  Var <- MCVar
  Question <- lone
  SearchRules <- MCRules
  SearchEdges <- MCEdges
  MaxResults = 3
  X <- x
  Y <- y
  Z <- z
  TransitiveName = 6
INVARIANTS
  SearchIsReference
  FoundInOrder
  ResultSorted
  SuggestionsApply
