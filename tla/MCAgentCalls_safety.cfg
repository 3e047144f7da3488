CONSTANTS
  a = a
  b = b
  r = r
  Researches <- MCResearches
  Reviews <- MCReviews
  NodeOps <- MCNodeOps
  Workers = 2
  MaxRetries = 1
  MaxCalls = 3
SPECIFICATION FairSpec
INVARIANTS
  TypeOK
  AnswerOfSuccess
  PassIsFresh
  OwnAnswer
PROPERTY
  Served
CHECK_DEADLOCK FALSE
