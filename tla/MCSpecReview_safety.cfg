CONSTANTS
  Reviews <- MCReviews
  NoReview <- MCNoReview
  MaxFaults = 1
SPECIFICATION FairSpec
INVARIANTS
  TypeOK
  FlagHasOwner
  SpecPassedBothRounds
  VerifiedSpec
PROPERTIES
  ImplementsContract
  FlagCleared
  NotStranded
CHECK_DEADLOCK FALSE
