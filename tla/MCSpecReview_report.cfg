CONSTANTS
  Reviews <- MCReviews
  NoReview <- MCNoReview
  MaxFaults = 0
SPECIFICATION Spec
INVARIANT SpecIsUsers
CHECK_DEADLOCK FALSE
