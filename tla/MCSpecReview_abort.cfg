CONSTANTS
  Reviews <- MCReviews
  NoReview <- MCNoReview
  MaxFaults = 0
SPECIFICATION Spec
PROPERTY AbortIsFinal
CHECK_DEADLOCK FALSE
