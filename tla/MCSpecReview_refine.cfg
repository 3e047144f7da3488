CONSTANTS
  Reviews <- MCReviews
  NoReview <- MCNoReview
  MaxFaults = 0
SPECIFICATION Spec
PROPERTY RefineHasDraft
CHECK_DEADLOCK FALSE
