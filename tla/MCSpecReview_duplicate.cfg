CONSTANTS
  Reviews <- MCReviews
  NoReview <- MCNoReview
  MaxFaults = 0
SPECIFICATION Spec
PROPERTY DuplicateIgnored
CHECK_DEADLOCK FALSE
