CONSTANTS
  Tasks <- MCTasks
  MaxMoves = 2
  MaxFaults = 0
SPECIFICATION Spec
PROPERTY GraphsApart
CHECK_DEADLOCK FALSE
