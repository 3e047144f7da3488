CONSTANTS
  Tasks <- MCTasks
  MaxMoves = 2
  MaxFaults = 2
SPECIFICATION FairSpec
INVARIANTS
  TypeOK
  OneInvocation
  VerifyIsBusy
  CardTellsRun
PROPERTIES
  RunKept
  OwnFollows
  WindsDown
  Settles
CHECK_DEADLOCK FALSE
