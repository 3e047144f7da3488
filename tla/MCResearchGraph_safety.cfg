CONSTANTS
  Plugins <- MCPlugins
  LoopLimits = {2, 4}
  MaxLoops = 4
  MaxRuns = 2
  MaxStops = 1
SPECIFICATION FairSpec
INVARIANTS
  TypeOK
  AttemptBound
  VerdictAtNode
  SanctionedStop
  HistoryComplete
  MetricsOfAttempt
  FinishOutcome
  ReportOfRow
PROPERTIES
  TerminateIsFinal
  NearsEnd
  ImplementsContract
  ImplementsThread
  RunEnds
CHECK_DEADLOCK FALSE
