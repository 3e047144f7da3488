CONSTANTS
  Plugins <- MCHitlPlugins
  LoopLimits = {3}
  MaxLoops = 3
  MaxRuns = 1
  MaxStops = 0
SPECIFICATION Spec
PROPERTY TerminateEndsRun
CHECK_DEADLOCK FALSE
