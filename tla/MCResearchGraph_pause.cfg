CONSTANTS
  Plugins <- MCHitlPlugins
  LoopLimits = {3}
  MaxLoops = 3
  MaxRuns = 1
  MaxStops = 1
SPECIFICATION Spec
PROPERTY PauseBeforeImplement
CHECK_DEADLOCK FALSE
