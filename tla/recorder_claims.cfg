SPECIFICATION WatchedSpec
CONSTANTS
  NButtons = 1
  NHats = 0
  NAxes = 1
  Directions = {}
  AxisValues <- MCAxisValues
  Threshold = 1
  Stability = 2
  Extreme = 2
  Targets = {t1}
  MaxFrames = 5
PROPERTY SteadyOrAnsweredOnce
CHECK_DEADLOCK FALSE
