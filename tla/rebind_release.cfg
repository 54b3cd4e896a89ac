SPECIFICATION ScreenSpec
CONSTANTS
  NButtons = 1
  NHats = 0
  NAxes = 1
  Directions = {1}
  AxisValues = {0, 2}
  Threshold = 1
  Stability = 2
  Extreme = 2
  Targets = {"leftx", "lefty"}
  Prompts <- MCPrompts
  MaxFrames = 2
PROPERTY AnswersArePresses
CHECK_DEADLOCK FALSE
