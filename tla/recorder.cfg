SPECIFICATION FairSpec
CONSTANTS
  NButtons = 1
  NHats = 1
  NAxes = 1
  Directions = {1}
  AxisValues <- MCAxisValues
  Threshold = 1
  Stability = 2
  Extreme = 2
  Targets = {t1, t2}
  MaxFrames = 3
  Full = 2
  Outputs <- MCOutputs
INVARIANTS TypeOK HeldAtBeginIsSilent EntriesAreTheWishes LineDrivesItsOutputs
PROPERTIES AnswerWasSeenLongEnough SteadyInputIsAnswered
CHECK_DEADLOCK FALSE
