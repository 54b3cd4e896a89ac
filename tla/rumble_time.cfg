SPECIFICATION WatchedSpec
CONSTANTS
  Levels = {0, 1, 5}
  Durations = {0, 1, 3}
  Tolerance = 2
  HatX = {0, 1}
  HatY <- MCHatY
  Held <- MCHeld
  LongestReplay = 2
  EffectSlots = 2
  QueueSize = 2
  MaxPads = 1
  MaxMoves = 0
  MaxCalls = 3
  MaxFaults = 0
PROPERTY RunsUncutOrStarts
CHECK_DEADLOCK FALSE
