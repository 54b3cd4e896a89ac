SPECIFICATION FairSpec
CONSTANTS
  Levels = {0, 1, 5}
  Durations = {0, 1, 3}
  Tolerance = 2
  HatX = {0, 1}
  HatY <- MCHatY
  Held <- MCHeld
  LongestReplay = 2
  EffectSlots = 2
  QueueSize = 2
  MaxPads = 2
  MaxMoves = 3
  MaxCalls = 3
  MaxFaults = 1
INVARIANTS TypeOK PlaysWhatItTook EffectsAreNotLeaked QuietWhenClosed
PROPERTIES OnlyDroppedIsStale StopIsStop MotorsComeToRest PluggedIsFound
CHECK_DEADLOCK FALSE
