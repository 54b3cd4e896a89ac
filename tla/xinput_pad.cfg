SPECIFICATION FairSpec
CONSTANTS
  Levels = {0, 1, 5}
  Durations = {0, 1, 2}
  Tolerance = 2
  MaxPacket = 3
  MaxCalls = 4
INVARIANTS TypeOK PadIsDevice QuietAfterDestroy
PROPERTIES MotorStopsInTime ViewIsFresh TimedRumbleEnds
CHECK_DEADLOCK FALSE
