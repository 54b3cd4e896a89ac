SPECIFICATION FairSpec
CONSTANTS
  NoMapping = NoMapping
  Guids <- MCGuids
  DeviceGuids <- MCGuids
  Lines = {}
  Texts = {}
  NButtons = 1
  NAxes = 0
  NRaws = 1
  Values = {0, 1}
  Configs <- MCConfigs
  MotionStep = 1
  NBackends = 2
  Scanning = {1, 2}
  MaxId = 6
  MaxEvents = 1
  Pads <- MCPads
  PadGuid <- MCPadGuid
  Users <- MCUsers
  MaxChanges = 5
INVARIANTS PadsTypeOK ListedOnce
PROPERTIES LockIsNoUnplug PadsAreListed ViewsCatchUp
