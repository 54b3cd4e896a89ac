SPECIFICATION PadsSpec
CONSTANTS
  NoMapping = NoMapping
  Guids <- MCGuids
  DeviceGuids <- MCGuids
  Lines <- MCLines
  Texts <- MCTexts
  NButtons = 1
  NAxes = 0
  NRaws = 2
  Values = {0, 1}
  Configs <- MCConfigs
  MotionStep = 1
  NBackends = 1
  Scanning = {}
  MaxId = 4
  MaxEvents = 1
  RemoveAllFirst = TRUE
  MaxPads = 3
  MaxContexts = 2
INVARIANTS PadsTypeOK PadsAreDevices
PROPERTIES PadsComeAndGo DevicesShowTheirPads RemoveIsUnplug
CHECK_DEADLOCK FALSE
