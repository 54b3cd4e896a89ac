SPECIFICATION PadsSpec
CONSTANTS
  NoMapping = NoMapping
  Guids <- MCGuids
  DeviceGuids <- MCGuids
  Lines <- MCLines
  Texts <- MCTexts
  NButtons = 1
  NAxes = 0
  NRaws = 1
  Values = {0, 1}
  Configs <- MCConfigs
  MotionStep = 1
  NBackends = 1
  Scanning = {}
  MaxId = 3
  MaxEvents = 1
  RemoveAllFirst = FALSE
  MaxPads = 2
  MaxContexts = 2
PROPERTY RemoveIsUnplug
CHECK_DEADLOCK FALSE
