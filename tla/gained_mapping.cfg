SPECIFICATION GameSpec
CONSTANTS
  NoMapping = NoMapping
  Guids <- MCGuids
  DeviceGuids <- MCDeviceGuids
  Lines <- MCLines
  Texts <- MCTexts
  NButtons = 1
  NAxes = 0
  NRaws = 1
  Values = {0, 1}
  Configs <- MCConfigs
  MotionStep = 1
  NBackends = 1
  Scanning = {1}
  MaxId = 1
  MaxEvents = 1
PROPERTY GainedMappingIsHeard
