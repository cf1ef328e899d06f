SPECIFICATION FanSpec
CONSTANTS
  NameLen = 2
  ByteMax = 6
  CountLen = 1
  SharpName <- MCSharpName
  SharpType <- MCType
  DefaultType <- MCDefaultType
  Handlers = {ite, winbond, smi}
  NoHandler = NoHandler
  PluginNames = {}
  PluginTypes = {}
  PluginValues = {}
  SensorBytes = {}
  MaxKeys = 14
  FNum <- MCFNum
  FanKey <- MCFanKey
  FanId <- MCFanId
  FanSpeed <- MCFanSpeed
  FanDesc <- MCFanDesc
  Listing = {ite, winbond}
  MaxTachs = 2
INVARIANT NoDanglingHandler
SYMMETRY Alike
CHECK_DEADLOCK FALSE
