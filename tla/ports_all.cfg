SPECIFICATION DeviceSpec
CONSTANTS
  NameLen = 2
  ByteMax = 4
  CountLen = 1
  SharpName <- MCSharpName
  SharpType <- MCSharpType
  DefaultType <- MCDefaultType
  Handlers = {h}
  NoHandler = NoHandler
  PluginNames <- MCPluginNames
  PluginTypes <- MCPluginTypes
  PluginValues <- MCPluginValues
  SensorBytes = {1}
  MaxKeys = 2
  PosMod = 5
  Shift <- MCShift
  HostBytes = {0, 1}
  HostCmds = {"READ", "WRITE", "INDEX", "TYPE", OtherCmd}
  HasNvram = TRUE
  OtherCmd = OtherCmd
INVARIANTS TypeOK NvramNamesAKey
