SPECIFICATION FairHostSpec
CONSTANTS
  NameLen = 2
  ByteMax = 4
  CountLen = 1
  SharpName <- MCSharpName
  SharpType <- MCSharpType
  DefaultType <- MCDefaultType
  Handlers = {h}
  NoHandler = NoHandler
  PluginNames <- MCPluginNames
  PluginTypes <- MCPluginTypes
  PluginValues <- MCPluginValues
  SensorBytes = {2}
  MaxKeys = 3
  PosMod = 5
  Shift <- MCShift
  HostBytes = {}
  HostCmds = {}
  HasNvram = TRUE
  OtherCmd = OtherCmd
  Requests <- MCRequests
  MaxDataLen = 2
  MaxAborts = 1
INVARIANT ReadsWithinBuffers
PROPERTIES IsAService RequestsActOnce RequestsEnd
