SPECIFICATION BootSpec
CONSTANTS
  NameLen = 1
  ByteMax = 8
  CountLen = 1
  SharpName <- MCSharpName
  SharpType <- MCSharpType
  DefaultType <- MCDefaultType
  Handlers = {}
  NoHandler = NoHandler
  PluginNames = {}
  PluginTypes = {}
  PluginValues = {}
  SensorBytes = {}
  MaxKeys = 7
  REV <- MCREV
  RBr <- MCRBr
  RVBF <- MCRVBF
  EPCI <- MCEPCI
  Entries <- MCEntries
  Properties <- MCProperties
  Args = {}
  Versions = {1, 7, 8, 14, 15}
INVARIANT ListedModelsHaveNoRevision
CHECK_DEADLOCK FALSE
