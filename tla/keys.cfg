SPECIFICATION Spec
CONSTANTS
  NameLen = 2
  ByteMax = 2
  CountLen = 1
  SharpName <- MCSharpName
  SharpType <- MCSharpType
  DefaultType <- MCDefaultType
  Handlers = {h1, h2}
  NoHandler = NoHandler
  PluginNames <- MCPluginNames
  PluginTypes <- MCPluginTypes
  PluginValues <- MCPluginValues
  SensorBytes = {2}
  MaxKeys = 3
INVARIANTS KeysTypeOK UniqueNames EnumerationIsComplete
PROPERTIES KeysAreStable PublishedIsCurrent
