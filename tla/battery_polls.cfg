SPECIFICATION FairBatterySpec
CONSTANTS
  BatteryCount = 2
  MaxAcAdaptersSupported = 1
  Handlers = {start}
  Starter = start
  Readers = {start}
  Poller = Poller
PROPERTY LevelIsRead
