SPECIFICATION BatterySpec
CONSTANTS
  BatteryCount = 1
  MaxAcAdaptersSupported = 1
  Handlers = {start, notify}
  Starter = start
  Readers = {notify}
  Poller = Poller
INVARIANTS OnBatteryIsPolled PowerIsTold
