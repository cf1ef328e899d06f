SPECIFICATION BatterySpec
CONSTANTS
  BatteryCount = 1
  MaxAcAdaptersSupported = 1
  Handlers = {start}
  Starter = start
  Readers = {}
  Poller = Poller
INVARIANT ChangesAreFlushed
