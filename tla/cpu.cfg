SPECIFICATION CpuSpec
CONSTANTS
  Machines <- MCMachines
  CounterMod = 2
  UInt64Mod = 5
  MaxAdvance = 1
  BaseFreqRatio = 3
  Unreadable = {{}, {0}}
INVARIANTS FrequencyIsMeasured QuietAfterStop
PROPERTIES RoundsGoOn
CHECK_DEADLOCK FALSE
