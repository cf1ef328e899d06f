SPECIFICATION PluginsSpec
CONSTANTS
  FanSlots = {0, 1}
  I8K_FAN_MAX = 1
  Kinds = {"CPU"}
  Laptops <- MCLaptops
  Width = 2
  Chip <- MCChip
  Registers <- MCRegisters
  Calls <- MCCalls
  MaxLate = 0
  Chips <- MCChips
  Boards <- MCBoards
  LastIndex = 3
  Graphics <- MCGraphics
  Cards <- MCCards
  MaxFlaky = 2
  Sensors <- MCSensors
  RegistersOf <- MCAnswers
  MaxTries = 3
  Mainboards <- MCMainboards
  Desktops <- MCDesktops
  Degrees = {1, 2}
  MaxFavorites = 1
  GeforceCards <- MCGeforceCards
  ClockChips = {"NV40", "GT215", "GF100", "G80", "G84", "G92", "G94", "G98", "G200", "MCP77", "MCP79", "GK104", "GM107"}
  Packs <- MCPacks
  LeastDesign = 3
  NvMachines <- MCNvMachines
  NvReaders = {"a"}
  SpeedAsks <- MCSpeedAsks
  VideoRoms <- MCVideoRoms
  Notebooks <- MCNotebooks
  MaxBatteriesSupported = 2
  AdaptersSupported = 1
  StartChecks = 2
  Stocks <- MCStocks
CHECK_DEADLOCK FALSE
INVARIANTS PluginsTypeOK ControlIsTrue ChipsFindTheirDrivers KeysAreKept SensorIsFound DisplayedIsMeasured ControlsMatchFans MenuIsTrue RomIsPutBack CallsAreBound NoClockFeedsItself CardsAnswerForThemselves SpeedIsSet TablesAreHonoured PowerIsAgreed DumpIsWhole
PROPERTIES TransfersAreTrue SpeedsAreTrue DivisorsDoNotHunt LevelsAreTrue
