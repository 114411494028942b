SPECIFICATION SysSpec
CONSTANTS
  NumBytes = 2
  Maps = {"a", "b"}
  ModeMap = "a"
  NumRegs = 2
  OpModes = {"NORMAL", "DELAYCHECK"}
  Strays = {0, 4, 8}
  MaxPoll = 1
  MaxFaults = 1
  Edits <- MCEdits
  MaxSets = 1
PROPERTIES SwitchedWhole DoneMeansInForce ClockOnWhenLocked
