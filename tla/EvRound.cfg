SPECIFICATION RoundSpec
CONSTANTS
  Threads = {"main", "sync"}
  IPs = {"evsys", "gtp", "evr"}
  Commands = {1, 2, 3, 4}
  Minute = 3
  SameMax = 1
  Readings = {"none", "value"}
  MaxTrouble = 1
INVARIANTS LedShowsStatus LcdShowsRound
PROPERTIES NoFalseReset StopIsReset LossShown
