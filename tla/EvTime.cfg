SPECIFICATION TimeSpec
CONSTANTS
  FirstYear = 2019
  LastYear = 2021
  SecondsOfDay = {0, 53999, 54000, 54061, 86399}
  TZone = 32400
  MktimeShifts = {0, 3600}
INVARIANTS EpochIsLinear ClockFaceIsLocal DateRightAfterTheFirst
CHECK_DEADLOCK FALSE
