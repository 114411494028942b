SPECIFICATION FairSpec
CONSTANTS
  Readers = {a, b}
  IrqMode = "poll"
  Ops = {1, 2}
  Outcomes = {"written"}
  Nobody = Nobody
  Fill = Fill
PROPERTIES AbortedReadReturns ReadReturns
