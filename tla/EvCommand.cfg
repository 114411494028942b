SPECIFICATION FairSpec
CONSTANTS
  Threads = {main, sync, port}
  IPs = {evsys, evg}
  Commands = {1}
  MaxSpin = 2
INVARIANTS CommandIsPulse
PROPERTIES CallReturns KeepsPromise
