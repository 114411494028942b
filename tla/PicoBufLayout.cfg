SPECIFICATION Spec
CONSTANTS
  BufSize = 8
  BufCount = 4
  Ratio = 4
  Line = 2
INVARIANTS BufferInRange UserBufferFilled
CHECK_DEADLOCK FALSE
