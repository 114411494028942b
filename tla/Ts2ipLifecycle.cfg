SPECIFICATION Spec
CONSTANTS
  Devices = {gtp, evg, evr}
  Files = {f, g}
  IpidMax = 4
  U32 = 8
  Majors = {1, 2, 5}
  CharSize = 4
  None = None
INVARIANTS HandlerIsOwn OpenFileHasDevice
PROPERTIES SerialOpens
CHECK_DEADLOCK FALSE
