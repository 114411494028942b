SPECIFICATION Spec
CONSTANTS
  Modes = {"EVG", "ZQ9R"}
  Word = 4
  Narrow = {1, 2}
  List <- MCList
  Served <- MCServed
  Cells <- MCCells
  Number <- MCNumber
  Texts = {"MXC", "120 Hz"}
  Pattern <- MCPattern
  Codes = {1, 2}
  Ports = {0}
  Tables <- MCTables
  Size = 2
  Files <- MCFiles
  Boards <- MCBoards
  PowerOn <- MCPowerOn
  PutValues <- MCPut
  Arrays <- MCArrays
  MaxOps = 3
INVARIANTS TextInForce PortsFollowRecords TablesHold
PROPERTIES FieldsAreTheirOwn
CHECK_DEADLOCK FALSE
