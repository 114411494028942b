SPECIFICATION FairSpec
CONSTANTS
  Fields = {"invert2", "invert10"}
  Crosses = {"sl"}
  Rates = {"freq"}
  KeyOrder <- Order
  FileOrder <- Sorted
  FieldSize = 2
  CpsDefault = 1
  Values = {1}
  Clients = {c}
  Main = main
  Nobody = Nobody
  Absent = Absent
  Tries = 2
  MaxCalls = 2
  MaxRestarts = 1
INVARIANTS RecordShowsField RestoredFromFile SavedAsShown
PROPERTIES CallsReturn
CHECK_DEADLOCK FALSE
