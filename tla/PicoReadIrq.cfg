SPECIFICATION Spec
CONSTANTS
  Readers = {a, b}
  IrqMode = "irq"
  Ops = {1}
  Outcomes = {"written", "nothing"}
  Nobody = Nobody
  Fill = Fill
SYMMETRY Symmetry
INVARIANTS OneArmedRead Buffer1Stable OwnEngine1Data AbortSeen
VIEW Engine1Only
