SPECIFICATION Spec
CONSTANTS
  Files = {f, g}
  BufCount = 3
  Unbind = FALSE
INVARIANTS NothingLeaked ReleasedOnce HandlerHasBoard OpenFileHasBoard
