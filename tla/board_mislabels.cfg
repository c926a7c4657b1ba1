SPECIFICATION Spec
CONSTANTS
  None = None
  Fens = {a, b}
  MaxSessions = 1
  MaxOpens = 1
  MaxRivals = 0
  MaxMoves = 2
  MaxClicks = 1
  Faults = {"late"}
INVARIANTS ShownIsForBoard
CHECK_DEADLOCK FALSE
