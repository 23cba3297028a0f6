SPECIFICATION Spec
CONSTANTS
  Junk <- MCJunk
  Signals = FALSE
  Block = 6
  Messages <- Plain
INVARIANTS
  ReturnsHeadAndBody
CHECK_DEADLOCK FALSE
