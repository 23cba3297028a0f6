SPECIFICATION FairSpec
CONSTANTS
  Junk <- MCJunk
  Signals = TRUE
  Block = 6
  Messages <- PlainAndBinary
INVARIANTS
  TypeOK
  NothingInvented
  SplitExact
PROPERTIES
  ReadToEnd
CHECK_DEADLOCK FALSE
