SPECIFICATION FairSpec
CONSTANTS
  BufferSize = 3
  MaxLen = 14
  MaxRead = 6
  KeepReading = TRUE
  OverflowChecks = TRUE
INVARIANTS
  InOrder
  EofIsAll
  SmallReadsAreSafe
PROPERTIES
  Completes
