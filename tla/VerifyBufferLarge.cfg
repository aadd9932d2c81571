SPECIFICATION Spec
CONSTANTS
  BufferSize = 2
  MaxLen = 12
  MaxRead = 10
  KeepReading = FALSE
  OverflowChecks = FALSE
PROPERTIES
  Implements
