CONSTANTS
    Powers = {1, 2, 4, 8, 16}
    Thresholds = {1, 2, 4}
    MaxChunks = {1, 2, 4}
    MaxBody = 6
    MaxAmount = 4
    MaxCalls = 3
    BufSize = 2
SPECIFICATION Spec
INVARIANTS
  InOrder
  EndIsComplete
  IntactIsAccepted
  HashIsOfBody
