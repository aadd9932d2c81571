CONSTANTS
    MaxText = 5
    MaxPiece = 3
SPECIFICATION Spec
INVARIANTS
  DigestsAgree
