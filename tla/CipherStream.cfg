CONSTANTS
    Modes = {"cfb", "aead"}
    Unit = 3
    TagSize = 2
    MaxText = 7
    MaxPiece = 5
SPECIFICATION Spec
INVARIANTS
  InOrder
  EndIsAll
  IntactIsAccepted
