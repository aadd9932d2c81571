SPECIFICATION Spec
CONSTANTS
    Parties = {p1, p2}
    Primary = "pk"
    Order <- MCOrder
    Kind <- MCKind
    Sig <- MCSig
    Rank <- MCRank
    WeakKeys = {}
    Updates <- MCUpdates
    Inserts <- MCInserts
    Times = {1, 2, 3, 4, 5}
    MaxSteps = 4
CHECK_DEADLOCK FALSE
SYMMETRY Either
INVARIANTS
  OwnIsVerified
  HasItsPlace
  HardIsFinal
  StaysRevoked
  IsCanonical
