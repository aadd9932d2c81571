CONSTANTS
  Commands = {"collect", "filter", "merge"}
  Fprs = {1, 2}
  MaxItems = 5
  MaxFiles = 2
SPECIFICATION Spec
INVARIANTS
  MatchesInput
  OkIsComplete
