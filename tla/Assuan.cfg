\* Callers that drop the Agent after an error, as KeyPair does, or go on with it.
SPECIFICATION FairSpec
CONSTANTS
    MaxRequests = 4
    Kinds = {"sign", "decrypt"}
    MaxOptions = 1
    Chunks = 2
INVARIANTS
  OwnAnswer
PROPERTIES
  Completes
