\* All messages of up to eight packets, five of them up to the literal data.
SPECIFICATION Spec
CONSTANTS
    Algos = {"a", "b"}
    Supported = {"a"}
    Tags = {"OnePassSig", "Signature", "Literal", "CompressedData", "SEIP", "MDC"}
    MaxDepth = 3
    MaxHeader = 5
    MaxPackets = 8
INVARIANTS
  DigestIsOfContent
  LayersAreGroups
