SPECIFICATION Spec
CONSTANTS
  Tags = {"Literal", "CompressedData", "PKESK", "SEIP", "AED", "MDC", "OnePassSig", "Signature", "Marker", "PublicKey", "UserID"}
  MaxDepth = 2
  MaxPackets = 4
  Faults = {"read", "short", "late"}
INVARIANTS
  PanicsOnlyOnFault
  MessageIffTree
  CertsAreRecognised
