SPECIFICATION FairSpec
CONSTANTS
  p1 = p1
  p2 = p2
  p3 = p3
  k1 = k1
  Procs = {p1, p2, p3}
  Names = {k1}
  Workloads <- Races
INVARIANTS
  TypeOK
  CertifierIsOwn
  PublishedIsComplete
  AgentIsCertified
  TskIsComplete
  OkIsComplete
PROPERTIES
  CertWriteOnce
  Termination
