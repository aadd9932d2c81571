\* Three processes of different policies, two ports: ports are used again.
SPECIFICATION FairSpec
CONSTANTS
    a = a
    b = b
    d = d
    Clients = {a, b, d}
    Ports = {p, q}
    p = p
    q = q
    Given <- Mixed
    CtxPolicy = "robust"
    MaxFaults = 1
INVARIANTS
  FileIsOwn
  AnnouncedIsNamed
PROPERTIES
  Answered
