SPECIFICATION Spec
CONSTANTS
  Proxies = {p1}
  Servers = {s1, s2}
  Peers <- MCPeers
  Fakes <- MCSixFakes
  Faults = {}
INVARIANTS
  SeenBelongsToPeer
CHECK_DEADLOCK FALSE
