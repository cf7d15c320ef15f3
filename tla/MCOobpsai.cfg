SPECIFICATION Spec
CONSTANTS
  Proxies = {p1}
  Servers = {s1, s2}
  Peers <- MCPeers
  Fakes <- MCFakes
  Faults = {"unlink", "symlink"}
SYMMETRY Symmetry
INVARIANTS
  TypeOK
  SeenBelongsToPeer
  RoundTrip
PROPERTIES
  LostToStaleLookupOnly
CHECK_DEADLOCK FALSE
