SPECIFICATION Spec
CONSTANTS
  Threads = {t1, t2}
  MaxPairs = 2
  MaxFd = 8
  Stdio = {0, 1, 2}
  Dests <- MCTwoDests
  Envs <- MCTwoEnvs
  PortBits = 16
  Faults = {"fork", "dup2"}
SYMMETRY Symmetry
INVARIANTS
  HelperIsIsolated
  RedirectedToOwnHelper
  SocketKept
CHECK_DEADLOCK FALSE
