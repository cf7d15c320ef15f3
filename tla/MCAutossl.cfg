SPECIFICATION Spec
CONSTANTS
  Threads = {t1}
  MaxPairs = 2
  MaxFd = 8
  Stdio = {0, 1, 2}
  Dests <- MCDests
  Envs <- MCEnvs
  PortBits = 16
  Faults = {"socketpair", "fork", "dup2", "exec", "connect"}
INVARIANTS
  TypeOK
  NoDowngrade
PROPERTIES
  HelpersAreTold
CHECK_DEADLOCK FALSE
