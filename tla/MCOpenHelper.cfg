SPECIFICATION Spec
CONSTANTS
  Threads = {t1, t2}
  MaxCalls = 2
  MaxFd = 5
  Stdio = {0, 1, 2}
  Envs <- MCEnvs
  Output = 1
  Faults = {"tmpfile", "fork", "reopen", "exec", "open", "eintr", "sigchld"}
INVARIANTS
  TypeOK
  ResultComplete
  WritesOwnFile
  NeverPlain
  OpenFilesAccounted
PROPERTIES
  CallsReturn
CHECK_DEADLOCK FALSE
