SPECIFICATION Spec
CONSTANTS
  t1 = t1
  Threads = {t1, t2}
  MaxCalls = 2
  Envs <- MCEnvs
  PassMax = 3
  Capacity = 1
INVARIANTS
  TypeOK
  PasswordIsAnswer
  EndsAccounted
PROPERTIES
  CallsReturn
CHECK_DEADLOCK FALSE
