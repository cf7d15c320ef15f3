SPECIFICATION Spec
CONSTANTS
  Names <- MCNames
  Paths <- MCPaths
  Files <- MCFiles
  Dev <- MCDev
  Ino <- MCIno
  MaxLinks = 2
  Size <- MCSize
  IntWidth = 8
  Kilo = 4
  Procs = {p1}
  Recyclers <- MCRecyclers
  InitTree <- MCTree
  CallPaths <- MCCalls
  CallModes = {"abs"}
  AtFaults = {}
  Umasks = {TRUE, FALSE}
  UserOps = {"create", "replace", "mkdir", "chmod", "empty"}
  UserPaths <- MCUser
  LinkPaths = {}
  LinkTargets = {}
  Concurrent = FALSE
INVARIANTS
  TypeOK
PROPERTIES
  SuccessRemoves
  LiveTreeFrame
  BinLossOnlyInTheWay
  CloneHasDonorMode
  KeepsPromise
CHECK_DEADLOCK FALSE
