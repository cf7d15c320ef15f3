SPECIFICATION Spec
CONSTANTS
  Names <- MCNames
  Paths <- MCPaths
  Files <- MCFiles
  Dev <- MCDev
  Ino <- MCIno
  MaxLinks = 2
  Size <- MCSize
  IntWidth = 8
  Kilo = 4
  Procs = {p1, p2}
  Recyclers <- MCRecyclers
  InitTree <- MCTree
  CallPaths <- MCCalls
  CallModes = {"abs"}
  AtFaults = {}
  Umasks = {FALSE}
  UserOps = {"create"}
  UserPaths <- MCUser
  LinkPaths = {}
  LinkTargets = {}
  Concurrent = TRUE
PROPERTIES
  LiveTreeFrame
  KeepsPromise
  Terminates
CHECK_DEADLOCK FALSE
