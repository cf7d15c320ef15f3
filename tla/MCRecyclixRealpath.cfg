SPECIFICATION Spec
CONSTANTS
  Names <- MCNames
  Paths <- MCPaths
  Files <- MCFiles
  Dev <- MCDev
  Ino <- MCIno
  MaxLinks = 2
  Size <- MCSize
  IntWidth = 8
  Kilo = 4
  Procs = {p1}
  Recyclers <- MCRecyclers
  InitTree <- MCTree
  CallPaths <- MCCalls
  CallModes = {"cwd"}
  AtFaults = {"realpath"}
  Umasks = {FALSE}
  UserOps = {"create"}
  UserPaths <- MCUser
  LinkPaths = {}
  LinkTargets = {}
  Concurrent = FALSE
PROPERTIES
  SuccessRemoves
CHECK_DEADLOCK FALSE
