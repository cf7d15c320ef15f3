SPECIFICATION Spec
CONSTANTS
  Names <- MCNames
  Paths <- MCPaths
  Files <- MCFiles
  Dev <- MCDev
  Ino <- MCIno
  MaxLinks = 2
  Size <- MCSize
  IntWidth = 8
  Kilo = 4
  Procs = {p1}
  Recyclers <- MCRecyclers
  InitTree <- MCTree
  CallPaths <- MCCalls
  CallModes = {"abs"}
  AtFaults = {}
  Umasks = {FALSE}
  UserOps = {"create", "mkdir", "symlink"}
  UserPaths <- MCUser
  LinkPaths <- MCUser
  LinkTargets <- MCLinkTargets
  Concurrent = FALSE
PROPERTIES
  LiveTreeFrame
CHECK_DEADLOCK FALSE
