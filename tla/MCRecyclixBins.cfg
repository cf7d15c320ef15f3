SPECIFICATION Spec
CONSTANTS
  Names <- MCNames
  Paths <- MCPaths
  Files <- MCFiles
  Dev <- MCDev
  Ino <- MCIno
  MaxLinks = 2
  Size <- MCSize
  IntWidth = 8
  Kilo = 4
  Procs = {p1}
  Recyclers <- MCRecyclers
  InitTree <- MCTree
  CallPaths <- MCCalls
  CallModes = {"cwd", "fd"}
  AtFaults = {"getcwd", "readlink", "realpath"}
  Umasks = {FALSE}
  UserOps = {"create", "symlink", "link"}
  UserPaths <- MCUser
  LinkPaths <- MCLinkPaths
  LinkTargets <- MCLinkTargets
  Concurrent = FALSE
INVARIANTS
  MalformedEntryCancels
  WalkFindsMount
PROPERTIES
  KeepsPromise
CHECK_DEADLOCK FALSE
