SPECIFICATION Spec
CONSTANTS
  t1 = t1
  t2 = t2
  Sockers = {t1, t2}
  Fds = {3, 4, 5}
  MaxSocks = 2
  Nets <- MCNets
  Openers = {t1, t2}
  Tokens <- MCTokens
  Dirs <- MCDirs
  Names <- MCNames
  MaxIno = 3
  Places <- MCPlaces
  Progs <- MCProgs
  MaxProcs = 3
  Lanes = {t1, t2}
  MainLane = t1
  MaxOpens = 2
  Worlds <- MCWorlds
  NoNet <- MCNoNet
  NoProg <- MCNoProg
  NoWorld <- MCNoWorld
INVARIANTS
  TypeOK
  Redirected
  AsConfigured
  NetworkRefused
  
  CommandIsTold
  EnvironmentIsBack
  LibrariesInherited
CHECK_DEADLOCK FALSE
