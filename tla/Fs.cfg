SPECIFICATION Spec
CONSTANTS
  Tree <- MCTree
  Asks <- MCAsks
  ResolveClients = {"c1", "c2"}
  PathStackMax = 50
  Image <- MCImage
  Parent <- MCParent
  Dot = 5
  DotDot = 6
  DirFiles = {"p"}
  DirLimit = 2
  PathMaxes = {8, 9}
  DirNoMem = {3}
  DirSeeks = {3}
  BlockLog = 1
  FileSizes = {0, 5, 12}
  Packed <- MCPacked
  MetaCuts <- MCCuts
  Chunk = 2
  ReadCounts = {1, 5, 12}
  ReadOffsets = {0, 3, 4, 10, 12, 15}
  RootFs = "R"
  NewFs = {"a", "b"}
  MountDirs = {"d", "e"}
  Scenes <- MCMountScenes
  ConfirmTries = 2
  DevClients = {"c1", "c2"}
  Nodes = {"null", "zero", "tty"}
  Driver <- MCDriver
  NoDriver = "nodev"
  DevServers = {"s1", "s2"}
  MaxTicks = 1
  MaxWedges = 1
  MaxTimeouts = 3
INVARIANTS ResolveAgrees DirExact FileExact ServersExact
PROPERTIES FsProgress
CHECK_DEADLOCK FALSE
