CONSTANTS
  RbNodes = {1, 2, 3, 4, 5, 6, 7, 8}
  RbKey <- MCRbKey
  EnvNames = {"A", "AB"}
  EnvValues = {"x", "y"}
  EnvBlocks = {"b1", "b2"}
  EnvPrefix <- MCEnvPrefix
  FileSize = 4
  BufSizes = {2, 4}
  WriteLens = {1, 2, 3}
  WriteCaps = {1, 2, 4}
  Word = 2
  SortInputs <- MCSortInputs
  ScanInputs <- MCScanInputs
  ULongMax = 63
  FmtInputs <- MCFmtInputs
  ByteBits = 2
  WordBytes = 2
  MemInputs <- MCMemInputs
  MaxFd = 12
  CwdLow = 5
  StdFds = {0, 1}
  MaxOpen = 4
  DupTargets = {6}
  MuddledMax = 1
  ExecMax = 1
  DirLen = 4
  ChunkMax = 3
  Streams = {s1, s2}
  Hidden = {2}
SPECIFICATION LibSpec
INVARIANTS AlgorithmsExact EnvExact  FilesExact
PROPERTIES LibSteps
CHECK_DEADLOCK FALSE
