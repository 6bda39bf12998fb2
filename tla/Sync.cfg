CONSTANTS
  Threads = {1, 2, 3}
  None = None
  NumLcEvents = 3
  LcTags = {"MPL_EXEC", "MPL_EXIT"}
  MaxEvents = 4
  CndThreads = {1, 2, 3}
  MaxItems = 2
  Racing = FALSE
  Destroys = {3}
  Thr = {1, 2, 3}
  Joins <- MCJoins
  DtorsWait = FALSE
  TssKeys = {1, 2, 3}
  TssThreads = {1, 2}
  TssVals = {5}
  Ram <- MCRam
  LowTop = 2
  RootImage = {2, 3}
  RootTouched = {2}
  Segments <- MCSegments
  FirstMem = {5}
  BootModules <- MCModules
  PageBytes = 4
  NPreHeap = 3
  TempPhys = 6
  HeapMax = 16
  BootScenes <- MCBootScenes
SPECIFICATION SyncSpec
INVARIANTS MtxSafe LcIntact CndSafe ThrdSafe BootSafe
PROPERTIES SyncProgress
CHECK_DEADLOCK FALSE
