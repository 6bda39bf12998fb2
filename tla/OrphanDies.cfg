CONSTANTS
  MaxPid = 4
  Catchers = {1, 2}
  Codes = {"exited"}
  MaxEntries = 2
  Victims = {2, 3, 4}
  ZombieTargets = {}
  None = None
  RtUsers = {1, 2, 3}
  RtSystasks = {11, 12}
  Maps = {0, 1}
  MapOf <- MCMapOf
  Bits = {0, 1, 2}
  Burnt = {0}
  Slots = {0, 1}
  RtCatchers = {2}
  RtThreaded = {2}
  RtOrphans = TRUE
  RtExecs = {}
  RtLateSignals = FALSE
  Requests <- MCRequests
  PAGE_SIZE = 32
  Align = 4
  UtcbSize = 8
  KipSize = 1
  StkResv = 3
  CrPids = {1, 2}
  CrUids = {0, 5, 6}
  CrLimits = {0, 1}
  SsSlots = {0, 1, 2, 3, 4, 5, 6, 7, 8, 9}
  SsChoices = {"late", "null"}
SPECIFICATION RootSpec
INVARIANTS RtAssertsHold
CHECK_DEADLOCK FALSE
