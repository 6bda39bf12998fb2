CONSTANTS
  MsgTasks = {1, 2}
  MsgBits = {0, 1}
  MsgHandlers = {"g", "h"}
  Labels = {"x", "y"}
  Slots <- MCSlots
  FilterMax = 3
  MsgScenes <- MCMsgScenes
  WantMax = 2
  ArrayMax = 4
  Handles = {1, 2}
  EpIds = {1, 2}
  QueueCap = 2
  EpScenes <- MCEpScenes
SPECIFICATION UserSpec
INVARIANTS BroadcastExact EpollExact
PROPERTIES UserProgress
CHECK_DEADLOCK FALSE
