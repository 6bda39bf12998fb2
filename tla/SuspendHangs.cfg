SPECIFICATION SigSpec
CONSTANTS
  Sigs = {1, 2, 9, 17, 33, 34}
  RtMin = 33
  Chld = 17
  Fatal = 9
  SaMask <- MCSaMask
  QSlots = 2
  SigScenes <- MCSuspendScene
PROPERTY SuspendReturns
CHECK_DEADLOCK FALSE
