SPECIFICATION IoFdSpec
CONSTANTS
  Pids = {p1, p2, p3}
  InitLive = {p1}
  Files = {f1, f2}
  MaxFd = 4
  None = None
  MaxGen = 2
  MaxPending = 1
  Receivers = {}
CHECK_DEADLOCK FALSE
INVARIANTS DescriptorsAgree
