CONSTANTS
  Pids = {p1, p2}
  InitLive = {p1}
  Files = {f1, f2}
  MaxFd = 3
  None = None
  MaxGen = 1
  MaxPending = 1
  Receivers = {p1}
  p1 = p1
  p2 = p2
  p3 = p3
  Nobody = Nobody
  Proc = {p1, p2, p3}
  Layouts <- MCLayouts
  NonBlock <- MCNonBlock
  Interrupted = {p1}
  Killed = {p3}
  PipeSz = 2
  MaxChunk = 2
  Senders = {A, B}
  NilThread = NilThread
  MaxCalls = 3
SPECIFICATION IoSpec
SYMMETRY Symmetry
INVARIANTS FilesAgree IoFdBooks StreamIntact PipeWakes RollbackExact
CHECK_DEADLOCK FALSE
