SPECIFICATION Spec
CONSTANTS
  f1 = f1
  f2 = f2
  f3 = f3
  f4 = f4
  p1 = p1
  p2 = p2
  p3 = p3
  Spaces = {p1, p2, p3}
  Frames = {f1, f2, f3, f4}
  NoFrame = NoFrame
  Top = 6
  Resv = {4}
  Stores = {1}
  FileData <- MCFileData
  Menus <- MCMenus
  MaxIno = 2
  CutKinds <- MCCutKinds
  Leaf = {"succ"}
  Crowded = FALSE
SYMMETRY Sym
INVARIANTS VmInvariants
PROPERTIES VmMemory
CHECK_DEADLOCK FALSE
