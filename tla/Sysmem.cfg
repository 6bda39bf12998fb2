SPECIFICATION Spec
CONSTANTS
  t1 = t1
  t2 = t2
  Tasks = {t1, t2}
  Top = 6
  Early = {1}
  Image = {5}
  Ram = {2, 3, 4}
  Menus <- MCMenus
  Values = {1, 2, 3}
  Fresh = 1
  CSize <- MCSize
  Capacity = 3
  MaxSize = 3
  Low = 1
  EnableAt = 1
  Slots = 4
  InitBrk = 7
  Areas = {1}
  OrMasks <- MCOrMasks
  Heads = {"l_page"}
  MaxLp = 3
INVARIANTS SysmemInvariants
PROPERTIES SysmemMemory
CHECK_DEADLOCK FALSE
