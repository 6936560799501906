SPECIFICATION Spec
CONSTANTS
  t1 = t1
  g1 = g1
  Threads = {t1}
  NSlots = 1
  Caps = {7}
  Sizes = {1, 3}
  RawSizes = {1, 3}
  Junk <- MCJunk
  ALIGN = 2
  CK_MAX = 1
  SizeMod = 16
  Regions = {g1}
  MaxGen = 1
  MaxOff = 15
  None = None
INVARIANT RawWithinCap
CHECK_DEADLOCK FALSE
