SPECIFICATION Spec
CONSTANTS
  t1 = t1
  t2 = t2
  g1 = g1
  g2 = g2
  Threads = {t1, t2}
  NSlots = 1
  Caps = {7}
  Sizes = {1, 3}
  RawSizes = {4}
  Junk <- MCJunk
  ALIGN = 2
  CK_MAX = 1
  SizeMod = 16
  Regions = {g1, g2}
  MaxGen = 2
  MaxOff = 7
  None = None
SYMMETRY Symmetry
INVARIANT ArenaSound
PROPERTY LastFreeEmpties
CHECK_DEADLOCK FALSE
