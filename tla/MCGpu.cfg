SPECIFICATION DSpec
CONSTANTS
  t1 = t1
  t2 = t2
  b1 = b1
  b2 = b2
  b3 = b3
  p1 = p1
  p2 = p2
  p3 = p3
  o1 = o1
  o2 = o2
  Threads = {t1, t2}
  Owners = {t1}
  Streamers = {t1}
  NHandles = 2
  NStreams = 2
  NPending = 2
  NBins = 3
  Sizes = {1, 3}
  Blocks = {b1, b2, b3}
  Ptrs = {p1, p2, p3}
  StreamObjs = {o1, o2}
  MaxDma = 2
  SyncFails = FALSE
  Null = Null
  Block = 4
  Wave = 2
  Tile = 2
  MaxGrid = 2
  Cube <- MCCube
  MaxDHead = 2
  Shapes <- MCShapes
SYMMETRY Symmetry
INVARIANTS  KernelMatches
CHECK_DEADLOCK FALSE
