SPECIFICATION Spec
CONSTANTS
  Threads = {t1, t2}
  Owners = {t1, t2}
  Streamers = {}
  NHandles = 2
  NStreams = 2
  NPending = 2
  NBins = 3
  Sizes = {1, 3}
  Blocks = {b1, b2, b3}
  Ptrs = {p1, p2, p3}
  StreamObjs = {o1, o2}
  MaxDma = 2
  SyncFails = FALSE
  Null = Null
INVARIANT HandlesBacked
CHECK_DEADLOCK FALSE
