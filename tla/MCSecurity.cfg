SPECIFICATION GSpec
CONSTANTS
  t1 = t1
  t2 = t2
  c1 = c1
  c2 = c2
  k1 = k1
  k2 = k2
  n1 = n1
  n2 = n2
  FsThreads = {t1, t2}
  DirCacheMax = 2
  ReadDirs <- MCReadDirs
  WriteDirs <- MCWriteDirs
  Abis = {0, 5}
  Masks = {{"NET"}, {"SYS", "FSWRITE"}}
  Limits = {0, 1, 2}
  CapThreads = {t1, t2}
  Kinds = {"fs", "fsread", "audio", "time", "alloc", "ffi"}
  MaxPath = 4
  MaxChain = 3
  FfiThreads = {t1, t2}
  Libs = {"a", "b", "c"}
  Admitted = {"a", "b"}
  FfiSlots = 1
  MaxOpens = 4
  NoLib = NoLib
  StrThreads = {t1, t2}
  Bytes = {"b"}
  Shorts = {"OK", "s"}
  Longs = {"l"}
  Huge = {"h"}
  OKText = "OK"
  SlabCap = 1
  MaxNodes = 3
  Wiped = "0"
  NoThread = NoThread
  CapKeys = {c1, c2}
  AeadKeys = {k1, k2}
  Nonces = {n1, n2}
  Plains = {"p", "q", "e"}
  LongPlains = {"q"}
  NoBytes = "e"
  Garbled = "g"
  MaxSeals = 2
SYMMETRY Symmetry
INVARIANTS   GateExact  RegisteredLoaded
           InternUnique 
 
CHECK_DEADLOCK FALSE
