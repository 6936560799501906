SPECIFICATION StrSpec
CONSTANTS
  StrThreads = {t1, t2}
  Bytes = {"b"}
  Shorts = {"OK", "s"}
  Longs = {"l"}
  Huge = {"h"}
  OKText = "OK"
  SlabCap = 1
  MaxNodes = 3
  Wiped = "0"
  NoThread = NoThread
INVARIANT FreshSealVerifies
CHECK_DEADLOCK FALSE
