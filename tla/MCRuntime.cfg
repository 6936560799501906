SPECIFICATION RSpec
CONSTANTS
  t1 = t1
  t2 = t2
  NetThreads = {t1, t2}
  NSlots = 2
  NFds = 3
  Children = {p1, p2}
  Files = {"f"}
  WinSizes = {1, 2}
  Self = Self
  NotSaved = NotSaved
  AnyPid = AnyPid
  WalThreads = {t1, t2}
  RecLen = 2
  MaxRecs = 3
  MaxErrs = 1
  ObThreads = {t1, t2}
  Events = {"seal", "open"}
  Names = {"mine"}
  MetricsMax = 2
  MaxSubs = 2
  MaxEmits = 2
  BbThreads = {t1, t2}
  RingCap = 2
  MaxEvents = 6
  Sigs = {"SEGV", "ABRT"}
  MemThreads = {t1, t2}
  Addrs = {a1, a2}
  RawSizes = {1, 2}
  BaseQuota = 16
  Raises = {6}
  MaxQuota = 22
  Maps = {m1, m2, m3}
  Pages = {1, 2}
  GlThreads = {t1, t2}
  Dims <- MCDims
  Lens <- MCLens
  MaxHead = 1
  FetchThreads = {t1, t2}
  NFetchFds = 2
  NAddrs = 2
  ReqLen = 2
  HaveOpenssl = TRUE
SYMMETRY Symmetry
INVARIANTS DescriptorHasOneHolder   EventsCounted RingShowsLatest
             FetchSettled
CHECK_DEADLOCK FALSE
