SPECIFICATION PSpec
CONSTANTS
  t1 = t1
  t2 = t2
  r1 = r1
  Threads = {t1, t2, t3}
  Refs = {r1, r2, r3, r4}
  MaxCount = 6
  None = None
  ExecThreads = {t1, t2}
  Outputs <- MCOutputs
  PipeCap = 1
  MaxOut = 2
  MaxExecs = 2
  Clients = {k1, k2, k3}
  NConns = 2
  NoClient = NoClient
  Callers = {c1, c2, c3}
  JSlots = {0, 1}
  MaxSpawns = 4
  NoOne = NoOne
INVARIANTS PayloadLive NoUseAfterFree  AnswerToAsker WorkerKeepsSlot
PROPERTIES EventuallyFreed  RequestsEnd JoinEnds
CHECK_DEADLOCK FALSE
