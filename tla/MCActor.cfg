SPECIFICATION FairSpec
CONSTANTS
  Threads = {t1, t2}
  NSlots = 2
  Depth = 2
  Msgs = {m1, m2}
  MaxCopies = 3
  MaxFails = 1
  NoThread = NoThread
INVARIANTS WorkerInLiveSlot LiveActorHasWorker SuperviseOnce CopiesBalanced
PROPERTIES MailboxStays JoinReturns
