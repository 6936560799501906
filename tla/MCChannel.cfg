SPECIFICATION Spec
CONSTANTS
  Threads = {t1, t2}
  NSlots = 2
  Depth = 2
  Msgs = {m1, m2}
  MaxRefs = 3
  NoThread = NoThread
  Null = Null
  Closed = Closed
INVARIANTS IInv RefsBalanced
PROPERTIES ImplementsFifo
SYMMETRY Symmetry
