SPECIFICATION Spec
SYMMETRY Symmetry
CONSTANTS
  Threads = {t1, t2}
  Refs = {r1, r2, r3}
  Blocks = {b1, b2}
  Vals = {v1, v2}
  InitCap = 2
  ALIGN = 1
  Quota = 8
  MaxLen = 3
  MaxGot = 1
  MaxErc = 2
  InArena = FALSE
  Family = "flat"
  None = None
INVARIANT ListSound
PROPERTY ValuesStay
