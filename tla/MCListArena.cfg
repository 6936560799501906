SPECIFICATION Spec
SYMMETRY Symmetry
CONSTANTS
  Threads = {t1}
  Refs = {r1, r2, r3}
  Blocks = {b1, b2, b3}
  Vals = {v1, v2}
  InitCap = 2
  ALIGN = 1
  Quota = 8
  MaxLen = 3
  MaxGot = 1
  MaxErc = 2
  InArena = TRUE
  Family = "flat"
  None = None
INVARIANTS OwnedIsExclusive
