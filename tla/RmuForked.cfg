SPECIFICATION Spec
CONSTANTS
  Procs = {c1, c2}
  Regs = {portCtrl, portStatus}
  Vals = {0, 1}
  InitVal = 0
  SeqMod = 4
  Limit = 3
  NetCap = 2
  RxCap = 2
  Lossy = FALSE
  Foreign = {}
  MayFail = FALSE
  MaxFails = 1
INVARIANTS
  OwnAnswer
CHECK_DEADLOCK FALSE
