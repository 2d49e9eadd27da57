SPECIFICATION Spec
CONSTANTS
  Procs = {c1}
  Regs = {portCtrl, portStatus}
  Vals = {0, 1}
  InitVal = 0
  SeqMod = 3
  Limit = 2
  NetCap = 2
  RxCap = 2
  Lossy = TRUE
  Foreign = {TRUE}
  MayFail = TRUE
  MaxFails = 2
INVARIANTS
  TypeOK
  OwnAnswer
  AnswerIsCurrent
PROPERTIES
  InOrder
CHECK_DEADLOCK FALSE
