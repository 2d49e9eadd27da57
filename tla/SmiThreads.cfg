SPECIFICATION FairSpec
CONSTANTS
  t1 = t1
  t2 = t2
  p1 = p1
  p2 = p2
  NoThread = NoThread
  Procs = {p1}
  Threads = {t1, t2}
  ProcOf <- OneProcess
  Regs = {portCtrl, hwSemaphore}
  Bypass = {}
  Vals = {0, 1}
  InitVal = 0
  AccessLoop = 2
  IoMayFail = TRUE
INVARIANTS
  TypeOK
PROPERTIES
  AtomicAccess
  NoOverrun
  BoundedAccess
  AccessReturns
