SPECIFICATION FairSpec
CONSTANTS
  t1 = t1
  t2 = t2
  p1 = p1
  p2 = p2
  Procs = {p1}
  Threads = {t1, t2}
  ProcOf <- OneProcess
  Channel <- AllSmi
  ApiSems = {atuRegsSem, vtuRegsSem}
  Multi = multiAddrSem
  MaxCnt = 4
  MaxPosts = 2
  Waiting = {p1}
  HwAtStart = TRUE
  Toggling = {}
  Failing = {}
INVARIANTS
  TypeOK
  SwMutex
  NoCircularWait
PROPERTIES
  SemaphoresAreLocks
  OperationsEnd
