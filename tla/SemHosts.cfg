SPECIFICATION Spec
CONSTANTS
  t1 = t1
  t2 = t2
  p1 = p1
  p2 = p2
  Procs = {p1, p2}
  Threads = {t1, t2}
  ProcOf <- OneThreadEach
  Channel <- SmiAndRmu
  ApiSems = {atuRegsSem}
  Multi = multiAddrSem
  MaxCnt = 4
  MaxPosts = 2
  Waiting = {p1}
  HwAtStart = TRUE
  Toggling = {p1, p2}
  Failing = {p2}
INVARIANTS
  CountsNesting
  IdleReleasesHw
PROPERTIES
  ReleasedByOutermost
