SPECIFICATION FairSpec
CONSTANTS
  t1 = t1
  t2 = t2
  p1 = p1
  p2 = p2
  lan1 = lan1
  lan2 = lan2
  NoPort = NoPort
  NoThread = NoThread
  Dbs = {1}
  LastMac = 2
  Ports = {lan1}
  HighPorts = {lan1}
  Procs = {p1}
  Threads = {t1, t2}
  ProcOf <- OneProcess
  Calls <- RaceCalls
  Learning = TRUE
  IoMayFail = TRUE
INVARIANTS
  TypeOK
  FindSees
PROPERTIES
  TableAtomic
  CallsReturn
