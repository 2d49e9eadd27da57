SPECIFICATION Spec
CONSTANTS
  t1 = t1
  t2 = t2
  p1 = p1
  p2 = p2
  lan1 = lan1
  lan2 = lan2
  NoPort = NoPort
  NoThread = NoThread
  Dbs = {1}
  LastMac = 2
  Ports = {lan1, lan2}
  HighPorts = {lan2}
  Procs = {p1}
  Threads = {t1}
  ProcOf <- OneProcess
  Calls <- LookupCalls
  Learning = FALSE
  IoMayFail = FALSE
INVARIANTS
  FindExact
