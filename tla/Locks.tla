------------------------------- MODULE Locks --------------------------------
(***************************************************************************)
(* What the callers of msdSemTake and msdSemGive rely on: the semaphores   *)
(* of a process are locks, taken by one of its threads at a time, a table  *)
(* semaphore first, multiAddrSem innermost, and given back by the thread   *)
(* that took them in the reverse order.  Each process has its own.         *)
(***************************************************************************)
CONSTANTS
  Threads,
  ProcOf,    \* the process of each thread
  ApiSems,   \* table semaphores
  Multi      \* multiAddrSem

Sems == ApiSems \cup {Multi}

VARIABLE holds   \* the locks each thread has

Init == holds = [t \in Threads |-> {}]

Free(p, s) == \A u \in Threads : ProcOf[u] = p => s \notin holds[u]

Take(t, s) ==
  /\ holds[t] # {} => s = Multi
  /\ Free(ProcOf[t], s)
  /\ holds' = [holds EXCEPT ![t] = @ \cup {s}]

Give(t, s) ==
  /\ s \in holds[t]
  /\ Multi \in holds[t] => s = Multi
  /\ holds' = [holds EXCEPT ![t] = @ \ {s}]

Next == \E t \in Threads, s \in Sems : Take(t, s) \/ Give(t, s)

Spec == Init /\ [][Next]_holds
=============================================================================
