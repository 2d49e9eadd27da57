------------------------------- MODULE MsdSem -------------------------------
(***************************************************************************)
(* The driver's semaphores: platform/msdSem.c over the BSP's semaphores    *)
(* and over the switch's hardware semaphore register (Global 1, 0x15).     *)
(*                                                                         *)
(* A driver operation takes the semaphore of the table it works on, then,  *)
(* for every register access, takes and gives multiAddrSem; it ignores     *)
(* what msdSemTake returns.  A process is an address space with its own    *)
(* copy of the device structure, of refCnt and of the semaphores: the      *)
(* Linux CLI server forks one per client, the Windows one runs all its     *)
(* clients as threads of one process.                                      *)
(***************************************************************************)
EXTENDS Integers, FiniteSets

CONSTANTS
  Procs,       \* processes
  Threads,     \* threads
  ProcOf,      \* the process of each thread
  Channel,     \* dev->InterfaceChannel of each process
  ApiSems,     \* table semaphores (atuRegsSem, vtuRegsSem, ...)
  Multi,       \* multiAddrSem
  MaxCnt,      \* refCnt is unsigned and wraps: it is counted modulo MaxCnt
  MaxPosts,    \* a semaphore posted further than this is not told apart
  Waiting,     \* processes whose BSP waits when it is called with OS_WAIT_FOREVER
  HwAtStart,   \* is the hardware semaphore enabled when the threads start
  Toggling,    \* processes in which a thread may enable or disable it later
  Failing      \* processes whose accesses to the semaphore register may fail

Sems == ApiSems \cup {Multi}
Channels == {"SMI", "SMI_MULTICHIP", "RMU", "FW_RMU"}

ASSUME MsdSemAssumption ==
  /\ ProcOf \in [Threads -> Procs]
  /\ Channel \in [Procs -> Channels]
  /\ Multi \notin ApiSems
  /\ MaxCnt \in Nat /\ MaxCnt > 3
  /\ MaxPosts \in Nat /\ MaxPosts > 0
  /\ HwAtStart \in BOOLEAN
  /\ UNION {Waiting, Toggling, Failing} \subseteq Procs

VARIABLES
  pc,      \* where each thread is in msdSemTake or msdSemGive
  arg,     \* the semaphore that call is about
  entered, \* the semaphores each thread has called take for and not given back
  got,     \* those of them the BSP did grant
  tmp,     \* the value of refCnt a thread has loaded
  refCnt,  \* static refCnt of each process
  count,   \* value of each BSP semaphore of each process
  hwSem,   \* dev->HWSemaphore of each process
  hwReg    \* the semaphore register of the switch

threadVars == <<pc, arg, entered, got, tmp>>
vars == <<threadVars, refCnt, count, hwSem, hwReg>>

Disable == 0
HwValues == 0..2

\* The value msdEnableHwSemaphore puts into dev->HWSemaphore.
ChannelValue(c) ==
  CASE c \in {"SMI", "SMI_MULTICHIP"} -> 1
    [] c = "RMU"                      -> 2
    [] c = "FW_RMU"                   -> Disable

Own(t) == hwSem[ProcOf[t]]
Inside(t) == entered[t] # {}
Idle(t) == pc[t] = "run" /\ ~Inside(t)
Inc(n) == (n + 1) % MaxCnt
Dec(n) == (n + MaxCnt - 1) % MaxCnt

TypeOK ==
  /\ pc \in [Threads -> {"run", "poll", "claim", "check", "inc", "incStore",
                         "swTake", "dec", "decStore", "clear", "swGive"}]
  /\ arg \in [Threads -> Sems]
  /\ entered \in [Threads -> SUBSET Sems]
  /\ got \in [Threads -> SUBSET Sems]
  /\ tmp \in [Threads -> 0 .. MaxCnt - 1]
  /\ refCnt \in [Procs -> 0 .. MaxCnt - 1]
  /\ count \in [Procs -> [Sems -> 0 .. MaxPosts]]
  /\ hwSem \in [Procs -> HwValues]
  /\ hwReg \in HwValues

Init ==
  /\ pc = [t \in Threads |-> "run"]
  /\ arg = [t \in Threads |-> Multi]
  /\ entered = [t \in Threads |-> {}]
  /\ got = [t \in Threads |-> {}]
  /\ tmp = [t \in Threads |-> 0]
  /\ refCnt = [p \in Procs |-> 0]
  /\ count = [p \in Procs |-> [s \in Sems |-> 1]]
  /\ hwSem = [p \in Procs |-> IF HwAtStart THEN ChannelValue(Channel[p]) ELSE Disable]
  /\ hwReg = 0

Goto(t, from, to) == pc[t] = from /\ pc' = [pc EXCEPT ![t] = to]

\* The take returns and the caller goes on, whatever was returned.
Enter(t) == entered' = [entered EXCEPT ![t] = @ \cup {arg[t]}]
Leave(t) == entered' = [entered EXCEPT ![t] = @ \ {arg[t]}]

-----------------------------------------------------------------------------
(* msdSemTake *)

\* Mutant: an operation is made under multiAddrSem and takes its table semaphore then.
MutMayTake(t, s) == s \notin entered[t]

\* An operation takes its table semaphore first and multiAddrSem innermost.
MayTake(t, s) == Inside(t) => s = Multi /\ Multi \notin entered[t]

TakeCall(t, s) ==
  /\ MayTake(t, s)
  /\ Goto(t, "run", IF Own(t) # Disable THEN "poll" ELSE "swTake")
  /\ arg' = [arg EXCEPT ![t] = s]
  /\ UNCHANGED <<entered, got, tmp, refCnt, count, hwSem, hwReg>>

\* Mutant: a nested take is not counted.
MutTakePoll(t) ==
  /\ Goto(t, "poll", IF hwReg = Own(t) THEN "swTake" ELSE "claim")
  /\ UNCHANGED <<arg, entered, got, tmp, refCnt, count, hwSem, hwReg>>

\* The first read of the register.
TakePoll(t) ==
  /\ Goto(t, "poll", IF hwReg = Own(t) THEN "inc" ELSE "claim")
  /\ UNCHANGED <<arg, entered, got, tmp, refCnt, count, hwSem, hwReg>>

\* The register keeps the first value written to it until 0 is written.
TakeClaim(t) ==
  /\ Goto(t, "claim", "check")
  /\ hwReg' = IF hwReg = 0 THEN Own(t) ELSE hwReg
  /\ UNCHANGED <<arg, entered, got, tmp, refCnt, count, hwSem>>

\* Mutant: only a register that reads 0 counts as taken.
MutClaimed(t) == hwReg = 0

Claimed(t) == hwReg \in {0, Own(t)}

TakeCheck(t) ==
  /\ Goto(t, "check", IF Claimed(t) THEN "inc" ELSE "claim")
  /\ UNCHANGED <<arg, entered, got, tmp, refCnt, count, hwSem, hwReg>>

\* refCnt += 1 without a lock: a load, then a store (tmp is dead after it).
TakeInc(t) ==
  /\ Goto(t, "inc", "incStore")
  /\ tmp' = [tmp EXCEPT ![t] = refCnt[ProcOf[t]]]
  /\ UNCHANGED <<arg, entered, got, refCnt, count, hwSem, hwReg>>

TakeIncStore(t) ==
  /\ Goto(t, "incStore", "swTake")
  /\ refCnt' = [refCnt EXCEPT ![ProcOf[t]] = Inc(tmp[t])]
  /\ tmp' = [tmp EXCEPT ![t] = 0]
  /\ UNCHANGED <<arg, entered, got, count, hwSem, hwReg>>

\* Mutant: the take does not wait.
MutTakeSw(t) ==
  /\ Goto(t, "swTake", "run")
  /\ count' = [count EXCEPT ![ProcOf[t]][arg[t]] = @ - 1]
  /\ got' = [got EXCEPT ![t] = @ \cup {arg[t]}]
  /\ Enter(t)
  /\ UNCHANGED <<arg, tmp, refCnt, hwSem, hwReg>>

\* dev->semTake(smid, OS_WAIT_FOREVER) is granted.
TakeSw(t) ==
  /\ Goto(t, "swTake", "run")
  /\ count[ProcOf[t]][arg[t]] > 0
  /\ count' = [count EXCEPT ![ProcOf[t]][arg[t]] = @ - 1]
  /\ got' = [got EXCEPT ![t] = @ \cup {arg[t]}]
  /\ Enter(t)
  /\ UNCHANGED <<arg, tmp, refCnt, hwSem, hwReg>>

\* Mutant: no BSP waits.
MutTakeSwExpires(t) ==
  /\ Goto(t, "swTake", "run")
  /\ count[ProcOf[t]][arg[t]] = 0
  /\ Enter(t)
  /\ UNCHANGED <<arg, got, tmp, refCnt, count, hwSem, hwReg>>

\* The Linux BSP waits until now + 0 ms: it returns an error at once.
TakeSwExpires(t) ==
  /\ ProcOf[t] \notin Waiting
  /\ Goto(t, "swTake", "run")
  /\ count[ProcOf[t]][arg[t]] = 0
  /\ Enter(t)
  /\ UNCHANGED <<arg, got, tmp, refCnt, count, hwSem, hwReg>>

\* An access to the register fails: msdSemTake returns before semTake.
TakeError(t) ==
  /\ ProcOf[t] \in Failing
  /\ pc[t] \in {"poll", "claim", "check"}
  /\ pc' = [pc EXCEPT ![t] = "run"]
  /\ Enter(t)
  /\ UNCHANGED <<arg, got, tmp, refCnt, count, hwSem, hwReg>>

-----------------------------------------------------------------------------
(* msdSemGive *)

\* and gives them back in the reverse order
MayGive(t, s) == s \in entered[t] /\ (Multi \in entered[t] => s = Multi)

GiveCall(t, s) ==
  /\ MayGive(t, s)
  /\ Goto(t, "run", IF Own(t) # Disable THEN "dec" ELSE "swGive")
  /\ arg' = [arg EXCEPT ![t] = s]
  /\ UNCHANGED <<entered, got, tmp, refCnt, count, hwSem, hwReg>>

GiveDec(t) ==
  /\ Goto(t, "dec", "decStore")
  /\ tmp' = [tmp EXCEPT ![t] = refCnt[ProcOf[t]]]
  /\ UNCHANGED <<arg, entered, got, refCnt, count, hwSem, hwReg>>

\* Mutant: the test for 0 is made before the decrement.
MutGiveDecStore(t) ==
  /\ Goto(t, "decStore", IF tmp[t] = 0 THEN "clear" ELSE "swGive")
  /\ refCnt' = [refCnt EXCEPT ![ProcOf[t]] = Dec(tmp[t])]
  /\ tmp' = [tmp EXCEPT ![t] = 0]
  /\ UNCHANGED <<arg, entered, got, count, hwSem, hwReg>>

\* The test for 0 is on the value just stored.
GiveDecStore(t) ==
  /\ Goto(t, "decStore", IF Dec(tmp[t]) = 0 THEN "clear" ELSE "swGive")
  /\ refCnt' = [refCnt EXCEPT ![ProcOf[t]] = Dec(tmp[t])]
  /\ tmp' = [tmp EXCEPT ![t] = 0]
  /\ UNCHANGED <<arg, entered, got, count, hwSem, hwReg>>

GiveClear(t) ==
  /\ Goto(t, "clear", "swGive")
  /\ hwReg' = 0
  /\ UNCHANGED <<arg, entered, got, tmp, refCnt, count, hwSem>>

\* dev->semGive(smid): a post, whether or not the take was granted.
GiveSw(t) ==
  /\ Goto(t, "swGive", "run")
  /\ count' = [count EXCEPT ![ProcOf[t]][arg[t]] = IF @ < MaxPosts THEN @ + 1 ELSE @]
  /\ got' = [got EXCEPT ![t] = @ \ {arg[t]}]
  /\ Leave(t)
  /\ UNCHANGED <<arg, tmp, refCnt, hwSem, hwReg>>

\* The write of 0 fails: msdSemGive returns before semGive.
GiveError(t) ==
  /\ ProcOf[t] \in Failing
  /\ Goto(t, "clear", "run")
  /\ Leave(t)
  /\ got' = [got EXCEPT ![t] = @ \ {arg[t]}]
  /\ UNCHANGED <<arg, tmp, refCnt, count, hwSem, hwReg>>

-----------------------------------------------------------------------------
(* msdEnableHwSemaphore and msdDisableHwSemaphore, both of which return    *)
(* MSD_OK: a CLI command a thread runs between two operations.             *)

EnableHwSemaphore(t) ==
  /\ ProcOf[t] \in Toggling
  /\ Idle(t)
  /\ hwSem' = [hwSem EXCEPT ![ProcOf[t]] = ChannelValue(Channel[ProcOf[t]])]
  /\ UNCHANGED <<threadVars, refCnt, count, hwReg>>

DisableHwSemaphore(t) ==
  /\ ProcOf[t] \in Toggling
  /\ Idle(t)
  /\ hwSem' = [hwSem EXCEPT ![ProcOf[t]] = Disable]
  /\ UNCHANGED <<threadVars, refCnt, count, hwReg>>

-----------------------------------------------------------------------------
\* What a thread does inside msdSemTake and msdSemGive.
Step(t) ==
  \/ TakePoll(t) \/ TakeClaim(t) \/ TakeCheck(t)
  \/ TakeInc(t) \/ TakeIncStore(t) \/ TakeSw(t) \/ TakeSwExpires(t)
  \/ GiveDec(t) \/ GiveDecStore(t) \/ GiveClear(t) \/ GiveSw(t)

Next ==
  \E t \in Threads :
    \/ \E s \in Sems : TakeCall(t, s) \/ GiveCall(t, s)
    \/ Step(t)
    \/ TakeError(t) \/ GiveError(t)
    \/ EnableHwSemaphore(t) \/ DisableHwSemaphore(t)

Spec == Init /\ [][Next]_vars

(***************************************************************************)
(* A thread is scheduled, its accesses complete, a waiter of a semaphore   *)
(* that is given again and again is woken, and an operation ends: it gives *)
(* its semaphore back although it could make one more register access.     *)
(***************************************************************************)
Fairness ==
  \A t \in Threads :
    /\ WF_vars(Step(t))
    /\ SF_vars(\E s \in ApiSems : GiveCall(t, s))
    /\ WF_vars(GiveCall(t, Multi))
    /\ SF_vars(TakeSw(t))

FairSpec == Spec /\ Fairness

-----------------------------------------------------------------------------
(* Properties *)

Holders(p, s) == {t \in Threads : ProcOf[t] = p /\ s \in got[t]}

\* Processes whose BSP waits and whose accesses to the register all succeed.
Sound == Waiting \ Failing
SoundThreads == {t \in Threads : ProcOf[t] \in Sound}

(***************************************************************************)
(* The BSP's grants exclude each other: two threads of a process are never *)
(* both granted a semaphore, and it is free exactly when nobody has it.    *)
(* A give after a take that failed would break both.  What becomes of the  *)
(* takes of other processes does not matter.                               *)
(***************************************************************************)
SwMutex ==
  \A p \in Sound, s \in Sems :
    /\ \A t, u \in Holders(p, s) : t = u
    /\ count[p][s] = (IF Holders(p, s) = {} THEN 1 ELSE 0)

L == INSTANCE Locks WITH Threads <- SoundThreads, holds <- [t \in SoundThreads |-> got[t]]

(***************************************************************************)
(* To the code between a take and its give the semaphores are locks: the   *)
(* polling of the register, refCnt and the two commands change nothing     *)
(* about who has which, and what msdSemTake returns can be ignored.        *)
(***************************************************************************)
SemaphoresAreLocks == L!Spec

Blocked(t) == pc[t] = "swTake" /\ count[ProcOf[t]][arg[t]] = 0

(***************************************************************************)
(* Threads that wait for semaphores do not wait in a circle: some thread   *)
(* has the semaphore one waits for, and that thread goes on, or waits for  *)
(* multiAddrSem of one that goes on (msdSem.c:212).                        *)
(***************************************************************************)
NoCircularWait ==
  \A t \in SoundThreads :
    Blocked(t) =>
      \E u \in Holders(ProcOf[t], arg[t]) :
        Blocked(u) => arg[u] = Multi /\ \E v \in Holders(ProcOf[t], Multi) : ~Blocked(v)

(***************************************************************************)
(* Two processes on different interfaces are never inside an operation at  *)
(* the same time.                                                          *)
(***************************************************************************)
HwExclusive ==
  \A t, u \in Threads :
    Inside(t) /\ Inside(u) /\ Own(t) # Disable /\ Own(u) # Disable => Own(t) = Own(u)

\* refCnt is no subject of a race, and every access to the register succeeds
Undisturbed ==
  {t \in Threads : ProcOf[t] \notin Failing /\ \A u \in Threads : ProcOf[u] = ProcOf[t] => u = t}

(***************************************************************************)
(* refCnt counts the nested takes of a process with one thread exactly:    *)
(* when it is not in the middle of the arithmetic it finds in refCnt how   *)
(* deep it is, also after it enabled or disabled the hardware semaphore.   *)
(***************************************************************************)
Depth(t) == Cardinality(entered[t])
CountsNesting ==
  \A t \in Undisturbed :
    pc[t] = "run" => refCnt[ProcOf[t]] = (IF Own(t) # Disable THEN Depth(t) ELSE 0)

(***************************************************************************)
(* When its thread is in no operation, such a process has not left the     *)
(* hardware semaphore taken for the other interfaces, whatever the         *)
(* processes on those do with the register.                                *)
(***************************************************************************)
IdleReleasesHw ==
  \A t \in Undisturbed :
    Idle(t) => hwReg = 0 \/ hwReg # ChannelValue(Channel[ProcOf[t]])

(***************************************************************************)
(* A nested give never releases the hardware semaphore: the write of 0     *)
(* comes from a thread that gives back its last semaphore.                 *)
(***************************************************************************)
ReleasedByOutermost ==
  [][\A t \in Undisturbed : GiveClear(t) => Depth(t) = 1]_vars

(***************************************************************************)
(* Every operation that starts ends: no order of takes and gives, with the *)
(* nesting the code uses, makes the threads wait for each other.           *)
(***************************************************************************)
OperationsEnd == \A t \in Threads : ~Idle(t) ~> Idle(t)

=============================================================================
