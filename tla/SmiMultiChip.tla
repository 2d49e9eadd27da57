---------------------------- MODULE SmiMultiChip ----------------------------
(***************************************************************************)
(* Register access over a multi-chip SMI bus: msdSetAnyReg, msdGetAnyReg   *)
(* and below them msdMultiAddrWrite and msdMultiAddrRead, which drive the  *)
(* switch's command and data registers under multiAddrSem.  The switch     *)
(* executes the command it was given while its busy bit is set.            *)
(***************************************************************************)
EXTENDS Integers

CONSTANTS
  Procs,       \* address spaces: each has its own multiAddrSem
  Threads,
  ProcOf,      \* the process of each thread
  Regs,
  Bypass,      \* registers at address 0x15, accessed without the semaphore
  Vals,
  InitVal,
  AccessLoop,  \* MSD_SMI_ACCESS_LOOP
  IoMayFail,   \* may fgtReadMii and fgtWriteMii fail
  NoThread

Ops ==
  [kind : {"read"}, reg : Regs, val : {InitVal}] \cup [kind : {"write"}, reg : Regs, val : Vals]

\* What op and the command register hold before their first use.
SomeReg == CHOOSE r \in Regs : TRUE
FirstOp == [kind |-> "read", reg |-> SomeReg, val |-> InitVal]

ASSUME SmiAssumption ==
  /\ ProcOf \in [Threads -> Procs]
  /\ Regs # {}
  /\ Bypass \subseteq Regs
  /\ InitVal \in Vals
  /\ AccessLoop \in Nat /\ AccessLoop > 0
  /\ IoMayFail \in BOOLEAN
  /\ NoThread \notin Threads

VARIABLES
  pc,      \* where each thread is
  op,      \* the access it makes
  loops,   \* timeOut of the polling loop it is in (0 after it)
  status,  \* retVal
  value,   \* *data
  holder,  \* who has multiAddrSem, in each process
  cmd,     \* MSD_REG_SMI_COMMAND: busy bit and command
  data,    \* MSD_REG_SMI_DATA
  regs     \* the switch's registers

vars == <<pc, op, loops, status, value, holder, cmd, data, regs>>

Locs == {"idle", "take", "wait", "data", "cmd", "waitRead", "fetch", "give"}
Commands == [busy : BOOLEAN, kind : {"read", "write"}, reg : Regs]

TypeOK ==
  /\ pc \in [Threads -> Locs]
  /\ op \in [Threads -> Ops]
  /\ loops \in [Threads -> 0 .. AccessLoop]
  /\ status \in [Threads -> {"MSD_OK", "MSD_FAIL"}]
  /\ value \in [Threads -> Vals]
  /\ holder \in [Procs -> Threads \cup {NoThread}]
  /\ cmd \in Commands
  /\ data \in Vals
  /\ regs \in [Regs -> Vals]

Init ==
  /\ pc = [t \in Threads |-> "idle"]
  /\ op = [t \in Threads |-> FirstOp]
  /\ loops = [t \in Threads |-> 0]
  /\ status = [t \in Threads |-> "MSD_OK"]
  /\ value = [t \in Threads |-> InitVal]
  /\ holder = [p \in Procs |-> NoThread]
  /\ cmd = [busy |-> FALSE, kind |-> "read", reg |-> SomeReg]
  /\ data = InitVal
  /\ regs = [r \in Regs |-> InitVal]

Goto(t, from, to) == pc[t] = from /\ pc' = [pc EXCEPT ![t] = to]
StartLoop(t) == loops' = [loops EXCEPT ![t] = AccessLoop]
Result(t, s) == status' = [status EXCEPT ![t] = s]

-----------------------------------------------------------------------------
(* msdGetAnyReg, msdSetAnyReg *)

\* Mutant: the access is made without multiAddrSem.
MutCall(t, o) ==
  /\ Goto(t, "idle", "wait")
  /\ op' = [op EXCEPT ![t] = o]
  /\ StartLoop(t)
  /\ UNCHANGED <<status, value, holder, cmd, data, regs>>

Call(t, o) ==
  /\ Goto(t, "idle", IF o.reg \in Bypass THEN "wait" ELSE "take")
  /\ op' = [op EXCEPT ![t] = o]
  /\ StartLoop(t)
  /\ UNCHANGED <<status, value, holder, cmd, data, regs>>

Take(t) ==
  /\ holder[ProcOf[t]] = NoThread
  /\ Goto(t, "take", "wait")
  /\ holder' = [holder EXCEPT ![ProcOf[t]] = t]
  /\ UNCHANGED <<op, loops, status, value, cmd, data, regs>>

\* The locals of the call are dead after it.
Give(t) ==
  /\ Goto(t, "give", "idle")
  /\ holder' = IF op[t].reg \in Bypass THEN holder
               ELSE [holder EXCEPT ![ProcOf[t]] = NoThread]
  /\ op' = [op EXCEPT ![t] = FirstOp]
  /\ Result(t, "MSD_OK")
  /\ value' = [value EXCEPT ![t] = InitVal]
  /\ UNCHANGED <<loops, cmd, data, regs>>

-----------------------------------------------------------------------------
(* msdMultiAddrRead, msdMultiAddrWrite *)

Polling(t) == pc[t] \in {"wait", "waitRead"}

AfterWait(t) ==
  IF pc[t] = "waitRead" THEN "fetch"
  ELSE IF op[t].kind = "read" THEN "cmd" ELSE "data"

\* Mutant: a loop that never gives up.
MutPoll(t) ==
  /\ Polling(t)
  /\ loops[t] > 0
  /\ pc' = [pc EXCEPT ![t] = IF cmd.busy THEN @ ELSE AfterWait(t)]
  /\ UNCHANGED <<op, loops, status, value, holder, cmd, data, regs>>

\* Mutant: the bound is tested after the busy bit, and so may be passed.
MutPollLast(t) ==
  /\ Polling(t)
  /\ loops' = [loops EXCEPT ![t] = IF cmd.busy THEN @ - 1 ELSE 0]
  /\ pc' = [pc EXCEPT ![t] = IF cmd.busy THEN @ ELSE AfterWait(t)]
  /\ UNCHANGED <<op, status, value, holder, cmd, data, regs>>

\* One round of a polling loop: the bound is tested before the busy bit.
Poll(t) ==
  /\ Polling(t)
  /\ loops[t] > 0
  /\ loops' = [loops EXCEPT ![t] = IF cmd.busy THEN @ - 1 ELSE 0]
  /\ pc' = [pc EXCEPT ![t] = IF cmd.busy THEN @ ELSE AfterWait(t)]
  /\ UNCHANGED <<op, status, value, holder, cmd, data, regs>>

\* Mutant: a wait that gets no answer is made again.
MutPollTimeout(t) ==
  /\ Polling(t)
  /\ loops[t] = 0
  /\ StartLoop(t)
  /\ UNCHANGED <<pc, op, status, value, holder, cmd, data, regs>>

PollTimeout(t) ==
  /\ Polling(t)
  /\ loops[t] = 0
  /\ pc' = [pc EXCEPT ![t] = "give"]
  /\ Result(t, "MSD_FAIL")
  /\ UNCHANGED <<op, loops, value, holder, cmd, data, regs>>

WriteData(t) ==
  /\ Goto(t, "data", "cmd")
  /\ data' = op[t].val
  /\ UNCHANGED <<op, loops, status, value, holder, cmd, regs>>

Command(t) == cmd' = [busy |-> TRUE, kind |-> op[t].kind, reg |-> op[t].reg]

\* A write returns without waiting for the switch to execute it.
WriteCmd(t) ==
  /\ Goto(t, "cmd", IF op[t].kind = "read" THEN "waitRead" ELSE "give")
  /\ Command(t)
  /\ IF op[t].kind = "read" THEN StartLoop(t) ELSE UNCHANGED loops
  /\ status' = IF op[t].kind = "read" THEN status ELSE [status EXCEPT ![t] = "MSD_OK"]
  /\ UNCHANGED <<op, value, holder, data, regs>>

FetchData(t) ==
  /\ Goto(t, "fetch", "give")
  /\ value' = [value EXCEPT ![t] = data]
  /\ Result(t, "MSD_OK")
  /\ UNCHANGED <<op, loops, holder, cmd, data, regs>>

\* A bus access fails; what it was to write may have reached the switch.
IoError(t) ==
  /\ IoMayFail
  /\ pc[t] \in {"wait", "data", "cmd", "waitRead", "fetch"}
  /\ pc' = [pc EXCEPT ![t] = "give"]
  /\ Result(t, "MSD_FAIL")
  /\ \/ UNCHANGED <<cmd, data>>
     \/ pc[t] = "data" /\ data' = op[t].val /\ UNCHANGED cmd
     \/ pc[t] = "cmd" /\ Command(t) /\ UNCHANGED data
  /\ loops' = [loops EXCEPT ![t] = 0]
  /\ UNCHANGED <<op, value, holder, regs>>

-----------------------------------------------------------------------------
\* The switch executes the command and clears the busy bit.
Execute ==
  /\ cmd.busy
  /\ cmd' = [cmd EXCEPT !.busy = FALSE]
  /\ IF cmd.kind = "write"
     THEN regs' = [regs EXCEPT ![cmd.reg] = data] /\ UNCHANGED data
     ELSE data' = regs[cmd.reg] /\ UNCHANGED regs
  /\ UNCHANGED <<pc, op, loops, status, value, holder>>

Step(t) ==
  \/ Take(t) \/ Give(t)
  \/ Poll(t) \/ PollTimeout(t) \/ WriteData(t) \/ WriteCmd(t) \/ FetchData(t)

Next ==
  \/ \E t \in Threads : (\E o \in Ops : Call(t, o)) \/ Step(t) \/ IoError(t)
  \/ Execute

Spec == Init /\ [][Next]_vars

(***************************************************************************)
(* The threads run and a waiter of multiAddrSem is served in the end.      *)
(* Nothing is assumed of the switch: it may stay busy for ever.            *)
(***************************************************************************)
FairSpec == Spec /\ \A t \in Threads : WF_vars(Step(t)) /\ SF_vars(Take(t))

-----------------------------------------------------------------------------
(* Properties *)

\* A write the switch has yet to execute counts as done: nobody can see it is not.
Visible ==
  IF cmd.busy /\ cmd.kind = "write" THEN [regs EXCEPT ![cmd.reg] = data] ELSE regs

Phase ==
  [t \in Threads |-> CASE pc[t] = "idle" -> "idle"
                       [] pc[t] = "give" -> "done"
                       [] OTHER          -> "called"]

RF == INSTANCE RegFile WITH regs <- Visible, phase <- Phase

(***************************************************************************)
(* An access through the command and data registers is atomic: a read that *)
(* returns MSD_OK stores "the read register's data" (msdHwAccess.c:131),   *)
(* a write is seen by every later access although msdMultiAddrWrite does   *)
(* not wait for it, and one that times out or fails leaves nothing behind  *)
(* that a later access could pick up.                                      *)
(***************************************************************************)
AtomicAccess == RF!Spec

(***************************************************************************)
(* Nobody writes to the command or the data register while the switch is   *)
(* executing a command, also after an access that gave up on it.           *)
(***************************************************************************)
KeepsCommand == cmd.busy => (cmd' = cmd /\ data' = data) \/ ~cmd'.busy
NoOverrun == [][KeepsCommand]_vars

\* The steps a thread may still need, on its longest way through the access.
Remaining(t) ==
  IF pc[t] = "idle" THEN 0
  ELSE IF pc[t] = "give" THEN 1
  ELSE IF pc[t] = "fetch" THEN 2
  ELSE IF pc[t] = "waitRead" THEN 3 + loops[t]
  ELSE IF pc[t] = "cmd" THEN 4 + AccessLoop
  ELSE IF pc[t] = "data" THEN 5 + AccessLoop
  ELSE IF pc[t] = "wait" THEN 6 + AccessLoop + loops[t]
  ELSE 7 + 2 * AccessLoop

(***************************************************************************)
(* The two polling loops of an access are bounded together: every step of  *)
(* a thread inside an access leaves fewer steps to its return, whatever    *)
(* the switch, the bus and the other threads do, so that none is ever      *)
(* begun again (msdHwAccess.c:1657-1763).                                  *)
(***************************************************************************)
OneStepNearer(t) ==
  pc[t] # "idle" =>
    \/ Remaining(t)' \in 0 .. Remaining(t) - 1
    \/ UNCHANGED <<pc[t], op[t], loops[t], status[t], value[t]>>
BoundedAccess == [][\A t \in Threads : OneStepNearer(t)]_vars

(***************************************************************************)
(* Every access returns, also from a switch whose busy bit never clears.   *)
(***************************************************************************)
AccessReturns == \A t \in Threads : pc[t] # "idle" ~> pc[t] = "idle"

=============================================================================
