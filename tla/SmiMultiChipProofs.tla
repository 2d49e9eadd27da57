------------------------- MODULE SmiMultiChipProofs -------------------------
(***************************************************************************)
(* Register access over a multi-chip SMI bus is atomic for the threads of  *)
(* one process, whatever their number, the registers, the length of the    *)
(* polling loops and the bus accesses that fail.                           *)
(***************************************************************************)
EXTENDS SmiMultiChip, TLAPS

OneProcess == \A t, u \in Threads : ProcOf[t] = ProcOf[u]

Locked(t) == pc[t] \in {"wait", "data", "cmd", "waitRead", "fetch", "give"}

\* multiAddrSem is with the thread that is inside an access.
LockInv == \A t \in Threads : Locked(t) <=> holder[ProcOf[t]] = t

\* What that thread relies on, step by step.
BusInv ==
  \A t \in Threads :
    /\ pc[t] \in {"data", "cmd", "fetch"} => ~cmd.busy
    /\ pc[t] = "data" => op[t].kind = "write"
    /\ pc[t] = "cmd" /\ op[t].kind = "write" => data = op[t].val
    /\ pc[t] = "waitRead" =>
         /\ op[t].kind = "read" /\ cmd.kind = "read" /\ cmd.reg = op[t].reg
         /\ cmd.busy \/ data = regs[op[t].reg]
    /\ pc[t] = "fetch" => op[t].kind = "read" /\ data = regs[op[t].reg]

SmiInv == TypeOK /\ LockInv /\ BusInv

-----------------------------------------------------------------------------
(***************************************************************************)
(* The parameters a thread is left with between calls are those of a call. *)
(***************************************************************************)
LEMMA FirstOpIsOp == FirstOp \in Ops /\ FirstOp \in RF!Ops
<1>1. SomeReg \in Regs
  BY SmiAssumption DEF SomeReg
<1> QED BY <1>1, SmiAssumption DEF FirstOp, Ops, RF!Ops

(***************************************************************************)
(* The registers, the command and every thread's variables stay in their   *)
(* ranges (msdHwAccess.c:64-190, 1657-1763).                               *)
(***************************************************************************)
LEMMA TypeInit == Init => TypeOK
<1>1. SomeReg \in Regs
  BY SmiAssumption DEF SomeReg
<1> QED
  BY <1>1, SmiAssumption DEF Init, TypeOK, FirstOp, Ops, Commands, Locs

LEMMA TypeStep == TypeOK /\ [Next]_vars => TypeOK'
<1> SUFFICES ASSUME TypeOK, [Next]_vars PROVE TypeOK'
  OBVIOUS
<1> USE SmiAssumption DEF TypeOK, Goto, StartLoop, Result, Locs
<1>0. \A t \in Threads : op[t].kind \in {"read", "write"} /\ op[t].reg \in Regs /\ op[t].val \in Vals
  BY DEF Ops
<1>1. ASSUME NEW t \in Threads, NEW o \in Ops, Call(t, o) PROVE TypeOK'
  BY <1>1 DEF Call
<1>2. ASSUME NEW t \in Threads, Take(t) PROVE TypeOK'
  BY <1>2 DEF Take
<1>3. ASSUME NEW t \in Threads, Give(t) PROVE TypeOK'
  BY <1>3, FirstOpIsOp DEF Give
<1>4. ASSUME NEW t \in Threads, Poll(t) PROVE TypeOK'
  BY <1>4 DEF Poll, Polling, AfterWait
<1>5. ASSUME NEW t \in Threads, PollTimeout(t) PROVE TypeOK'
  BY <1>5 DEF PollTimeout
<1>6. ASSUME NEW t \in Threads, WriteData(t) PROVE TypeOK'
  BY <1>0, <1>6 DEF WriteData
<1>7. ASSUME NEW t \in Threads, WriteCmd(t) PROVE TypeOK'
  BY <1>0, <1>7 DEF WriteCmd, Command, Commands
<1>8. ASSUME NEW t \in Threads, FetchData(t) PROVE TypeOK'
  BY <1>8 DEF FetchData
<1>9. ASSUME NEW t \in Threads, IoError(t) PROVE TypeOK'
  <2>1. cmd' \in Commands
    <3>1. CASE UNCHANGED cmd
      BY <3>1
    <3>2. CASE Command(t)
      BY <1>0, <3>2 DEF Command, Commands
    <3> QED BY <1>9, <3>1, <3>2 DEF IoError
  <2>2. data' \in Vals
    BY <1>0, <1>9 DEF IoError
  <2> QED BY <1>9, <2>1, <2>2 DEF IoError
<1>10. CASE Execute
  <2>1. cmd' \in Commands /\ cmd.reg \in Regs
    BY <1>10 DEF Execute, Commands
  <2>2. regs' \in [Regs -> Vals] /\ data' \in Vals
    BY <1>10, <2>1 DEF Execute
  <2> QED BY <1>10, <2>1, <2>2 DEF Execute
<1>11. CASE UNCHANGED vars
  BY <1>11 DEF vars
<1> QED
  BY <1>1, <1>2, <1>3, <1>4, <1>5, <1>6, <1>7, <1>8, <1>9, <1>10, <1>11 DEF Next, Step

(***************************************************************************)
(* The ranges hold in every state, for any processes and bypasses.         *)
(***************************************************************************)
THEOREM TypeCorrect == Spec => []TypeOK
BY TypeInit, TypeStep, PTL DEF Spec

-----------------------------------------------------------------------------
(***************************************************************************)
(* Every step of an access keeps the lock with its owner and what the      *)
(* owner relies on: no other thread touches the bus in between.            *)
(***************************************************************************)
LEMMA SmiInvStep ==
  ASSUME OneProcess, Bypass = {}, SmiInv, [Next]_vars
  PROVE  SmiInv'
<1> USE SmiAssumption DEF SmiInv, LockInv, BusInv, OneProcess, Locked,
      TypeOK, Goto, StartLoop, Result
<1>0. TypeOK'
  BY TypeStep
<1>1. ASSUME NEW t \in Threads, NEW o \in Ops, Call(t, o) PROVE SmiInv'
  BY <1>0, <1>1 DEF Call
<1>2. ASSUME NEW t \in Threads, Take(t) PROVE SmiInv'
  BY <1>0, <1>2 DEF Take
<1>3. ASSUME NEW t \in Threads, Give(t) PROVE SmiInv'
  BY <1>0, <1>3, FirstOpIsOp DEF Give
<1>4. ASSUME NEW t \in Threads, Poll(t) PROVE SmiInv'
  BY <1>0, <1>4 DEF Poll, Polling, AfterWait, Ops
<1>5. ASSUME NEW t \in Threads, PollTimeout(t) PROVE SmiInv'
  BY <1>0, <1>5 DEF PollTimeout, Polling
<1>6. ASSUME NEW t \in Threads, WriteData(t) PROVE SmiInv'
  BY <1>0, <1>6 DEF WriteData
<1>7. ASSUME NEW t \in Threads, WriteCmd(t) PROVE SmiInv'
  BY <1>0, <1>7 DEF WriteCmd, Command
<1>8. ASSUME NEW t \in Threads, FetchData(t) PROVE SmiInv'
  BY <1>0, <1>8 DEF FetchData
<1>9. ASSUME NEW t \in Threads, IoError(t) PROVE SmiInv'
  BY <1>0, <1>9 DEF IoError, Command
<1>10. CASE Execute
  BY <1>0, <1>10 DEF Execute, Commands
<1>11. CASE UNCHANGED vars
  BY <1>0, <1>11 DEF vars
<1> QED
  BY <1>1, <1>2, <1>3, <1>4, <1>5, <1>6, <1>7, <1>8, <1>9, <1>10, <1>11 DEF Next, Step
(***************************************************************************)
(* The lock and the bus are as their owner expects in every state.         *)
(***************************************************************************)
LEMMA SmiInvHolds ==
  ASSUME OneProcess, Bypass = {}
  PROVE  Spec => []SmiInv
<1>1. Init => SmiInv
  <2>1. ASSUME Init PROVE LockInv /\ BusInv
    BY <2>1, SmiAssumption DEF Init, LockInv, BusInv, Locked
  <2> QED BY <2>1, TypeInit DEF SmiInv
<1>2. SmiInv /\ [Next]_vars => SmiInv'
  BY SmiInvStep
<1> QED
  BY <1>1, <1>2, PTL DEF Spec

-----------------------------------------------------------------------------
USE DEF RF!vars, RF!Done, RF!Store

(***************************************************************************)
(* A step of the driver or of the switch is a step of RegFile: the write   *)
(* of the command register is the write of the register, the read of the   *)
(* data register is the read of the register, and polling, locking and the *)
(* switch's own work are invisible.                                        *)
(***************************************************************************)
LEMMA RefinementStep ==
  ASSUME Bypass = {}, SmiInv, [Next]_vars
  PROVE  [RF!Next]_(RF!vars)
<1> USE SmiAssumption DEF SmiInv, BusInv, TypeOK, Goto, Result, Visible, Phase
<1>0. \A t \in Threads : op[t].reg \in Regs /\ op[t].kind \in {"read", "write"}
  BY DEF Ops
<1>1. ASSUME NEW t \in Threads, NEW o \in Ops, Call(t, o) PROVE RF!Call(t, o) /\ o \in RF!Ops
  BY <1>1 DEF Call, RF!Call, Ops, RF!Ops
<1>2. ASSUME NEW t \in Threads, Take(t) PROVE UNCHANGED RF!vars
  BY <1>2 DEF Take
<1>3. ASSUME NEW t \in Threads, Give(t) PROVE RF!Return(t)
  BY <1>3, FirstOpIsOp DEF Give, RF!Return
<1>4. ASSUME NEW t \in Threads, Poll(t) PROVE UNCHANGED RF!vars
  BY <1>4 DEF Poll, Polling, AfterWait
<1>5. ASSUME NEW t \in Threads, PollTimeout(t) PROVE RF!Fail(t)
  BY <1>5 DEF PollTimeout, Polling, RF!Fail
<1>6. ASSUME NEW t \in Threads, WriteData(t) PROVE UNCHANGED RF!vars
  BY <1>6 DEF WriteData
<1>7. ASSUME NEW t \in Threads, WriteCmd(t), op[t].kind = "read" PROVE UNCHANGED RF!vars
  BY <1>7 DEF WriteCmd, Command
<1>8. ASSUME NEW t \in Threads, WriteCmd(t), op[t].kind = "write" PROVE RF!Write(t)
  BY <1>0, <1>8 DEF WriteCmd, Command, RF!Write
<1>9. ASSUME NEW t \in Threads, FetchData(t) PROVE RF!Read(t)
  BY <1>0, <1>9 DEF FetchData, RF!Read
<1>10. ASSUME NEW t \in Threads, IoError(t) PROVE RF!Fail(t)
  <2>1. UNCHANGED Visible \/ (op[t].kind = "write" /\ Visible' = [Visible EXCEPT ![op[t].reg] = op[t].val])
    <3>1. CASE UNCHANGED <<cmd, data>>
      BY <1>10, <3>1 DEF IoError
    <3>2. CASE pc[t] = "data"
      BY <1>10, <3>2 DEF IoError
    <3>3. CASE pc[t] = "cmd" /\ Command(t) /\ UNCHANGED data
      BY <1>0, <1>10, <3>3 DEF IoError, Command
    <3> QED BY <1>10, <3>1, <3>2, <3>3 DEF IoError
  <2>2. Phase[t] = "called" /\ Phase' = [Phase EXCEPT ![t] = "done"]
    BY <1>10 DEF IoError
  <2> HIDE DEF Visible, Phase
  <2> QED BY <1>10, <2>1, <2>2 DEF IoError, RF!Fail
<1>11. CASE Execute
  <2>1. UNCHANGED Visible
    BY <1>11 DEF Execute, Commands
  <2>2. UNCHANGED Phase
    BY <1>11 DEF Execute
  <2> QED BY <1>11, <2>1, <2>2 DEF Execute
<1>12. CASE UNCHANGED vars
  BY <1>12 DEF vars
<1> QED
  BY <1>0, <1>1, <1>2, <1>3, <1>4, <1>5, <1>6, <1>7, <1>8, <1>9, <1>10, <1>11, <1>12
  DEF Next, Step, RF!Next

(***************************************************************************)
(* Register access by the threads of one process, to registers other than  *)
(* the bypassed one, implements the register file (msdHwAccess.c:64-190,   *)
(* 1657-1763): what msdGetAnyReg's and msdSetAnyReg's callers assume.      *)
(***************************************************************************)
THEOREM AccessIsAtomic ==
  ASSUME OneProcess, Bypass = {}
  PROVE  Spec => AtomicAccess
<1>1. Spec => []SmiInv
  BY SmiInvHolds
<1>2. Init => RF!Init
  <2> SUFFICES ASSUME Init PROVE RF!Init
    OBVIOUS
  <2>1. op \in [Threads -> RF!Ops]
    <3>1. Ops \subseteq RF!Ops
      BY SmiAssumption DEF Ops, RF!Ops
    <3> QED BY <3>1, TypeInit DEF TypeOK
  <2>2. Visible = [r \in Regs |-> InitVal]
    BY DEF Init, Visible
  <2>3. Phase = [t \in Threads |-> "idle"]
    BY DEF Init, Phase
  <2> QED BY <2>1, <2>2, <2>3 DEF Init, RF!Init
<1>3. SmiInv /\ [Next]_vars => [RF!Next]_(RF!vars)
  BY RefinementStep
<1> QED
  BY <1>1, <1>2, <1>3, PTL DEF Spec, AtomicAccess, RF!Spec

(***************************************************************************)
(* The threads of one process never write to the command or data register  *)
(* of a switch that is executing a command, however their accesses end     *)
(* (msdHwAccess.c:1664-1675, 1738-1749: the loops at their head).          *)
(***************************************************************************)
THEOREM CommandsDoNotOverrun ==
  ASSUME OneProcess, Bypass = {}
  PROVE  Spec => NoOverrun
<1>1. Spec => []SmiInv
  BY SmiInvHolds
<1>2. SmiInv /\ [Next]_vars => [KeepsCommand]_vars
  <2> SUFFICES ASSUME SmiInv, Next PROVE KeepsCommand
    OBVIOUS
  <2> USE DEF SmiInv, BusInv, KeepsCommand, Goto
  <2>1. ASSUME NEW t \in Threads, NEW o \in Ops, Call(t, o) PROVE KeepsCommand
    BY <2>1 DEF Call
  <2>2. ASSUME NEW t \in Threads, Step(t) PROVE KeepsCommand
    BY <2>2 DEF Step, Take, Give, Poll, PollTimeout, WriteData, WriteCmd, FetchData
  <2>3. ASSUME NEW t \in Threads, IoError(t) PROVE KeepsCommand
    BY <2>3 DEF IoError
  <2>4. ASSUME Execute PROVE KeepsCommand
    BY <2>4 DEF Execute, TypeOK, Commands
  <2> QED BY <2>1, <2>2, <2>3, <2>4 DEF Next
<1> QED
  BY <1>1, <1>2, PTL DEF Spec, NoOverrun

-----------------------------------------------------------------------------
(***************************************************************************)
(* A step of thread t inside an access leaves it fewer steps to go.        *)
(***************************************************************************)
LEMMA OwnStep ==
  ASSUME NEW t \in Threads, TypeOK, Step(t) \/ IoError(t)
  PROVE  Remaining(t)' \in 0 .. Remaining(t) - 1
<1> USE SmiAssumption DEF TypeOK, Goto, StartLoop, Result, Remaining
<1>1. CASE Take(t)
  BY <1>1 DEF Take
<1>2. CASE Give(t)
  BY <1>2 DEF Give
<1>3. CASE Poll(t)
  BY <1>3 DEF Poll, Polling, AfterWait
<1>4. CASE PollTimeout(t)
  BY <1>4 DEF PollTimeout, Polling
<1>5. CASE WriteData(t)
  BY <1>5 DEF WriteData
<1>6. CASE WriteCmd(t)
  BY <1>6 DEF WriteCmd
<1>7. CASE FetchData(t)
  BY <1>7 DEF FetchData
<1>8. CASE IoError(t)
  BY <1>8 DEF IoError
<1> QED BY <1>1, <1>2, <1>3, <1>4, <1>5, <1>6, <1>7, <1>8 DEF Step

(***************************************************************************)
(* The steps of the other threads and of the switch leave t where it is.   *)
(***************************************************************************)
LEMMA OthersStep ==
  ASSUME NEW t \in Threads, TypeOK,
         \/ UNCHANGED vars \/ Execute
         \/ \E u \in Threads \ {t} : (\E o \in Ops : Call(u, o)) \/ Step(u) \/ IoError(u)
  PROVE  UNCHANGED <<pc[t], op[t], loops[t], status[t], value[t]>>
<1> USE DEF TypeOK, Goto, StartLoop, Result
<1>1. CASE UNCHANGED vars \/ Execute
  BY <1>1 DEF vars, Execute
<1>2. ASSUME NEW u \in Threads \ {t}, NEW o \in Ops, Call(u, o)
      PROVE  UNCHANGED <<pc[t], op[t], loops[t], status[t], value[t]>>
  BY <1>2 DEF Call
<1>3. ASSUME NEW u \in Threads \ {t}, Step(u) \/ IoError(u)
      PROVE  UNCHANGED <<pc[t], op[t], loops[t], status[t], value[t]>>
  BY <1>3 DEF Step, Take, Give, Poll, PollTimeout, WriteData, WriteCmd, FetchData, IoError
<1> QED BY <1>1, <1>2, <1>3

(***************************************************************************)
(* An access is over after at most 2 * AccessLoop + 7 steps of its thread, *)
(* in any number of processes, with any bypasses and however long the      *)
(* switch stays busy (msdHwAccess.c:1657-1763).                            *)
(***************************************************************************)
THEOREM AccessesAreBounded == Spec => BoundedAccess
<1>1. TypeOK /\ [Next]_vars => [\A t \in Threads : OneStepNearer(t)]_vars
  <2> SUFFICES ASSUME TypeOK, Next, NEW t \in Threads, pc[t] # "idle"
               PROVE  OneStepNearer(t)
    BY DEF OneStepNearer
  <2>1. ASSUME NEW o \in Ops, Call(t, o) PROVE FALSE
    BY <2>1 DEF Call, Goto
  <2>2. CASE Step(t) \/ IoError(t)
    BY <2>2, OwnStep DEF OneStepNearer
  <2>3. CASE ~(Step(t) \/ IoError(t))
    BY <2>1, <2>3, OthersStep DEF Next, OneStepNearer
  <2> QED BY <2>2, <2>3
<1> QED
  BY <1>1, TypeCorrect, PTL DEF Spec, BoundedAccess

=============================================================================
