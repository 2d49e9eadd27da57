---------------------------- MODULE MsdSemProofs ----------------------------
(***************************************************************************)
(* What MsdSem guarantees for every set of processes, threads and          *)
(* semaphores.                                                             *)
(***************************************************************************)
EXTENDS MsdSem, FiniteSetTheorems, TLAPS

Taking == {"poll", "claim", "check", "inc", "incStore", "swTake"}
Giving == {"dec", "decStore", "clear", "swGive"}

\* A thread that is giving a semaphore back, or taking one, respects the nesting.
Nested ==
  \A t \in Threads :
    /\ pc[t] \in Taking => MayTake(t, arg[t])
    /\ pc[t] \in Giving => MayGive(t, arg[t])

\* A semaphore a sound thread came out of the take with is one it was granted.
Granted == \A t \in SoundThreads : entered[t] = got[t]

SwInv == TypeOK /\ Nested /\ Granted /\ SwMutex

(***************************************************************************)
(* The arithmetic on the unsigned refCnt (msdSem.c:172, 255) wraps.        *)
(***************************************************************************)
LEMMA IncDecRange ==
  \A n \in 0 .. MaxCnt - 1 : Inc(n) \in 0 .. MaxCnt - 1 /\ Dec(n) \in 0 .. MaxCnt - 1
BY MsdSemAssumption DEF Inc, Dec

(***************************************************************************)
(* What msdEnableHwSemaphore stores is a value of the semaphore register.  *)
(***************************************************************************)
LEMMA ChannelValueRange == \A p \in Procs : ChannelValue(Channel[p]) \in HwValues
<1>1. \A c \in Channels : ChannelValue(c) \in HwValues
  BY DEF Channels, ChannelValue, HwValues, Disable
<1> QED BY <1>1, MsdSemAssumption

(***************************************************************************)
(* Every step of msdSemTake, msdSemGive and the two commands keeps the     *)
(* variables in their ranges.                                              *)
(***************************************************************************)
LEMMA TypeStep == TypeOK /\ [Next]_vars => TypeOK'
<1> SUFFICES ASSUME TypeOK, [Next]_vars PROVE TypeOK'
  OBVIOUS
<1> USE MsdSemAssumption DEF TypeOK, Goto, Enter, Leave, Own
<1>1. ASSUME NEW t \in Threads, NEW s \in Sems, TakeCall(t, s) PROVE TypeOK'
  BY <1>1 DEF TakeCall
<1>2. ASSUME NEW t \in Threads, NEW s \in Sems, GiveCall(t, s) PROVE TypeOK'
  BY <1>2 DEF GiveCall
<1>3. ASSUME NEW t \in Threads, TakePoll(t) PROVE TypeOK'
  BY <1>3 DEF TakePoll
<1>4. ASSUME NEW t \in Threads, TakeCheck(t) PROVE TypeOK'
  BY <1>4 DEF TakeCheck
<1>5. ASSUME NEW t \in Threads, TakeInc(t) PROVE TypeOK'
  BY <1>5 DEF TakeInc
<1>6. ASSUME NEW t \in Threads, GiveDec(t) PROVE TypeOK'
  BY <1>6 DEF GiveDec
<1>7. ASSUME NEW t \in Threads, TakeClaim(t) PROVE TypeOK'
  BY <1>7 DEF TakeClaim, HwValues
<1>8. ASSUME NEW t \in Threads, GiveClear(t) PROVE TypeOK'
  BY <1>8 DEF GiveClear, HwValues
<1>9. ASSUME NEW t \in Threads, TakeIncStore(t) PROVE TypeOK'
  BY <1>9, IncDecRange DEF TakeIncStore
<1>10. ASSUME NEW t \in Threads, GiveDecStore(t) PROVE TypeOK'
  BY <1>10, IncDecRange DEF GiveDecStore
<1>11. ASSUME NEW t \in Threads, TakeSw(t) PROVE TypeOK'
  BY <1>11 DEF TakeSw
<1>12. ASSUME NEW t \in Threads, GiveSw(t) PROVE TypeOK'
  BY <1>12 DEF GiveSw
<1>13. ASSUME NEW t \in Threads, TakeSwExpires(t) PROVE TypeOK'
  BY <1>13 DEF TakeSwExpires
<1>14. ASSUME NEW t \in Threads, TakeError(t) PROVE TypeOK'
  BY <1>14 DEF TakeError
<1>15. ASSUME NEW t \in Threads, GiveError(t) PROVE TypeOK'
  BY <1>15 DEF GiveError
<1>16. ASSUME NEW t \in Threads, EnableHwSemaphore(t) PROVE TypeOK'
  BY <1>16, ChannelValueRange DEF EnableHwSemaphore, threadVars
<1>17. ASSUME NEW t \in Threads, DisableHwSemaphore(t) PROVE TypeOK'
  BY <1>17 DEF DisableHwSemaphore, threadVars, HwValues, Disable
<1>18. CASE UNCHANGED vars
  BY <1>18 DEF vars, threadVars
<1> QED
  BY <1>1, <1>2, <1>3, <1>4, <1>5, <1>6, <1>7, <1>8, <1>9, <1>10, <1>11, <1>12, <1>13, <1>14, <1>15, <1>16, <1>17, <1>18 DEF Next, Step
(***************************************************************************)
(* The variables of the threads, the counters, the semaphores and the      *)
(* register keep their ranges, whatever the BSP does and whatever fails    *)
(* (msdSem.c:112-279).                                                     *)
(***************************************************************************)
THEOREM TypeCorrect == Spec => []TypeOK
<1>1. Init => TypeOK
  BY MsdSemAssumption, ChannelValueRange
  DEF Init, TypeOK, Sems, HwValues, Disable
<1> QED
  BY <1>1, TypeStep, PTL DEF Spec

-----------------------------------------------------------------------------
(***************************************************************************)
(* Every step keeps the nesting of each thread and, in a process whose BSP *)
(* waits and whose accesses to the register succeed, what each was granted *)
(* and the exclusion of the others.                                        *)
(***************************************************************************)
LEMMA SwInvStep ==
  ASSUME SwInv, [Next]_vars
  PROVE  SwInv'
<1> USE MsdSemAssumption DEF SwInv, TypeOK, Nested, Granted, SwMutex, Holders,
      Sound, SoundThreads, Taking, Giving, Goto, Enter, Leave, MayTake, MayGive, Inside, Own
<1>0. TypeOK'
  BY TypeStep
<1>1. ASSUME NEW t \in Threads, NEW s \in Sems, TakeCall(t, s) PROVE SwInv'
  BY <1>0, <1>1 DEF TakeCall
<1>2. ASSUME NEW t \in Threads, NEW s \in Sems, GiveCall(t, s) PROVE SwInv'
  BY <1>0, <1>2 DEF GiveCall
<1>3. ASSUME NEW t \in Threads, TakePoll(t) PROVE SwInv'
  BY <1>0, <1>3 DEF TakePoll
<1>4. ASSUME NEW t \in Threads, TakeClaim(t) PROVE SwInv'
  BY <1>0, <1>4 DEF TakeClaim
<1>5. ASSUME NEW t \in Threads, TakeCheck(t) PROVE SwInv'
  BY <1>0, <1>5 DEF TakeCheck
<1>6. ASSUME NEW t \in Threads, TakeInc(t) PROVE SwInv'
  BY <1>0, <1>6 DEF TakeInc
<1>7. ASSUME NEW t \in Threads, TakeIncStore(t) PROVE SwInv'
  BY <1>0, <1>7 DEF TakeIncStore
<1>8. ASSUME NEW t \in Threads, TakeSw(t) PROVE SwInv'
  <2>1. Granted' /\ Nested'
    BY <1>8 DEF TakeSw
  <2>2. ASSUME NEW p \in Sound, NEW s \in Sems
        PROVE  /\ \A u, v \in Holders(p, s)' : u = v
               /\ count'[p][s] = (IF Holders(p, s)' = {} THEN 1 ELSE 0)
    <3>1. CASE p = ProcOf[t] /\ s = arg[t]
      <4>1. Holders(p, s) = {} /\ count[p][s] = 1
        <5>1. count[p][s] > 0
          BY <1>8, <3>1 DEF TakeSw
        <5>2. count[p][s] = (IF Holders(p, s) = {} THEN 1 ELSE 0)
          OBVIOUS
        <5> QED BY <5>1, <5>2
      <4>2. Holders(p, s)' = {t}
        <5>1. t \in Holders(p, s)'
          BY <1>8, <3>1 DEF TakeSw
        <5>2. ASSUME NEW u \in Threads, u # t PROVE u \notin Holders(p, s)'
          <6>1. got'[u] = got[u]
            BY <1>8, <5>2 DEF TakeSw
          <6> QED BY <6>1, <4>1
        <5> QED BY <5>1, <5>2
      <4>3. count'[p][s] = 0
        BY <1>8, <3>1, <4>1 DEF TakeSw
      <4> QED BY <4>2, <4>3
    <3>2. CASE ~(p = ProcOf[t] /\ s = arg[t])
      <4>1. Holders(p, s)' = Holders(p, s)
        BY <1>8, <3>2 DEF TakeSw
      <4>2. count'[p][s] = count[p][s]
        BY <1>8, <3>2 DEF TakeSw
      <4> QED BY <4>1, <4>2
    <3> QED BY <3>1, <3>2
  <2> QED BY <1>0, <2>1, <2>2
<1>9. ASSUME NEW t \in Threads, GiveDec(t) PROVE SwInv'
  BY <1>0, <1>9 DEF GiveDec
<1>10. ASSUME NEW t \in Threads, GiveDecStore(t) PROVE SwInv'
  BY <1>0, <1>10 DEF GiveDecStore
<1>11. ASSUME NEW t \in Threads, GiveClear(t) PROVE SwInv'
  BY <1>0, <1>11 DEF GiveClear
<1>12. ASSUME NEW t \in Threads, GiveSw(t) PROVE SwInv'
  <2>1. Granted' /\ Nested'
    BY <1>12 DEF GiveSw
  <2>2. ASSUME NEW p \in Sound, NEW s \in Sems
        PROVE  /\ \A u, v \in Holders(p, s)' : u = v
               /\ count'[p][s] = (IF Holders(p, s)' = {} THEN 1 ELSE 0)
    <3>1. CASE p = ProcOf[t] /\ s = arg[t]
      <4>1. t \in Holders(p, s)
        BY <1>12, <3>1 DEF GiveSw
      <4>2. Holders(p, s)' = {}
        BY <1>12, <3>1, <4>1 DEF GiveSw
      <4>3. count'[p][s] = 1
        <5>1. count[p][s] = 0
          BY <4>1
        <5> QED BY <1>12, <3>1, <5>1 DEF GiveSw
      <4> QED BY <4>2, <4>3
    <3>2. CASE ~(p = ProcOf[t] /\ s = arg[t])
      <4>1. Holders(p, s)' = Holders(p, s)
        BY <1>12, <3>2 DEF GiveSw
      <4>2. count'[p][s] = count[p][s]
        BY <1>12, <3>2 DEF GiveSw
      <4> QED BY <4>1, <4>2
    <3> QED BY <3>1, <3>2
  <2> QED BY <1>0, <2>1, <2>2
<1>13. ASSUME NEW t \in Threads, EnableHwSemaphore(t) PROVE SwInv'
  BY <1>0, <1>13 DEF EnableHwSemaphore, threadVars
<1>14. ASSUME NEW t \in Threads, DisableHwSemaphore(t) PROVE SwInv'
  BY <1>0, <1>14 DEF DisableHwSemaphore, threadVars
<1>15. ASSUME NEW t \in Threads, TakeSwExpires(t) \/ TakeError(t) \/ GiveError(t) PROVE SwInv'
  <2>1. ProcOf[t] \notin Sound
    BY <1>15 DEF TakeSwExpires, TakeError, GiveError
  <2>2. Nested'
    BY <1>15 DEF TakeSwExpires, TakeError, GiveError
  <2>3. UNCHANGED count /\ \A u \in Threads \ {t} : got'[u] = got[u] /\ entered'[u] = entered[u]
    BY <1>15 DEF TakeSwExpires, TakeError, GiveError
  <2>4. \A p \in Sound, s \in Sems : Holders(p, s)' = Holders(p, s)
    BY <2>1, <2>3
  <2>5. Granted'
    BY <2>1, <2>3
  <2> QED BY <1>0, <2>2, <2>3, <2>4, <2>5
<1>16. CASE UNCHANGED vars
  BY <1>0, <1>16 DEF vars, threadVars
<1> QED
  BY <1>1, <1>2, <1>3, <1>4, <1>5, <1>6, <1>7, <1>8, <1>9, <1>10, <1>11, <1>12, <1>13, <1>14, <1>15, <1>16 DEF Next, Step

LEMMA SwInvHolds == Spec => []SwInv
<1>1. Init => SwInv
  <2>1. Init => TypeOK
    BY MsdSemAssumption, ChannelValueRange
    DEF Init, TypeOK, Sems, HwValues, Disable
  <2> QED
    BY <2>1, MsdSemAssumption
       DEF SwInv, Init, Nested, Granted, SwMutex, Holders, Taking, Giving, Sound, SoundThreads
<1> QED
  BY <1>1, SwInvStep, PTL DEF Spec

(***************************************************************************)
(* With a BSP that waits and a register that can be read and written, the  *)
(* threads of a process exclude each other on every semaphore, although    *)
(* the callers ignore what msdSemTake returns (msdSem.c:212-219, 268-275)  *)
(* and whatever the BSP and the register do to other processes.            *)
(***************************************************************************)
THEOREM SemaphoresExclude == Spec => []SwMutex
<1>1. SwInv => SwMutex
  BY DEF SwInv
<1> QED BY <1>1, SwInvHolds, PTL

(***************************************************************************)
(* In such a process the threads that wait for semaphores wait for one     *)
(* that does not: multiAddrSem is taken innermost (msdHwAccess.c), and who *)
(* has it waits for none.                                                  *)
(***************************************************************************)
THEOREM NobodyWaitsInACircle == Spec => []NoCircularWait
<1>1. SwInv => NoCircularWait
  <2> SUFFICES ASSUME SwInv, NEW t \in SoundThreads, Blocked(t)
               PROVE  \E u \in Holders(ProcOf[t], arg[t]) :
                        Blocked(u) => arg[u] = Multi /\
                          \E v \in Holders(ProcOf[t], Multi) : ~Blocked(v)
    BY DEF NoCircularWait
  <2> DEFINE p == ProcOf[t]
  <2>1. t \in Threads /\ p \in Sound /\ p \in Procs /\ arg[t] \in Sems /\ Multi \in Sems
    BY MsdSemAssumption DEF SwInv, TypeOK, SoundThreads, Sound, Sems
  <2>2. ASSUME NEW s \in Sems, count[p][s] = 0 PROVE Holders(p, s) # {}
    BY <2>1, <2>2 DEF SwInv, SwMutex
  <2>3. ASSUME NEW s \in Sems, NEW u \in Holders(p, s), Blocked(u)
        PROVE  s # Multi /\ arg[u] = Multi /\ count[p][Multi] = 0
    <3>1. u \in Threads /\ ProcOf[u] = p /\ s \in entered[u]
      BY <2>1, <2>3 DEF Holders, SwInv, Granted, SoundThreads
    <3>2. MayTake(u, arg[u])
      BY <2>3, <3>1 DEF Blocked, SwInv, Nested, Taking
    <3> QED BY <2>3, <3>1, <3>2 DEF MayTake, Inside, Blocked
  <2>4. PICK u \in Holders(p, arg[t]) : TRUE
    BY <2>1, <2>2 DEF Blocked
  <2>5. ASSUME Blocked(u) PROVE arg[u] = Multi /\ \E v \in Holders(p, Multi) : ~Blocked(v)
    <3>1. arg[u] = Multi /\ count[p][Multi] = 0
      BY <2>1, <2>3, <2>5
    <3>2. PICK v \in Holders(p, Multi) : TRUE
      BY <2>1, <2>2, <3>1
    <3>3. ~Blocked(v)
      BY <2>1, <2>3
    <3> QED BY <3>1, <3>3
  <2> QED BY <2>5
<1> QED BY <1>1, SwInvHolds, PTL

(***************************************************************************)
(* One step of a sound thread takes a lock, gives one back, or does        *)
(* neither; a step of another thread does neither.                         *)
(***************************************************************************)
LEMMA LockStep ==
  ASSUME SwInv, [Next]_vars
  PROVE  L!Next \/ \A t \in SoundThreads : got'[t] = got[t]
<1> USE DEF SwInv, TypeOK
<1>0. SoundThreads \subseteq Threads /\ SoundThreads' = SoundThreads /\ L!Sems = Sems
  BY DEF SoundThreads, L!Sems, Sems
<1> DEFINE holds == [u \in SoundThreads |-> got[u]]
<1>1. ASSUME NEW t \in Threads, TakeSw(t) PROVE L!Next \/ holds' = holds
  <2>1. got' = [got EXCEPT ![t] = @ \cup {arg[t]}] /\ pc[t] = "swTake" /\ arg[t] \in Sems
    BY <1>1 DEF TakeSw, Goto
  <2>2. CASE t \notin SoundThreads
    BY <1>0, <2>1, <2>2
  <2>3. CASE t \in SoundThreads
    <3>1. holds' = [holds EXCEPT ![t] = @ \cup {arg[t]}]
      BY <1>0, <2>1, <2>3
    <3>2. holds[t] # {} => arg[t] = Multi
      BY <2>1, <2>3 DEF Granted, Nested, Taking, MayTake, Inside
    <3>3. Holders(ProcOf[t], arg[t]) = {}
      <4>1. ProcOf[t] \in Sound /\ count[ProcOf[t]][arg[t]] > 0
        BY <1>1, <2>3 DEF SoundThreads, TakeSw
      <4>2. count[ProcOf[t]][arg[t]] = IF Holders(ProcOf[t], arg[t]) = {} THEN 1 ELSE 0
        BY <2>1, <4>1 DEF SwMutex
      <4> QED BY <4>1, <4>2
    <3>4. L!Free(ProcOf[t], arg[t])
      BY <1>0, <3>3 DEF L!Free, Holders
    <3>5. PICK s \in L!Sems : s = arg[t]
      BY <1>0, <2>1
    <3>6. L!Take(t, s)
      BY <3>1, <3>2, <3>4, <3>5 DEF L!Take
    <3> QED BY <2>3, <3>6 DEF L!Next
  <2> QED BY <2>2, <2>3
<1>2. ASSUME NEW t \in Threads, GiveSw(t) \/ GiveError(t) PROVE L!Next \/ holds' = holds
  <2>1. got' = [got EXCEPT ![t] = @ \ {arg[t]}] /\ pc[t] \in Giving /\ arg[t] \in Sems
    BY <1>2 DEF GiveSw, GiveError, Goto, Giving
  <2>2. CASE t \notin SoundThreads
    BY <1>0, <2>1, <2>2
  <2>3. CASE t \in SoundThreads
    <3>1. holds' = [holds EXCEPT ![t] = @ \ {arg[t]}]
      BY <1>0, <2>1, <2>3
    <3>2. arg[t] \in holds[t] /\ (Multi \in holds[t] => arg[t] = Multi)
      BY <2>1, <2>3 DEF Granted, Nested, MayGive, SoundThreads
    <3>3. PICK s \in L!Sems : s = arg[t]
      BY <1>0, <2>1
    <3>4. L!Give(t, s)
      BY <3>1, <3>2, <3>3 DEF L!Give
    <3> QED BY <2>3, <3>4 DEF L!Next
  <2> QED BY <2>2, <2>3
<1>3. got' = got \/ \E t \in Threads : TakeSw(t) \/ GiveSw(t) \/ GiveError(t)
  BY DEF Next, Step, vars, threadVars, TakeCall, GiveCall, TakePoll, TakeClaim, TakeCheck,
         TakeInc, TakeIncStore, TakeSwExpires, TakeError, GiveDec, GiveDecStore, GiveClear,
         EnableHwSemaphore, DisableHwSemaphore
<1>4. holds' = holds => \A t \in SoundThreads : got'[t] = got[t]
  BY <1>0
<1> QED BY <1>1, <1>2, <1>3, <1>4

(***************************************************************************)
(* msdSemTake and msdSemGive implement locks in such a process             *)
(* (msdSem.c:112-279), for any number of threads, however their steps      *)
(* interleave with those of the other processes.                           *)
(***************************************************************************)
THEOREM TakesAndGivesAreLocks == Spec => SemaphoresAreLocks
<1>1. Init => L!Init
  BY DEF Init, L!Init, SoundThreads
<1>2. SwInv /\ [Next]_vars => [L!Next]_([t \in SoundThreads |-> got[t]])
  <2> SUFFICES ASSUME SwInv, [Next]_vars, ~L!Next
               PROVE  UNCHANGED [t \in SoundThreads |-> got[t]]
    OBVIOUS
  <2>1. \A t \in SoundThreads : got'[t] = got[t]
    BY LockStep
  <2>2. SoundThreads' = SoundThreads
    BY DEF SoundThreads
  <2> QED BY <2>1, <2>2
<1> QED
  BY <1>1, <1>2, SwInvHolds, PTL DEF Spec, SemaphoresAreLocks, L!Spec

-----------------------------------------------------------------------------
(* What a process with one thread, whose accesses to the register succeed,  *)
(* counts, whatever the threads of other processes do.                      *)

\* The semaphores of a thread: of a table, multiAddrSem, or multiAddrSem within the other.
Stack(S) ==
  S = {} \/ (\E a \in Sems : S = {a}) \/ (\E a \in ApiSems : S = {a, Multi})
Stacked == \A t \in Threads : Stack(entered[t])

\* What the process writes into the semaphore register.
Value(t) == ChannelValue(Channel[ProcOf[t]])
OwnValue == \A t \in Threads : Own(t) \in {Disable, Value(t)}

NestInv == TypeOK /\ Nested /\ Stacked /\ OwnValue

\* How often refCnt is to have been incremented more than decremented.
Takes(t) ==
  IF pc[t] = "swTake" THEN Depth(t) + 1
  ELSE IF pc[t] \in {"clear", "swGive"} THEN Depth(t) - 1
  ELSE Depth(t)

Counted(t) ==
  /\ Own(t) = Disable => pc[t] \in {"run", "swTake", "swGive"} /\ refCnt[ProcOf[t]] = 0
  /\ Own(t) # Disable =>
       /\ refCnt[ProcOf[t]] = Takes(t)
       /\ pc[t] \in {"incStore", "decStore"} => tmp[t] = refCnt[ProcOf[t]]
       /\ pc[t] = "clear" => Depth(t) = 1
CountInv == NestInv /\ \A t \in Undisturbed : Counted(t)

\* The thread is outside, or has cleared the register on its way out.
Outside(t) ==
  \/ Own(t) = Disable
  \/ pc[t] \in {"run", "poll"} /\ Depth(t) = 0
  \/ pc[t] = "swGive" /\ Depth(t) = 1
Released(t) == Outside(t) => hwReg = Disable \/ hwReg # Value(t)
HwInv == CountInv /\ \A t \in Undisturbed : Released(t)

(***************************************************************************)
(* One more semaphore, one less.                                           *)
(***************************************************************************)
LEMMA Pushed ==
  ASSUME NEW S, Stack(S), NEW a \in Sems, S # {} => a = Multi /\ Multi \notin S
  PROVE  /\ Stack(S \cup {a})
         /\ Cardinality(S) \in {0, 1} /\ Cardinality(S \cup {a}) = Cardinality(S) + 1
         /\ Cardinality(S) = 0 <=> S = {}
<1>1. IsFiniteSet({}) /\ Cardinality({}) = 0
  BY FS_EmptySet
<1>2. CASE S = {}
  <2>1. Cardinality({a}) = 1 /\ S \cup {a} = {a}
    BY <1>2, FS_Singleton
  <2> QED BY <1>1, <1>2, <2>1 DEF Stack
<1>3. CASE S # {}
  <2>1. a = Multi /\ Multi \notin S
    BY <1>3
  <2>2. PICK b \in Sems : S = {b}
    BY <1>3, <2>1 DEF Stack
  <2>3. b \in ApiSems
    BY <2>1, <2>2 DEF Sems
  <2>4. IsFiniteSet({b}) /\ Cardinality({b}) = 1
    BY FS_Singleton
  <2>5. Cardinality({b} \cup {Multi}) = 2
    BY <2>1, <2>2, <2>4, FS_AddElement
  <2>6. S \cup {a} = {b, Multi} /\ {b} \cup {Multi} = {b, Multi}
    BY <2>1, <2>2
  <2> QED BY <1>3, <2>1, <2>2, <2>3, <2>4, <2>5, <2>6 DEF Stack
<1> QED BY <1>2, <1>3

LEMMA Popped ==
  ASSUME NEW S, Stack(S), NEW a \in S, Multi \in S => a = Multi
  PROVE  /\ Stack(S \ {a}) /\ a \in Sems
         /\ Cardinality(S) \in {1, 2} /\ Cardinality(S \ {a}) = Cardinality(S) - 1
         /\ Cardinality(S) = 1 <=> S \ {a} = {}
<1>1. IsFiniteSet({}) /\ Cardinality({}) = 0
  BY FS_EmptySet
<1>2. CASE \E b \in Sems : S = {b}
  <2>1. S = {a} /\ S \ {a} = {} /\ a \in Sems
    BY <1>2
  <2>2. Cardinality({a}) = 1
    BY FS_Singleton
  <2> QED BY <1>1, <2>1, <2>2 DEF Stack
<1>3. CASE \E b \in ApiSems : S = {b, Multi}
  <2>1. PICK b \in ApiSems : S = {b, Multi}
    BY <1>3
  <2>2. b # Multi /\ b \in Sems /\ Multi \in Sems
    BY MsdSemAssumption DEF Sems
  <2>3. a = Multi /\ S \ {a} = {b} /\ S = {b} \cup {Multi}
    BY <2>1, <2>2
  <2>4. IsFiniteSet({b}) /\ Cardinality({b}) = 1
    BY FS_Singleton
  <2>5. Cardinality({b} \cup {Multi}) = 2
    <3>1. Multi \notin {b}
      BY <2>2
    <3>2. Cardinality({b} \cup {Multi}) = Cardinality({b}) + 1
      BY <2>4, <3>1, FS_AddElement
    <3> QED BY <2>4, <3>2
  <2> QED BY <2>2, <2>3, <2>4, <2>5 DEF Stack
<1> QED BY <1>2, <1>3 DEF Stack

(***************************************************************************)
(* A thread's semaphores are a stack, whatever takes and gives return.     *)
(***************************************************************************)
LEMMA NestStep == NestInv /\ [Next]_vars => NestInv'
<1> SUFFICES ASSUME NestInv, [Next]_vars PROVE NestInv'
  OBVIOUS
<1>1. TypeOK'
  BY TypeStep DEF NestInv
<1>2. OwnValue'
  <2>1. \A t \in Threads : ProcOf[t] \in Procs
    BY MsdSemAssumption
  <2>2. ASSUME NEW p \in Procs,
               hwSem' \in {[hwSem EXCEPT ![p] = ChannelValue(Channel[p])],
                          [hwSem EXCEPT ![p] = Disable]}
        PROVE  OwnValue'
    BY <2>1, <2>2 DEF NestInv, TypeOK, OwnValue, Own, Value
  <2>3. ASSUME UNCHANGED hwSem PROVE OwnValue'
    BY <2>3 DEF NestInv, OwnValue, Own, Value
  <2>4. \/ UNCHANGED hwSem
        \/ \E t \in Threads : EnableHwSemaphore(t) \/ DisableHwSemaphore(t)
    BY DEF Next, Step, vars, TakeCall, GiveCall, TakePoll, TakeClaim, TakeCheck, TakeInc,
           TakeIncStore, TakeSw, TakeSwExpires, TakeError, GiveDec, GiveDecStore, GiveClear,
           GiveSw, GiveError
  <2> QED
    BY <2>1, <2>2, <2>3, <2>4 DEF EnableHwSemaphore, DisableHwSemaphore
<1>3. ASSUME NEW t \in Threads, pc[t] \in Taking, pc' = [pc EXCEPT ![t] = "run"], Enter(t),
             arg' = arg
      PROVE  Nested' /\ Stacked'
  <2>1. MayTake(t, arg[t]) /\ arg[t] \in Sems
    BY <1>3 DEF NestInv, TypeOK, Nested
  <2>2. Stack(entered[t] \cup {arg[t]})
    BY <2>1, Pushed DEF NestInv, Stacked, MayTake, Inside
  <2>3. Stacked'
    BY <1>3, <2>2 DEF NestInv, TypeOK, Stacked, Enter
  <2>4. Nested'
    BY <1>3 DEF NestInv, TypeOK, Nested, MayTake, MayGive, Inside, Enter, Taking, Giving
  <2> QED BY <2>3, <2>4
<1>4. ASSUME NEW t \in Threads, pc[t] \in Giving, pc' = [pc EXCEPT ![t] = "run"], Leave(t),
             arg' = arg
      PROVE  Nested' /\ Stacked'
  <2>1. MayGive(t, arg[t])
    BY <1>4 DEF NestInv, Nested
  <2>2. Stack(entered[t] \ {arg[t]})
    BY <2>1, Popped DEF NestInv, Stacked, MayGive
  <2>3. Stacked'
    BY <1>4, <2>2 DEF NestInv, TypeOK, Stacked, Leave
  <2>4. Nested'
    BY <1>4 DEF NestInv, TypeOK, Nested, MayTake, MayGive, Inside, Leave, Taking, Giving
  <2> QED BY <2>3, <2>4
<1>5. ASSUME NEW t \in Threads, NEW s \in Sems, TakeCall(t, s) \/ GiveCall(t, s)
      PROVE  Nested' /\ Stacked'
  BY <1>5 DEF TakeCall, GiveCall, Goto, NestInv, TypeOK, Nested, Stacked, MayTake, MayGive,
              Inside, Taking, Giving
<1>6. ASSUME NEW t \in Threads, TakeSw(t) \/ TakeSwExpires(t) \/ TakeError(t)
      PROVE  Nested' /\ Stacked'
  BY <1>3, <1>6 DEF TakeSw, TakeSwExpires, TakeError, Goto, Taking
<1>7. ASSUME NEW t \in Threads, GiveSw(t) \/ GiveError(t) PROVE Nested' /\ Stacked'
  BY <1>4, <1>7 DEF GiveSw, GiveError, Goto, Giving
<1>8. ASSUME NEW t \in Threads, TakePoll(t) \/ TakeClaim(t) \/ TakeCheck(t) \/ TakeInc(t)
                                 \/ TakeIncStore(t)
      PROVE  Nested' /\ Stacked'
  BY <1>8 DEF TakePoll, TakeClaim, TakeCheck, TakeInc, TakeIncStore, Goto, NestInv, TypeOK,
              Nested, Stacked, MayTake, MayGive, Inside, Taking, Giving
<1>9. ASSUME NEW t \in Threads, GiveDec(t) \/ GiveDecStore(t) \/ GiveClear(t)
      PROVE  Nested' /\ Stacked'
  BY <1>9 DEF GiveDec, GiveDecStore, GiveClear, Goto, NestInv, TypeOK,
              Nested, Stacked, MayTake, MayGive, Inside, Taking, Giving
<1>10. ASSUME UNCHANGED threadVars PROVE Nested' /\ Stacked'
  BY <1>10 DEF threadVars, NestInv, Nested, Stacked, MayTake, MayGive, Inside
<1>11. Nested' /\ Stacked'
  BY <1>5, <1>6, <1>7, <1>8, <1>9, <1>10
     DEF Next, Step, EnableHwSemaphore, DisableHwSemaphore, vars
<1> QED BY <1>1, <1>2, <1>11 DEF NestInv

(***************************************************************************)
(* How deep a thread is: at most a table semaphore and multiAddrSem.       *)
(***************************************************************************)
LEMMA Depths ==
  ASSUME NestInv, NEW t \in Threads
  PROVE  /\ Depth(t) \in 0 .. 2
         /\ Depth(t) = 0 <=> ~Inside(t)
         /\ pc[t] \in Taking => Depth(t) \in {0, 1}
         /\ pc[t] \in Giving => Depth(t) \in {1, 2}
         /\ pc[t] \in Taking /\ Enter(t) => Depth(t)' = Depth(t) + 1
         /\ pc[t] \in Giving /\ Leave(t) => Depth(t)' = Depth(t) - 1
<1> DEFINE S == entered[t]
<1>1. Stack(S) /\ entered \in [Threads -> SUBSET Sems] /\ arg[t] \in Sems
  BY DEF NestInv, Stacked, TypeOK
<1>2. CASE S = {}
  <2>1. Cardinality(S) = 0
    BY <1>2, FS_EmptySet
  <2>2. pc[t] \notin Giving
    BY <1>2 DEF NestInv, Nested, MayGive
  <2>3. Enter(t) => Depth(t)' = 1
    <3>1. Cardinality(S \cup {arg[t]}) = 1
      BY <1>1, <1>2, <2>1, Pushed
    <3>2. Enter(t) => entered'[t] = S \cup {arg[t]}
      BY <1>1 DEF Enter
    <3> QED BY <3>1, <3>2 DEF Depth
  <2> QED BY <1>2, <2>1, <2>2, <2>3 DEF Depth, Inside
<1>3. CASE S # {}
  <2>1. PICK a \in S : Multi \in S => a = Multi
    BY <1>3
  <2>2. Cardinality(S) \in {1, 2}
    BY <1>1, <2>1, Popped
  <2>3. ASSUME pc[t] \in Taking
        PROVE  Cardinality(S) \in {0, 1} /\ (Enter(t) => Depth(t)' = Depth(t) + 1)
    <3>1. arg[t] = Multi /\ Multi \notin S
      BY <1>3, <2>3 DEF NestInv, Nested, MayTake, Inside
    <3>2. Cardinality(S) \in {0, 1} /\ Cardinality(S \cup {arg[t]}) = Cardinality(S) + 1
      BY <1>1, <3>1, Pushed
    <3>3. Enter(t) => entered'[t] = S \cup {arg[t]}
      BY <1>1 DEF Enter
    <3> QED BY <3>2, <3>3 DEF Depth
  <2>4. ASSUME pc[t] \in Giving
        PROVE  Leave(t) => Depth(t)' = Depth(t) - 1
    <3>1. arg[t] \in S /\ (Multi \in S => arg[t] = Multi)
      BY <2>4 DEF NestInv, Nested, MayGive
    <3>2. Cardinality(S \ {arg[t]}) = Cardinality(S) - 1
      BY <1>1, <3>1, Popped
    <3>3. Leave(t) => entered'[t] = S \ {arg[t]}
      BY <1>1 DEF Leave
    <3> QED BY <3>2, <3>3 DEF Depth
  <2> QED BY <1>3, <2>2, <2>3, <2>4 DEF Depth, Inside
<1> QED BY <1>2, <1>3

\* What a thread does: Next, for it.
Act(t) ==
  \/ \E s \in Sems : TakeCall(t, s) \/ GiveCall(t, s)
  \/ Step(t)
  \/ TakeError(t) \/ GiveError(t)
  \/ EnableHwSemaphore(t) \/ DisableHwSemaphore(t)

(***************************************************************************)
(* A thread of another process leaves a process's memory alone, and puts   *)
(* nothing but its own value and 0 into the register.                      *)
(***************************************************************************)
LEMMA Elsewhere ==
  ASSUME NestInv, NEW t \in Undisturbed, NEW u \in Threads, u # t, Act(u)
  PROVE  /\ pc'[t] = pc[t] /\ entered'[t] = entered[t] /\ tmp'[t] = tmp[t]
         /\ refCnt'[ProcOf[t]] = refCnt[ProcOf[t]] /\ hwSem'[ProcOf[t]] = hwSem[ProcOf[t]]
         /\ hwReg' \in {hwReg, Disable, Own(u)}
<1>1. t \in Threads /\ ProcOf[u] # ProcOf[t] /\ ProcOf[t] \in Procs /\ ProcOf[u] \in Procs
  BY MsdSemAssumption DEF Undisturbed
<1>2. /\ pc \in [Threads -> {"run", "poll", "claim", "check", "inc", "incStore",
                             "swTake", "dec", "decStore", "clear", "swGive"}]
      /\ entered \in [Threads -> SUBSET Sems]
      /\ tmp \in [Threads -> 0 .. MaxCnt - 1] /\ refCnt \in [Procs -> 0 .. MaxCnt - 1]
      /\ hwSem \in [Procs -> HwValues]
  BY DEF NestInv, TypeOK
<1>3. CASE \E s \in Sems : TakeCall(u, s) \/ GiveCall(u, s)
  BY <1>1, <1>2, <1>3 DEF TakeCall, GiveCall, Goto
<1>4. CASE TakePoll(u) \/ TakeClaim(u) \/ TakeCheck(u) \/ TakeInc(u) \/ TakeIncStore(u)
  BY <1>1, <1>2, <1>4 DEF TakePoll, TakeClaim, TakeCheck, TakeInc, TakeIncStore, Goto
<1>5. CASE TakeSw(u) \/ TakeSwExpires(u) \/ TakeError(u)
  BY <1>1, <1>2, <1>5 DEF TakeSw, TakeSwExpires, TakeError, Goto, Enter
<1>6. CASE GiveDec(u) \/ GiveDecStore(u) \/ GiveClear(u)
  BY <1>1, <1>2, <1>6 DEF GiveDec, GiveDecStore, GiveClear, Goto, Disable
<1>7. CASE GiveSw(u) \/ GiveError(u)
  BY <1>1, <1>2, <1>7 DEF GiveSw, GiveError, Goto, Leave
<1>8. CASE EnableHwSemaphore(u) \/ DisableHwSemaphore(u)
  BY <1>1, <1>2, <1>8 DEF EnableHwSemaphore, DisableHwSemaphore, threadVars
<1> QED
  BY <1>3, <1>4, <1>5, <1>6, <1>7, <1>8 DEF Act, Step

(***************************************************************************)
(* The thread's own steps keep refCnt, the place it is at and the number   *)
(* of its semaphores in step, and only its outermost give goes on to clear *)
(* the register.                                                           *)
(***************************************************************************)
LEMMA CountOwn ==
  ASSUME NestInv, NEW t \in Undisturbed, Counted(t), Act(t)
  PROVE  Counted(t)'
<1>1. /\ t \in Threads /\ ProcOf[t] \in Procs /\ ProcOf[t] \notin Failing
      /\ MaxCnt \in Nat /\ MaxCnt > 3
  BY MsdSemAssumption DEF Undisturbed
<1>2. /\ pc \in [Threads -> {"run", "poll", "claim", "check", "inc", "incStore",
                             "swTake", "dec", "decStore", "clear", "swGive"}]
      /\ tmp \in [Threads -> 0 .. MaxCnt - 1] /\ refCnt \in [Procs -> 0 .. MaxCnt - 1]
      /\ hwSem \in [Procs -> HwValues]
  BY DEF NestInv, TypeOK
<1>3. /\ Depth(t) \in 0 .. 2
      /\ Depth(t) = 0 <=> ~Inside(t)
      /\ pc[t] \in Taking => Depth(t) \in {0, 1}
      /\ pc[t] \in Giving => Depth(t) \in {1, 2}
      /\ pc[t] \in Taking /\ Enter(t) => Depth(t)' = Depth(t) + 1
      /\ pc[t] \in Giving /\ Leave(t) => Depth(t)' = Depth(t) - 1
  BY <1>1, Depths
<1>4. entered' = entered => Depth(t)' = Depth(t)
  BY DEF Depth
<1>5. CASE \E s \in Sems : TakeCall(t, s)
  BY <1>1, <1>2, <1>3, <1>4, <1>5 DEF TakeCall, Goto, Counted, Takes, Own
<1>6. CASE \E s \in Sems : GiveCall(t, s)
  BY <1>1, <1>2, <1>3, <1>4, <1>6 DEF GiveCall, Goto, Counted, Takes, Own
<1>7. CASE TakePoll(t) \/ TakeClaim(t) \/ TakeCheck(t)
  BY <1>1, <1>2, <1>3, <1>4, <1>7 DEF TakePoll, TakeClaim, TakeCheck, Goto, Counted, Takes, Own
<1>8. CASE TakeInc(t)
  BY <1>1, <1>2, <1>3, <1>4, <1>8 DEF TakeInc, Goto, Counted, Takes, Own
<1>9. CASE TakeIncStore(t)
  <2>1. Own(t) # Disable /\ tmp[t] = Depth(t) /\ Inc(tmp[t]) = Depth(t) + 1
    BY <1>1, <1>2, <1>3, <1>9 DEF TakeIncStore, Goto, Counted, Takes, Inc, Taking
  <2> QED
    BY <1>1, <1>2, <1>3, <1>4, <1>9, <2>1 DEF TakeIncStore, Goto, Counted, Takes, Own
<1>10. CASE TakeSw(t) \/ TakeSwExpires(t) \/ TakeError(t)
  BY <1>1, <1>2, <1>3, <1>10
     DEF TakeSw, TakeSwExpires, TakeError, Goto, Counted, Takes, Own, Taking
<1>11. CASE GiveDec(t)
  BY <1>1, <1>2, <1>3, <1>4, <1>11 DEF GiveDec, Goto, Counted, Takes, Own
<1>12. CASE GiveDecStore(t)
  <2>1. Own(t) # Disable /\ tmp[t] = Depth(t) /\ Dec(tmp[t]) = Depth(t) - 1
    BY <1>1, <1>2, <1>3, <1>12 DEF GiveDecStore, Goto, Counted, Takes, Dec, Giving
  <2> QED
    BY <1>1, <1>2, <1>3, <1>4, <1>12, <2>1 DEF GiveDecStore, Goto, Counted, Takes, Own
<1>13. CASE GiveClear(t)
  BY <1>1, <1>2, <1>3, <1>4, <1>13 DEF GiveClear, Goto, Counted, Takes, Own
<1>14. CASE GiveSw(t) \/ GiveError(t)
  BY <1>1, <1>2, <1>3, <1>14 DEF GiveSw, GiveError, Goto, Counted, Takes, Own, Giving
<1>15. CASE EnableHwSemaphore(t) \/ DisableHwSemaphore(t)
  BY <1>1, <1>2, <1>3, <1>4, <1>15
     DEF EnableHwSemaphore, DisableHwSemaphore, threadVars, Idle, Counted, Takes, Own
<1> QED
  BY <1>5, <1>6, <1>7, <1>8, <1>9, <1>10, <1>11, <1>12, <1>13, <1>14, <1>15 DEF Act, Step

(***************************************************************************)
(* A step of any thread keeps the count of every undisturbed one.          *)
(***************************************************************************)
LEMMA CountStep == CountInv /\ [Next]_vars => CountInv'
<1> SUFFICES ASSUME CountInv, [Next]_vars PROVE CountInv'
  OBVIOUS
<1>1. NestInv'
  BY NestStep DEF CountInv
<1>2. ASSUME NEW t \in Undisturbed PROVE Counted(t)'
  <2>1. Counted(t) /\ NestInv
    BY <1>2 DEF CountInv
  <2>2. CASE UNCHANGED vars
    BY <2>1, <2>2 DEF vars, threadVars, Counted, Takes, Own, Depth
  <2>3. ASSUME NEW u \in Threads, u # t, Act(u) PROVE Counted(t)'
    <3>1. /\ pc'[t] = pc[t] /\ entered'[t] = entered[t] /\ tmp'[t] = tmp[t]
          /\ refCnt'[ProcOf[t]] = refCnt[ProcOf[t]] /\ hwSem'[ProcOf[t]] = hwSem[ProcOf[t]]
      BY <2>1, <2>3, Elsewhere
    <3> QED
      BY <2>1, <3>1 DEF Counted, Takes, Own, Depth
  <2>4. CASE Act(t)
    BY <2>1, <2>4, CountOwn
  <2>5. UNCHANGED vars \/ \E u \in Threads : Act(u)
    BY DEF Next, Act
  <2> QED BY <2>2, <2>3, <2>4, <2>5
<1>3. Undisturbed' = Undisturbed
  BY DEF Undisturbed
<1> QED BY <1>1, <1>2, <1>3 DEF CountInv

(***************************************************************************)
(* The thread's own steps: the register is not its own any more once it    *)
(* has given back the semaphore it took first.                             *)
(***************************************************************************)
LEMMA ReleaseOwn ==
  ASSUME NestInv, NEW t \in Undisturbed, Counted(t), Released(t), Act(t)
  PROVE  Released(t)'
<1>1. /\ t \in Threads /\ ProcOf[t] \in Procs /\ ProcOf[t] \notin Failing
      /\ MaxCnt \in Nat /\ MaxCnt > 3
  BY MsdSemAssumption DEF Undisturbed
<1>2. /\ pc \in [Threads -> {"run", "poll", "claim", "check", "inc", "incStore",
                             "swTake", "dec", "decStore", "clear", "swGive"}]
      /\ tmp \in [Threads -> 0 .. MaxCnt - 1] /\ refCnt \in [Procs -> 0 .. MaxCnt - 1]
      /\ hwSem \in [Procs -> HwValues]
  BY DEF NestInv, TypeOK
<1>3. /\ Depth(t) \in 0 .. 2
      /\ Depth(t) = 0 <=> ~Inside(t)
      /\ pc[t] \in Giving => Depth(t) \in {1, 2}
      /\ pc[t] \in Taking /\ Enter(t) => Depth(t)' = Depth(t) + 1
      /\ pc[t] \in Giving /\ Leave(t) => Depth(t)' = Depth(t) - 1
      /\ pc[t] \in Taking => Depth(t) \in {0, 1}
  BY <1>1, Depths
<1>4. entered' = entered => Depth(t)' = Depth(t)
  BY DEF Depth
<1>5. CASE \E s \in Sems : TakeCall(t, s) \/ GiveCall(t, s)
  BY <1>1, <1>2, <1>4, <1>5 DEF TakeCall, GiveCall, Goto, Released, Outside, Own, Value
<1>6. CASE TakePoll(t) \/ TakeCheck(t) \/ TakeInc(t) \/ TakeIncStore(t)
  BY <1>1, <1>2, <1>4, <1>6
     DEF TakePoll, TakeCheck, TakeInc, TakeIncStore, Goto, Released, Outside, Own, Value
<1>7. CASE TakeClaim(t)
  BY <1>1, <1>2, <1>4, <1>7 DEF TakeClaim, Goto, Released, Outside, Own, Value, Counted
<1>8. CASE TakeSw(t) \/ TakeSwExpires(t) \/ TakeError(t)
  BY <1>1, <1>2, <1>3, <1>8
     DEF TakeSw, TakeSwExpires, TakeError, Goto, Released, Outside, Own, Value, Taking
<1>9. CASE GiveDec(t)
  BY <1>1, <1>2, <1>4, <1>9 DEF GiveDec, Goto, Released, Outside, Own, Value
<1>10. CASE GiveDecStore(t)
  <2>1. Own(t) # Disable /\ tmp[t] = Depth(t)
    BY <1>1, <1>2, <1>3, <1>10 DEF GiveDecStore, Goto, Counted, Takes
  <2>2. Dec(tmp[t]) # 0 => Depth(t) # 1
    BY <1>1, <1>3, <2>1 DEF Dec
  <2> QED
    BY <1>1, <1>2, <1>4, <1>10, <2>1, <2>2
       DEF GiveDecStore, Goto, Released, Outside, Own, Value
<1>11. CASE GiveClear(t)
  BY <1>11 DEF GiveClear, Released, Disable
<1>12. CASE GiveSw(t) \/ GiveError(t)
  BY <1>1, <1>2, <1>3, <1>12
     DEF GiveSw, GiveError, Goto, Released, Outside, Own, Value, Giving
<1>13. CASE EnableHwSemaphore(t) \/ DisableHwSemaphore(t)
  BY <1>1, <1>2, <1>3, <1>4, <1>13
     DEF EnableHwSemaphore, DisableHwSemaphore, threadVars, Idle, Released, Outside, Own, Value
<1> QED
  BY <1>5, <1>6, <1>7, <1>8, <1>9, <1>10, <1>11, <1>12, <1>13 DEF Act, Step

\* No two processes write the same value into the register, unless it is 0.
Distinct ==
  \A p, q \in Procs : p # q =>
    \/ ChannelValue(Channel[p]) # ChannelValue(Channel[q])
    \/ ChannelValue(Channel[p]) = Disable

(***************************************************************************)
(* Nor does a thread of another process make the register look as if this  *)
(* one had it.                                                             *)
(***************************************************************************)
LEMMA HwStep == Distinct /\ HwInv /\ [Next]_vars => HwInv'
<1> SUFFICES ASSUME Distinct, HwInv, [Next]_vars PROVE HwInv'
  OBVIOUS
<1>1. CountInv'
  BY CountStep DEF HwInv
<1>2. ASSUME NEW t \in Undisturbed PROVE Released(t)'
  <2>1. Counted(t) /\ Released(t) /\ NestInv /\ OwnValue
    BY <1>2 DEF HwInv, CountInv, NestInv
  <2>2. CASE UNCHANGED vars
    BY <2>1, <2>2 DEF vars, threadVars, Released, Outside, Own, Depth, Value
  <2>3. ASSUME NEW u \in Threads, u # t, Act(u) PROVE Released(t)'
    <3>1. /\ pc'[t] = pc[t] /\ entered'[t] = entered[t]
          /\ hwSem'[ProcOf[t]] = hwSem[ProcOf[t]]
          /\ hwReg' \in {hwReg, Disable, Own(u)}
      BY <2>1, <2>3, Elsewhere
    <3>2. Outside(t)' = Outside(t) /\ Value(t)' = Value(t)
      BY <3>1 DEF Outside, Own, Depth, Value
    <3>3. t \in Threads /\ ProcOf[u] # ProcOf[t] /\ ProcOf[t] \in Procs /\ ProcOf[u] \in Procs
      BY <2>3, MsdSemAssumption DEF Undisturbed
    <3>4. Own(u) = Disable \/ Own(u) # Value(t) \/ Value(t) = Disable
      BY <2>1, <2>3, <3>3 DEF OwnValue, Distinct, Value
    <3> QED
      BY <2>1, <3>1, <3>2, <3>4 DEF Released
  <2>4. CASE Act(t)
    BY <2>1, <2>4, ReleaseOwn
  <2>5. UNCHANGED vars \/ \E u \in Threads : Act(u)
    BY DEF Next, Act
  <2> QED BY <2>2, <2>3, <2>4, <2>5
<1>3. Undisturbed' = Undisturbed
  BY DEF Undisturbed
<1> QED BY <1>1, <1>2, <1>3 DEF HwInv

(***************************************************************************)
(* At the start every thread is outside and has counted nothing.           *)
(***************************************************************************)
LEMMA CountInit == Init => HwInv
<1> SUFFICES ASSUME Init PROVE HwInv
  OBVIOUS
<1>1. TypeOK
  BY MsdSemAssumption, ChannelValueRange DEF Init, TypeOK, Sems, HwValues, Disable
<1>2. Nested /\ Stacked
  BY DEF Init, Nested, Stacked, Stack, Taking, Giving
<1>3. OwnValue
  BY MsdSemAssumption DEF Init, OwnValue, Own, Value
<1>4. ASSUME NEW t \in Undisturbed PROVE Counted(t) /\ Released(t)
  <2>1. t \in Threads /\ ProcOf[t] \in Procs
    BY MsdSemAssumption DEF Undisturbed
  <2>2. Depth(t) = 0
    BY <2>1, FS_EmptySet DEF Init, Depth
  <2> QED
    BY <2>1, <2>2 DEF Init, Counted, Released, Takes, Disable
<1> QED BY <1>1, <1>2, <1>3, <1>4 DEF HwInv, CountInv, NestInv

(***************************************************************************)
(* refCnt counts the nested takes of a process with one thread whose       *)
(* accesses succeed (msdSem.c:172, 255), for any number of processes that  *)
(* share the register with it, with failing accesses or not, and however   *)
(* often the hardware semaphore is enabled and disabled.                   *)
(***************************************************************************)
THEOREM RefCntIsDepth == Spec => []CountsNesting
<1>1. Init => CountInv
  BY CountInit DEF HwInv
<1>2. CountInv /\ [Next]_vars => CountInv'
  BY CountStep
<1>3. CountInv => CountsNesting
  <2> SUFFICES ASSUME CountInv, NEW t \in Undisturbed, pc[t] = "run"
               PROVE  refCnt[ProcOf[t]] = (IF Own(t) # Disable THEN Depth(t) ELSE 0)
    BY DEF CountsNesting
  <2> QED BY DEF CountInv, Counted, Takes
<1> QED BY <1>1, <1>2, <1>3, PTL DEF Spec

(***************************************************************************)
(* The write of 0 in msdSemGive (msdSem.c:260) comes from the give of the  *)
(* semaphore taken first, never from a nested one.                         *)
(***************************************************************************)
THEOREM NestedGiveKeepsHw == Spec => ReleasedByOutermost
<1>1. Init => CountInv
  BY CountInit DEF HwInv
<1>2. CountInv /\ [Next]_vars => CountInv'
  BY CountStep
<1>3. CountInv /\ [Next]_vars => [\A t \in Undisturbed : GiveClear(t) => Depth(t) = 1]_vars
  <2> SUFFICES ASSUME CountInv, NEW t \in Undisturbed, GiveClear(t) PROVE Depth(t) = 1
    OBVIOUS
  <2>1. pc[t] = "clear"
    BY DEF GiveClear, Goto
  <2> QED BY <2>1 DEF CountInv, Counted
<1> QED BY <1>1, <1>2, <1>3, PTL DEF Spec, ReleasedByOutermost

(***************************************************************************)
(* An idle process does not keep the others out: if every process that     *)
(* uses the hardware semaphore has an interface of its own, a process with *)
(* one thread whose accesses succeed leaves the register free or to        *)
(* another one when its operation ends.                                    *)
(***************************************************************************)
THEOREM IdleLeavesHw ==
  ASSUME Distinct
  PROVE  Spec => []IdleReleasesHw
<1>1. Init => HwInv
  BY CountInit
<1>2. HwInv /\ [Next]_vars => HwInv'
  BY HwStep
<1>3. HwInv => IdleReleasesHw
  <2> SUFFICES ASSUME HwInv, NEW t \in Undisturbed, Idle(t)
               PROVE  hwReg = 0 \/ hwReg # ChannelValue(Channel[ProcOf[t]])
    BY DEF IdleReleasesHw
  <2>1. NestInv /\ Released(t) /\ t \in Threads
    BY DEF HwInv, CountInv, Undisturbed
  <2>2. Depth(t) = 0 /\ pc[t] = "run"
    BY <2>1, Depths DEF Idle
  <2> QED BY <2>1, <2>2 DEF Released, Outside, Value, Disable
<1> QED BY <1>1, <1>2, <1>3, PTL DEF Spec
=============================================================================
