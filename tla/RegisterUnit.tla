---------------------------- MODULE RegisterUnit ----------------------------
(***************************************************************************)
(* Threads that run operations on a unit of the switch: a group of         *)
(* registers with operands, a command that makes the unit busy, and an     *)
(* answer that is there when it is no longer busy.  The functions of the   *)
(* API that work this way differ in the order in which they take           *)
(* the unit's semaphore, wait for the busy bit, write operands, write the  *)
(* command and read the answer, and in what they do when an access fails.  *)
(* That order is data here: Program gives for each operation the sequence  *)
(* of its steps, and the actions below are the kinds of steps.  The        *)
(* programs of the device families are in SpruceUnits and PeridotUnits.    *)
(***************************************************************************)
EXTENDS Naturals, Sequences

CONSTANTS
  Threads,      \* threads of the program that has loaded the driver
  Units,        \* sets of operations; those of a set work on the same unit
  Program,      \* the steps of each operation
  CarefulOps,   \* the operations the properties are claimed for
  Fields,       \* registers of a unit, and parts of registers
  Settings,     \* those that stay as they were set until they are set again
  Reset,        \* what is in each of them after a reset
  Values,       \* values of Fields that do not belong to one call
  Past,         \* the one an earlier call has left
  None

Own == "own"         \* in a program: the value this call is about
Saved == "saved"     \* in a program: the value just read, which is kept
Found == "found"     \* in a program: the value read at first, which is put back

Ops == UNION Units
Halves == {"putHalf", "getHalf"}     \* of an extended register: the call does not see them fail
Writes == {"put", "cmd", "putHalf"}
Kinds == Writes \union Halves \union
           {"take", "give", "wait", "test", "poll", "read", "get", "look", "stop"}
Reads == {"get", "look", "getHalf"}
Accesses == Kinds \ ({"take", "give", "stop"} \union Halves)

(* One step: what kind it is, what it writes into the unit, what it needs   *)
(* to find there to do what it is meant to do, and what it remembers.       *)
IsAssignment(w) == /\ DOMAIN w \subseteq Fields
                   /\ w \in [DOMAIN w -> Values \union {Own, Saved, Found}]
IsStep(s) == /\ s.do \in Kinds /\ s.reads \subseteq Fields
             /\ IsAssignment(s.writes) /\ IsAssignment(s.need)
             /\ s.do \notin Writes => s.writes = <<>>
             /\ s.do = "putHalf" => s.writes \in [DOMAIN s.writes -> {Own}]
(* A program is a sequence of steps that does not end with the first of two *)
(* accesses to a register.                                                  *)
IsProgram(p) == /\ Len(p) \in Nat \ {0} /\ DOMAIN p = 1 .. Len(p)
                /\ \A i \in DOMAIN p : IsStep(p[i])
                /\ p[Len(p)].do \notin Halves \union {"read"}

ASSUME UnitAssumption ==
  /\ None \notin Threads \union Ops
  /\ \A o \in Ops : IsProgram(Program[o])
  /\ CarefulOps \subseteq Ops
  /\ Settings \subseteq Fields
  /\ Reset \in [Fields -> Values]
  /\ Past \in Values /\ Values \intersect Threads = {}
  /\ {Own, Saved, Found} \intersect Values = {}

VARIABLES
  unit,    \* the operations of the unit looked at
  op,      \* the operation a thread is in, None between operations
  pc,      \* its next step
  sem,     \* the thread that holds the unit's semaphore, or None
  before,  \* what it found there and is to put back (a history variable)
  regs,    \* what has been written into the registers: by a thread, or a value
  saved,   \* what a thread has remembered of them
  torn,    \* the halves a call has lost without being told (a history variable)
  busy,    \* the unit's busy bit
  last     \* whose command the unit executes or has executed last

hw == <<regs, busy, last>>
lock == <<sem, before>>
calls == <<op, pc, saved, torn>>
vars == <<unit, op, pc, sem, before, regs, saved, torn, busy, last>>

NoCommand == [by |-> None, at |-> 0]

TypeOK ==
  /\ unit \in Units
  /\ op \in [Threads -> unit \union {None}]
  /\ pc \in [Threads -> Nat \ {0}]
  /\ \A t \in Threads : op[t] = None => pc[t] = 1
  /\ \A t \in Threads : op[t] # None => pc[t] \in 1 .. Len(Program[op[t]])
  /\ sem \in Threads \union {None}
  /\ before \in [Fields -> Values \union Threads]
  /\ regs \in [Fields -> Values \union Threads]
  /\ saved \in [Threads -> [Fields -> Values \union Threads]]
  /\ torn \in [Threads -> SUBSET Fields]
  /\ busy \in BOOLEAN
  /\ last \in [by : Threads \union {None}, at : Nat]

Init ==
  /\ unit \in Units
  /\ op = [t \in Threads |-> None]
  /\ pc = [t \in Threads |-> 1]
  /\ sem = None
  /\ before = Reset
  /\ regs = Reset
  /\ saved = [t \in Threads |-> Reset]
  /\ torn = [t \in Threads |-> {}]
  /\ busy = FALSE
  /\ last = NoCommand

StepOf(t) == Program[op[t]][pc[t]]
At(t, kinds) == op[t] # None /\ StepOf(t).do \in kinds

(* What a step of the thread puts into a field: the call's own value, the   *)
(* one it has saved, or the one named in the program.                       *)
Value(t, f, v) == IF v = Own THEN t ELSE IF v \in {Saved, Found} THEN saved[t][f] ELSE v

Written(t) ==
  LET w == StepOf(t).writes
  IN [f \in Fields |-> IF f \in DOMAIN w THEN Value(t, f, w[f]) ELSE regs[f]]

(* A write that has reached the unit; one into its command register makes   *)
(* it busy.                                                                 *)
Arrives(t) ==
  /\ regs' = Written(t)
  /\ IF StepOf(t).do = "cmd"
     THEN busy' = TRUE /\ last' = [by |-> t, at |-> pc[t]]
     ELSE UNCHANGED <<busy, last>>

(* The step puts a value into f, and not only what has been read there.     *)
Sets(s, f) == f \in DOMAIN s.writes /\ s.writes[f] # Saved

(* The call is over; or it goes on to its next step, having made good what  *)
(* it has written.                                                          *)
End(t) ==
  /\ op' = [op EXCEPT ![t] = None]
  /\ pc' = [pc EXCEPT ![t] = 1]
  /\ saved' = [saved EXCEPT ![t] = Reset]
  /\ torn' = [torn EXCEPT ![t] = {}]

MutAdvance(t) ==     \* goes on after the last step
  pc' = [pc EXCEPT ![t] = @ + 1] /\ UNCHANGED <<op, saved, torn>>
Advance(t) ==
  IF pc[t] < Len(Program[op[t]])
  THEN /\ pc' = [pc EXCEPT ![t] = @ + 1]
       /\ torn' = [torn EXCEPT ![t] = {f \in @ : ~Sets(StepOf(t), f)}]
       /\ UNCHANGED <<op, saved>>
  ELSE End(t)

(* The thread gives the semaphore, with r in the registers.  From now on    *)
(* its operands are those of an earlier call, also for its own next one.    *)
(* (What a call writes outside keeps its name: no operation the properties  *)
(* are claimed for has to do with these fields, see Sheltered.)             *)
Leave(t, r) ==
  /\ sem' = None
  /\ before' = Reset
  /\ regs' = [f \in Fields |-> IF r[f] = t /\ f \notin Settings THEN Past ELSE r[f]]
  /\ last' = NoCommand

(* Every return before the last step gives the semaphore if the call has it.*)
MutReturn(t, r) ==     \* gives it although the call has not taken it yet
  /\ End(t)
  /\ Leave(t, r)
Return(t, r) ==
  /\ End(t)
  /\ IF sem = t THEN Leave(t, r) ELSE regs' = r /\ UNCHANGED <<lock, last>>

Call(t) ==
  /\ op[t] = None
  /\ \E o \in unit : op' = [op EXCEPT ![t] = o]
  /\ UNCHANGED <<unit, pc, saved, torn, lock, hw>>

PutsBack(s, f) == f \in DOMAIN s.writes /\ s.writes[f] = Found
IsPutBack(p, f) == \E j \in DOMAIN p : PutsBack(p[j], f)

(* What a call that has now taken the semaphore finds, of what it puts back. *)
FoundBy(t) ==
  LET p == Program[op[t]]
  IN [f \in Fields |-> IF IsPutBack(p, f) THEN regs[f] ELSE Reset[f]]

MutTake(t) ==     \* does not look at the result
  /\ At(t, {"take"})
  /\ sem' = t
  /\ before' = FoundBy(t)
  /\ Advance(t)
  /\ UNCHANGED <<unit, hw>>
Take(t) ==
  /\ At(t, {"take"}) /\ sem = None
  /\ sem' = t
  /\ before' = FoundBy(t)
  /\ Advance(t)
  /\ UNCHANGED <<unit, hw>>

Give(t) ==
  /\ At(t, {"give"})
  /\ Leave(t, regs)
  /\ Advance(t)
  /\ UNCHANGED <<unit, busy>>

(* The loop on the busy bit; reads that find it set change nothing.         *)
MutWait(t) ==     \* reads the busy bit once and goes on
  /\ At(t, {"wait"})
  /\ Advance(t)
  /\ UNCHANGED <<unit, lock, hw>>
Wait(t) ==
  /\ At(t, {"wait"}) /\ ~busy
  /\ Advance(t)
  /\ UNCHANGED <<unit, lock, hw>>

(* The busy bit is looked at once, and a busy unit ends the call.           *)
Test(t) ==
  /\ At(t, {"test"})
  /\ IF busy THEN Return(t, regs) ELSE Advance(t) /\ UNCHANGED <<lock, regs, last>>
  /\ UNCHANGED <<unit, busy>>

(* A loop on the busy bit that goes on when it has been round often enough. *)
PollGivesUp(t) ==
  /\ At(t, {"poll"})
  /\ Advance(t)
  /\ UNCHANGED <<unit, lock, hw>>

Write(t) ==
  /\ At(t, Writes)
  /\ Arrives(t)
  /\ Advance(t)
  /\ UNCHANGED <<unit, lock>>

(* The first half of a read and write back.                                 *)
MutRead(t) ==     \* writes back what the register has after a reset
  /\ At(t, {"read"})
  /\ pc' = [pc EXCEPT ![t] = @ + 1]
  /\ UNCHANGED <<unit, op, torn, lock, hw, saved>>
Read(t) ==
  /\ At(t, {"read"})
  /\ LET r == StepOf(t).reads
     IN saved' = [saved EXCEPT ![t] =
                    [f \in Fields |-> IF f \in r THEN regs[f] ELSE @[f]]]
  /\ pc' = [pc EXCEPT ![t] = @ + 1]
  /\ UNCHANGED <<unit, op, torn, lock, hw>>

(* The answer to a command, or what a pointer written before points to.     *)
Get(t) ==
  /\ At(t, Reads)
  /\ Advance(t)
  /\ UNCHANGED <<unit, lock, hw>>

(* An extended register is accessed in two halves, and only the result of   *)
(* the second access is looked at: when the first one fails, the call goes  *)
(* on with the half that was in the register, or with 0 for the half of an  *)
(* answer.  (One reported as failed that has arrived is Write.)             *)
Lose(t) ==
  /\ At(t, Halves)
  /\ pc' = [pc EXCEPT ![t] = @ + 1]
  /\ torn' = [torn EXCEPT ![t] = @ \union DOMAIN StepOf(t).writes \union StepOf(t).reads]
  /\ UNCHANGED <<unit, op, saved, lock, hw>>

(* What was read makes the function return here, or go on.                  *)
Stop(t) ==
  /\ At(t, {"stop"})
  /\ Return(t, regs) \/ (Advance(t) /\ UNCHANGED <<lock, regs, last>>)
  /\ UNCHANGED <<unit, busy>>

(* An access fails, or a bounded loop on the busy bit gives up.             *)
MutFail(t) ==     \* returns with the semaphore
  /\ At(t, Accesses)
  /\ End(t)
  /\ UNCHANGED <<unit, lock, hw>>
Fail(t) ==
  /\ At(t, Accesses)
  /\ Return(t, regs)
  /\ UNCHANGED <<unit, busy>>

(* A write is reported as failed, but has arrived.                          *)
FailLate(t) ==
  /\ At(t, {"put", "cmd"})
  /\ Return(t, Written(t))
  /\ busy' = (busy \/ StepOf(t).do = "cmd")
  /\ UNCHANGED unit

(* The unit finishes the command.                                           *)
Execute ==
  /\ busy
  /\ busy' = FALSE
  /\ UNCHANGED <<unit, calls, lock, regs, last>>

Moves(t) == \/ Wait(t) \/ Test(t) \/ PollGivesUp(t) \/ Write(t) \/ Read(t)
            \/ Get(t) \/ Stop(t) \/ Give(t)

Next ==
  Execute \/ \E t \in Threads :
               Call(t) \/ Take(t) \/ Moves(t) \/ Lose(t) \/ Fail(t) \/ FailLate(t)

Spec == Init /\ [][Next]_vars

(* Threads are scheduled; a semaphore that is given again and again is      *)
(* granted; the unit finishes its commands.                                 *)
Fairness ==
  /\ WF_vars(Execute)
  /\ \A t \in Threads : WF_vars(Moves(t)) /\ SF_vars(Take(t))
FairSpec == Spec /\ Fairness

-----------------------------------------------------------------------------
(* What the code does to keep its calls apart, read off a program p at      *)
(* position i.                                                              *)

(* The step is made with the semaphore held. *)
Inside(p, i) == \E a \in 1 .. i - 1 :
                  p[a].do = "take" /\ \A b \in a + 1 .. i - 1 : p[b].do # "give"

(* The busy bit has been waited for since the last command. *)
Quiet(p, i) == \E j \in 1 .. i - 1 :
                 /\ p[j].do = "wait" /\ Inside(p, j)
                 /\ \A m \in j + 1 .. i - 1 : p[m].do # "cmd"

(* v was the last thing put into f, not counting values written back. *)
Ready(p, i, f, v) == \E j \in 1 .. i - 1 :
                       /\ Sets(p[j], f) /\ p[j].writes[f] = v /\ Inside(p, j)
                       /\ \A m \in j + 1 .. i - 1 : ~Sets(p[m], f)

(* What is in f has been read, or has not been changed, since the take.     *)
Noted(p, i, f) == \E j \in 1 .. i - 1 :
                    p[j].do = "read" /\ f \in p[j].reads /\ Inside(p, j)
Untouched(p, i, f) == \A j \in 1 .. i - 1 : ~Sets(p[j], f)

(* What is saved of f is what is in it: still, or again. *)
Fresh(p, i, f) == \E j \in 1 .. i - 1 :
                    /\ (p[j].do = "read" /\ f \in p[j].reads) \/ PutsBack(p[j], f)
                    /\ Inside(p, j)
                    /\ \A m \in j + 1 .. i - 1 : ~Sets(p[m], f)

IsLastCommand(p, i, j) == /\ j \in 1 .. i - 1 /\ p[j].do = "cmd" /\ Inside(p, j)
                          /\ \A m \in j + 1 .. i - 1 : p[m].do # "cmd"

(* Takes the semaphore only when it does not have it, gives it only when it *)
(* has it, and ends without it; a function that never takes it does so too. *)
Paired(p) ==
  /\ ~Inside(p, Len(p) + 1)
  /\ \A i \in DOMAIN p : /\ p[i].do = "take" => ~Inside(p, i)
                         /\ p[i].do = "give" => Inside(p, i)

(* Touches nothing but what is read, and gives no command, at a step of its *)
(* own outside: Uses are the fields an operation has to do with.            *)
Uses(p) == UNION {DOMAIN p[i].writes \union DOMAIN p[i].need \union p[i].reads : i \in DOMAIN p}
KeepsOutOf(q, fs) ==
  \A i \in DOMAIN q : ~Inside(q, i) => q[i].do # "cmd" /\ DOMAIN q[i].writes \intersect fs = {}

(* No operation on its unit, itself included, writes what it works with, or *)
(* gives a command, without the semaphore.                                  *)
Sheltered(o) ==
  \A u \in Units : o \in u => \A q \in u : KeepsOutOf(Program[q], Uses(Program[o]))

(* Takes the semaphore once, waits before it writes and before it reads an  *)
(* answer, gives each command the operands it needs, writes back only what  *)
(* it has just read, and puts back what it has read before it changed it.   *)
Careful(p) ==
  \A i \in DOMAIN p :
    /\ p[i].do = "take" => \A j \in 1 .. i - 1 : p[j].do # "give"
    /\ p[i].do \in Writes \union Reads => Inside(p, i) /\ Quiet(p, i)
    /\ p[i].do \in {"cmd", "look", "getHalf"} =>
         \A f \in DOMAIN p[i].need : /\ p[i].need[f] \notin {Saved, Found}
                                     /\ Ready(p, i, f, p[i].need[f])
    /\ \A f \in Fields : IsPutBack(p, f) =>
         /\ p[i].do = "read" /\ f \in p[i].reads => Untouched(p, i, f)
         /\ PutsBack(p[i], f) => Noted(p, i, f)
         /\ p[i].do = "give" => Fresh(p, i, f)
    /\ p[i].do = "get" => \E j \in 1 .. i - 1 : IsLastCommand(p, i, j)
    /\ \A f \in DOMAIN p[i].writes :
         /\ p[i].writes[f] = Saved => Fresh(p, i, f)
         /\ f \in Settings => \/ p[i].writes[f] = Saved
                              \/ p[i].do = "put" /\ p[i].writes[f] = Own

(* The rules, as the catalogue of operations is meant to follow them. *)
RulesHold == /\ \A o \in Ops : Paired(Program[o])
             /\ \A o \in CarefulOps : Careful(Program[o]) /\ Sheltered(o)

-----------------------------------------------------------------------------
(* The thread is between the take and the give of its program. *)
Held(t) == op[t] # None /\ Inside(Program[op[t]], pc[t])

(* The semaphore is with a thread exactly from its take to its give: however *)
(* a call ends, at an access that fails or a loop that gives up among them,  *)
(* it gives the semaphore when it has it and never that of another thread.   *)
SemPaired == \A t \in Threads : sem = t <=> Held(t)

InCareful(t) == op[t] \in CarefulOps

(* Operands and commands are written only while the unit is not busy with   *)
(* an earlier command, whoever gave it.                                     *)
NoOverrun == \A t \in Threads : InCareful(t) /\ At(t, Writes) => ~busy

(* When a call writes its command, or reads through a pointer, every        *)
(* register the unit will use holds what this call wants there, except the  *)
(* halves of extended registers whose writing has failed unseen.            *)
OwnOperands ==
  \A t \in Threads : InCareful(t) /\ At(t, {"cmd", "look", "getHalf"}) =>
    \A f \in DOMAIN StepOf(t).need \ torn[t] : regs[f] = Value(t, f, StepOf(t).need[f])

(* An answer is read when the unit is done, and it is the answer to the     *)
(* last command of the same call.  (A half of it that was lost is in torn.) *)
OwnAnswer ==
  \A t \in Threads : InCareful(t) /\ At(t, Reads) =>
    /\ ~busy
    /\ StepOf(t).do = "get" =>
         last.by = t /\ IsLastCommand(Program[op[t]], pc[t], last.at)

(* A setting that shares a register with commands and operands survives     *)
(* every step of a call that is not there to change it: reading a register  *)
(* and writing it back loses no other thread's change.                      *)
Purposely(s, f) == s.do = "put" /\ f \in DOMAIN s.writes /\ s.writes[f] = Own
SettingsKept ==
  [][\A t \in Threads :
       InCareful(t) /\ <<op[t], pc[t]>>' # <<op[t], pc[t]>> =>
         \A f \in Settings : regs'[f] = regs[f] \/ Purposely(StepOf(t), f)]_vars

(* What a call has found in a register that it changes for the time of the  *)
(* call, the page of a PHY, is in it again when the call has not failed and *)
(* gives the semaphore: others that rely on it find what they have put.     *)
PutBack ==
  \A t \in Threads : InCareful(t) /\ At(t, {"give"}) =>
    \A f \in Fields : IsPutBack(Program[op[t]], f) => regs[f] = before[f]

(* Every call returns, although any access may fail on the way and the next *)
(* call needs the semaphore that this one has taken.  Where commands are    *)
(* given without the semaphore, a loop on the busy bit may find the unit    *)
(* busy with other threads' commands for ever: nothing is claimed of these. *)
Orderly == {u \in Units : \A o \in u : KeepsOutOf(Program[o], {})}
CallsReturn == \A t \in Threads : op[t] # None /\ unit \in Orderly ~> op[t] = None
=============================================================================
