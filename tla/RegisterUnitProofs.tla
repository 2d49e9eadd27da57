------------------------- MODULE RegisterUnitProofs -------------------------
(***************************************************************************)
(* What the rules of RegisterUnit (Paired, Careful, Sheltered) give the    *)
(* calls of any number of threads on a unit with any catalogue.            *)
(***************************************************************************)
EXTENDS RegisterUnit, TLAPS

(* What the holder of the semaphore knows about the unit from the steps it  *)
(* has made, if it is careful.                                              *)
QuietInv(t) == Quiet(Program[op[t]], pc[t]) => ~busy
ReadyInv(t) == \A f \in Fields : \A v \in Values \union {Own} :
                 Ready(Program[op[t]], pc[t], f, v) =>
                   f \in torn[t] \/ regs[f] = Value(t, f, v)
FreshInv(t) == \A f \in Fields : Fresh(Program[op[t]], pc[t], f) => saved[t][f] = regs[f]
LastInv(t) == \A j \in Nat : IsLastCommand(Program[op[t]], pc[t], j) =>
                last = [by |-> t, at |-> j]
BeforeInv(t) == \A f \in Fields : IsPutBack(Program[op[t]], f) =>
                  /\ Untouched(Program[op[t]], pc[t], f) => regs[f] = before[f]
                  /\ Noted(Program[op[t]], pc[t], f) => saved[t][f] = before[f]
Knows(t) == QuietInv(t) /\ ReadyInv(t) /\ FreshInv(t) /\ LastInv(t) /\ BeforeInv(t)
KnowsInv == \A t \in Threads : InCareful(t) /\ Held(t) => Knows(t)

Inv == TypeOK /\ SemPaired /\ KnowsInv

-----------------------------------------------------------------------------
(* Programs *)

LEMMA StepFacts ==
  ASSUME TypeOK, NEW t \in Threads, op[t] # None
  PROVE  /\ op[t] \in Ops /\ IsProgram(Program[op[t]])
         /\ pc[t] \in DOMAIN Program[op[t]]
         /\ IsStep(StepOf(t))
<1>1. op[t] \in Ops
  BY DEF TypeOK, Ops
<1>2. IsProgram(Program[op[t]])
  BY <1>1, UnitAssumption
<1>3. pc[t] \in DOMAIN Program[op[t]]
  BY <1>2 DEF TypeOK, IsProgram
<1> QED BY <1>1, <1>2, <1>3 DEF IsProgram, StepOf

(* The position after a step is inside if the step is a take, or was made   *)
(* inside and is not a give; what a program starts and ends with is not.    *)
LEMMA InsideSteps ==
  ASSUME NEW p, IsProgram(p), Paired(p), NEW i \in DOMAIN p
  PROVE  /\ ~Inside(p, 1) /\ ~Inside(p, Len(p) + 1)
         /\ p[i].do = "take" => ~Inside(p, i) /\ Inside(p, i + 1)
         /\ p[i].do = "give" => Inside(p, i) /\ ~Inside(p, i + 1)
         /\ p[i].do \notin {"take", "give"} => (Inside(p, i + 1) <=> Inside(p, i))
<1> i \in Nat \ {0} /\ i \in 1 .. Len(p) /\ Len(p) \in Nat
  BY DEF IsProgram
<1>1. ~Inside(p, 1) /\ ~Inside(p, Len(p) + 1)
  BY DEF Inside, Paired
<1>2. ASSUME p[i].do = "take" PROVE ~Inside(p, i) /\ Inside(p, i + 1)
  <2>1. ~Inside(p, i)
    BY <1>2 DEF Paired
  <2>2. i \in 1 .. (i + 1) - 1 /\ \A b \in i + 1 .. (i + 1) - 1 : FALSE
    OBVIOUS
  <2>3. Inside(p, i + 1)
    BY <1>2, <2>2 DEF Inside
  <2> QED BY <2>1, <2>3
<1>3. ASSUME p[i].do = "give" PROVE Inside(p, i) /\ ~Inside(p, i + 1)
  BY <1>3 DEF Paired, Inside
<1>4. ASSUME p[i].do \notin {"take", "give"} PROVE Inside(p, i + 1) <=> Inside(p, i)
  BY <1>4 DEF Inside
<1> QED BY <1>1, <1>2, <1>3, <1>4

(* A careful program has not been inside before it takes the semaphore.     *)
LEMMA TakeIsFirst ==
  ASSUME NEW p, IsProgram(p), Paired(p), Careful(p), NEW i \in DOMAIN p, p[i].do = "take"
  PROVE  \A j \in 1 .. i : ~Inside(p, j)
<1> SUFFICES ASSUME NEW j \in 1 .. i, Inside(p, j) PROVE FALSE
  OBVIOUS
<1>1. i \in Nat /\ ~Inside(p, i)
  BY DEF IsProgram, Paired
<1>2. \A m \in 1 .. i - 1 : p[m].do # "give"
  BY DEF Careful
<1> QED BY <1>1, <1>2 DEF Inside

(* What has been established at a position is about what the program uses.  *)
LEMMA AboutUses ==
  ASSUME NEW p, IsProgram(p), NEW i \in DOMAIN p, NEW f
  PROVE  /\ (\E v : Ready(p, i, f, v)) => f \in Uses(p)
         /\ Fresh(p, i, f) => f \in Uses(p)
         /\ IsPutBack(p, f) => f \in Uses(p)
<1>1. \A j \in 1 .. i - 1 : j \in DOMAIN p
  BY DEF IsProgram
<1>2. \A j \in DOMAIN p : f \in DOMAIN p[j].writes \/ f \in p[j].reads => f \in Uses(p)
  BY DEF Uses
<1> QED BY <1>1, <1>2 DEF Ready, Fresh, IsPutBack, PutsBack, Sets

(* What holds of the position after a step held before it or comes from it. *)
LEMMA QuietStep ==
  ASSUME NEW p, NEW i \in Nat, Quiet(p, i + 1)
  PROVE  p[i].do = "wait" \/ (Quiet(p, i) /\ p[i].do # "cmd")
BY DEF Quiet

LEMMA ReadyStep ==
  ASSUME NEW p, NEW i \in Nat, NEW f, NEW v, Ready(p, i + 1, f, v)
  PROVE  \/ Sets(p[i], f) /\ p[i].writes[f] = v
         \/ Ready(p, i, f, v) /\ ~Sets(p[i], f)
BY DEF Ready

LEMMA FreshStep ==
  ASSUME NEW p, NEW i \in Nat, NEW f, Fresh(p, i + 1, f)
  PROVE  \/ (p[i].do = "read" /\ f \in p[i].reads) \/ PutsBack(p[i], f)
         \/ Fresh(p, i, f) /\ ~Sets(p[i], f)
BY DEF Fresh

LEMMA LastStep ==
  ASSUME NEW p, NEW i \in Nat, NEW j, IsLastCommand(p, i + 1, j)
  PROVE  (j = i /\ p[i].do = "cmd") \/ (IsLastCommand(p, i, j) /\ p[i].do # "cmd")
BY DEF IsLastCommand

LEMMA NotedStep ==
  ASSUME NEW p, NEW i \in Nat \ {0}, NEW f
  PROVE  /\ Noted(p, i + 1, f) => (p[i].do = "read" /\ f \in p[i].reads) \/ Noted(p, i, f)
         /\ Untouched(p, i + 1, f) => Untouched(p, i, f) /\ ~Sets(p[i], f)
BY DEF Noted, Untouched

(* Right after the take nothing has been established yet.                   *)
LEMMA NothingYet ==
  ASSUME NEW p, NEW i \in Nat, \A j \in 1 .. i : ~Inside(p, j)
  PROVE  /\ ~Quiet(p, i + 1) /\ \A j : ~IsLastCommand(p, i + 1, j)
         /\ \A f, v : ~Ready(p, i + 1, f, v) /\ ~Fresh(p, i + 1, f) /\ ~Noted(p, i + 1, f)
BY DEF Quiet, Ready, Fresh, Noted, IsLastCommand

-----------------------------------------------------------------------------
(* Types *)

LEMMA TypeInit == Init => TypeOK
<1> SUFFICES ASSUME Init PROVE TypeOK
  OBVIOUS
<1>1. regs \in [Fields -> Values \union Threads]
  BY UnitAssumption DEF Init
<1>2. saved \in [Threads -> [Fields -> Values \union Threads]]
  BY UnitAssumption DEF Init
<1>3. last \in [by : Threads \union {None}, at : Nat] /\ torn \in [Threads -> SUBSET Fields]
  BY DEF Init, NoCommand
<1>4. \A t \in Threads : op[t] = None
  BY DEF Init
<1>5. pc \in [Threads -> Nat \ {0}] /\ (\A t \in Threads : pc[t] = 1) /\ op \in [Threads -> unit \union {None}]
  BY DEF Init
<1> QED BY <1>1, <1>2, <1>3, <1>4, <1>5 DEF Init, TypeOK

(* What a write leaves in the registers are values and calls.               *)
LEMMA WrittenType ==
  ASSUME TypeOK, NEW t \in Threads, op[t] # None
  PROVE  Written(t) \in [Fields -> Values \union Threads]
<1>1. IsAssignment(StepOf(t).writes)
  BY StepFacts DEF IsStep
<1>2. ASSUME NEW f \in Fields, f \in DOMAIN StepOf(t).writes
      PROVE  Value(t, f, StepOf(t).writes[f]) \in Values \union Threads
  <2>1. StepOf(t).writes[f] \in Values \union {Own, Saved, Found}
    BY <1>1, <1>2 DEF IsAssignment
  <2>2. saved[t][f] \in Values \union Threads
    BY DEF TypeOK
  <2> QED BY <2>1, <2>2 DEF Value
<1> QED BY <1>2 DEF Written, TypeOK

(* The thread's own variables after a step that leads to the next one, and  *)
(* after a return.                                                          *)
Forward(t) == Advance(t) \/ \E s \in [Fields -> Values \union Threads], r \in SUBSET Fields :
                              /\ pc[t] < Len(Program[op[t]])
                              /\ pc' = [pc EXCEPT ![t] = @ + 1]
                              /\ saved' = [saved EXCEPT ![t] = s]
                              /\ torn' = [torn EXCEPT ![t] = r]
                              /\ UNCHANGED op

OwnType == /\ op' \in [Threads -> unit \union {None}]
           /\ pc' \in [Threads -> Nat \ {0}]
           /\ \A u \in Threads : op'[u] = None => pc'[u] = 1
           /\ \A u \in Threads : op'[u] # None => pc'[u] \in 1 .. Len(Program[op'[u]])
           /\ saved' \in [Threads -> [Fields -> Values \union Threads]]
           /\ torn' \in [Threads -> SUBSET Fields]

LEMMA EndType ==
  ASSUME TypeOK, NEW t \in Threads, End(t)
  PROVE  OwnType
<1>1. op' \in [Threads -> unit \union {None}] /\ op'[t] = None
  BY DEF End, TypeOK
<1>2. pc' \in [Threads -> Nat \ {0}] /\ pc'[t] = 1
  BY DEF End, TypeOK
<1>3. \A u \in Threads : u # t => op'[u] = op[u] /\ pc'[u] = pc[u]
  BY DEF End, TypeOK
<1>4. saved' \in [Threads -> [Fields -> Values \union Threads]]
  BY UnitAssumption DEF End, TypeOK
<1>5. torn' \in [Threads -> SUBSET Fields]
  BY DEF End, TypeOK
<1>6. \A u \in Threads : op'[u] = None => pc'[u] = 1
  BY <1>2, <1>3 DEF TypeOK
<1>7. \A u \in Threads : op'[u] # None => pc'[u] \in 1 .. Len(Program[op'[u]])
  BY <1>1, <1>3 DEF TypeOK
<1> QED BY <1>1, <1>2, <1>4, <1>5, <1>6, <1>7 DEF OwnType

LEMMA ForwardType ==
  ASSUME TypeOK, NEW t \in Threads, op[t] # None, Forward(t)
  PROVE  OwnType
<1>1. pc[t] \in 1 .. Len(Program[op[t]]) /\ Len(Program[op[t]]) \in Nat
  BY StepFacts DEF IsProgram
<1>2. CASE pc' = [pc EXCEPT ![t] = @ + 1] /\ pc[t] < Len(Program[op[t]]) /\ UNCHANGED op
  <2>0. \/ UNCHANGED saved /\ torn' = [torn EXCEPT ![t] = {f \in @ : ~Sets(StepOf(t), f)}]
        \/ \E s \in [Fields -> Values \union Threads], r \in SUBSET Fields :
             saved' = [saved EXCEPT ![t] = s] /\ torn' = [torn EXCEPT ![t] = r]
    <3>1. CASE Advance(t)
      BY <1>2, <3>1 DEF Advance
    <3>2. CASE ~Advance(t)
      BY <3>2 DEF Forward
    <3> QED BY <3>1, <3>2
  <2>1. saved' \in [Threads -> [Fields -> Values \union Threads]]
    BY <2>0 DEF TypeOK
  <2>2. torn' \in [Threads -> SUBSET Fields]
    <3> DEFINE kept == {f \in torn[t] : ~Sets(StepOf(t), f)}
    <3>1. kept \in SUBSET Fields
      BY DEF TypeOK
    <3>2. torn' = [torn EXCEPT ![t] = kept] \/ \E r \in SUBSET Fields : torn' = [torn EXCEPT ![t] = r]
      BY <2>0
    <3> HIDE DEF kept
    <3> QED BY <3>1, <3>2 DEF TypeOK
  <2>3. pc' \in [Threads -> Nat \ {0}]
    BY <1>2 DEF TypeOK
  <2>4. ASSUME NEW u \in Threads, op[u] # None PROVE pc'[u] \in 1 .. Len(Program[op[u]])
    <3>1. CASE u = t
      BY <1>1, <1>2, <3>1 DEF TypeOK
    <3>2. CASE u # t
      BY <1>2, <2>4, <3>2 DEF TypeOK
    <3> QED BY <3>1, <3>2
  <2>5. ASSUME NEW u \in Threads, op[u] = None PROVE pc'[u] = 1
    BY <1>2, <2>5 DEF TypeOK
  <2> QED BY <1>2, <2>1, <2>2, <2>3, <2>4, <2>5 DEF OwnType, TypeOK
<1> QED BY <1>2, EndType DEF Forward, Advance

LEMMA ReturnType ==
  ASSUME TypeOK, NEW t \in Threads, op[t] # None,
         NEW r \in [Fields -> Values \union Threads], Return(t, r)
  PROVE  /\ OwnType /\ sem' \in Threads \union {None}
         /\ before' \in [Fields -> Values \union Threads]
         /\ regs' \in [Fields -> Values \union Threads]
         /\ last' \in [by : Threads \union {None}, at : Nat]
<1>1. OwnType
  BY EndType DEF Return
<1>2. CASE sem = t
  <2>1. Leave(t, r)
    BY <1>2 DEF Return
  <2>2. regs' \in [Fields -> Values \union Threads]
    BY <2>1, UnitAssumption DEF Leave
  <2>3. last' \in [by : Threads \union {None}, at : Nat]
    BY <2>1 DEF Leave, NoCommand
  <2>4. before' \in [Fields -> Values \union Threads]
    BY <2>1, UnitAssumption DEF Leave
  <2> QED BY <1>1, <2>1, <2>2, <2>3, <2>4 DEF Leave
<1>3. CASE sem # t
  BY <1>1, <1>3 DEF Return, lock, TypeOK
<1> QED BY <1>2, <1>3

(* The half that is lost is not the last access of its call.                *)
LEMMA LosesBeforeTheEnd ==
  ASSUME TypeOK, NEW t \in Threads, Lose(t)
  PROVE  op[t] # None /\ StepOf(t).do \in Halves /\ pc[t] < Len(Program[op[t]])
<1>1. op[t] # None /\ StepOf(t).do \in Halves
  BY DEF Lose, At
<1>2. pc[t] # Len(Program[op[t]]) /\ pc[t] \in 1 .. Len(Program[op[t]])
  BY <1>1, StepFacts DEF IsProgram, StepOf
<1> QED BY <1>1, <1>2, StepFacts DEF IsProgram

LEMMA TypeStep == TypeOK /\ [Next]_vars => TypeOK'
<1> SUFFICES ASSUME TypeOK, [Next]_vars PROVE TypeOK'
  OBVIOUS
<1>a. ASSUME OwnType, sem' \in Threads \union {None},
             before' \in [Fields -> Values \union Threads],
             regs' \in [Fields -> Values \union Threads],
             last' \in [by : Threads \union {None}, at : Nat],
             busy' \in BOOLEAN, UNCHANGED unit
      PROVE  TypeOK'
  BY <1>a DEF TypeOK, OwnType
<1>0. \A t \in Threads : \A kinds : At(t, kinds) => op[t] # None
  BY DEF At
<1>1. ASSUME NEW t \in Threads, Call(t) PROVE TypeOK'
  <2>1. PICK o \in unit : op' = [op EXCEPT ![t] = o]
    BY <1>1 DEF Call
  <2>2. op[t] = None /\ UNCHANGED <<unit, pc, sem, before, regs, saved, torn, busy, last>>
    BY <1>1 DEF Call, lock, hw
  <2>3. \A u \in Threads : op'[u] # None => pc'[u] \in 1 .. Len(Program[op'[u]])
    <3> SUFFICES ASSUME NEW u \in Threads, op'[u] # None
                 PROVE  pc'[u] \in 1 .. Len(Program[op'[u]])
      OBVIOUS
    <3>1. CASE u = t
      <4>1. o \in Ops
        BY DEF TypeOK, Ops
      <4>2. op'[t] = o
        BY <2>1 DEF TypeOK
      <4>3. IsProgram(Program[o])
        BY <4>1, UnitAssumption
      <4>4. pc[t] = 1
        BY <2>2 DEF TypeOK
      <4> QED BY <2>2, <3>1, <4>2, <4>3, <4>4 DEF IsProgram
    <3>2. CASE u # t
      BY <2>1, <2>2, <3>2 DEF TypeOK
    <3> QED BY <3>1, <3>2
  <2>4. \A u \in Threads : op'[u] = None => pc'[u] = 1
    BY <2>1, <2>2 DEF TypeOK
  <2> QED BY <2>1, <2>2, <2>3, <2>4 DEF TypeOK
<1>2. ASSUME NEW t \in Threads, Take(t) PROVE TypeOK'
  <2>1. OwnType
    BY <1>0, <1>2, ForwardType DEF Take, Forward
  <2>2. before' \in [Fields -> Values \union Threads]
    BY <1>2, UnitAssumption DEF Take, FoundBy, TypeOK
  <2> QED BY <1>2, <1>a, <2>1, <2>2 DEF Take, hw, TypeOK
<1>3. ASSUME NEW t \in Threads, Give(t) PROVE TypeOK'
  <2>1. OwnType
    BY <1>0, <1>3, ForwardType DEF Give, Forward
  <2>2. regs' \in [Fields -> Values \union Threads]
    BY <1>3, UnitAssumption DEF Give, Leave, TypeOK
  <2>3. before' \in [Fields -> Values \union Threads]
    BY <1>3, UnitAssumption DEF Give, Leave
  <2> QED BY <1>3, <1>a, <2>1, <2>2, <2>3 DEF Give, Leave, NoCommand, TypeOK
<1>4. ASSUME NEW t \in Threads, Wait(t) \/ PollGivesUp(t) \/ Get(t) PROVE TypeOK'
  BY <1>0, <1>4, <1>a, ForwardType DEF Wait, PollGivesUp, Get, Forward, hw, lock, TypeOK
<1>5. ASSUME NEW t \in Threads, Test(t) \/ Stop(t) PROVE TypeOK'
  <2>1. op[t] # None /\ busy' = busy /\ UNCHANGED unit
    BY <1>0, <1>5 DEF Test, Stop
  <2>2. CASE Return(t, regs)
    BY <1>a, <2>1, <2>2, ReturnType DEF TypeOK
  <2>3. CASE Advance(t) /\ UNCHANGED <<lock, regs, last>>
    BY <1>a, <2>1, <2>3, ForwardType DEF Forward, lock, TypeOK
  <2> QED BY <1>5, <2>2, <2>3 DEF Test, Stop
<1>6. ASSUME NEW t \in Threads, Write(t) PROVE TypeOK'
  <2>1. OwnType
    BY <1>0, <1>6, ForwardType DEF Write, Forward
  <2>2. regs' \in [Fields -> Values \union Threads]
    BY <1>0, <1>6, WrittenType DEF Write, Arrives
  <2>3. last' \in [by : Threads \union {None}, at : Nat] /\ busy' \in BOOLEAN
    <3>1. pc[t] \in Nat
      BY DEF TypeOK
    <3>2. CASE StepOf(t).do = "cmd"
      BY <1>6, <3>1, <3>2 DEF Write, Arrives
    <3>3. CASE StepOf(t).do # "cmd"
      BY <1>6, <3>3 DEF Write, Arrives, TypeOK
    <3> QED BY <3>2, <3>3
  <2>4. /\ sem' \in Threads \union {None} /\ UNCHANGED unit
        /\ before' \in [Fields -> Values \union Threads]
    BY <1>6 DEF Write, lock, TypeOK
  <2> QED BY <1>a, <2>1, <2>2, <2>3, <2>4
<1>7. ASSUME NEW t \in Threads, Read(t) PROVE TypeOK'
  <2> DEFINE s == [f \in Fields |-> IF f \in StepOf(t).reads THEN regs[f] ELSE saved[t][f]]
  <2>1. s \in [Fields -> Values \union Threads]
    BY DEF TypeOK
  <2>2. saved' = [saved EXCEPT ![t] = s]
    BY <1>7 DEF Read, TypeOK
  <2>3. pc[t] < Len(Program[op[t]])
    BY <1>0, <1>7, StepFacts DEF Read, At, StepOf, IsProgram
  <2>4. OwnType
    <3> HIDE DEF s
    <3>1. torn' = [torn EXCEPT ![t] = torn[t]] /\ torn[t] \in SUBSET Fields
      BY <1>7 DEF Read, TypeOK
    <3> QED BY <1>0, <1>7, <2>1, <2>2, <2>3, <3>1, ForwardType DEF Read, Forward
  <2> QED BY <1>7, <1>a, <2>4 DEF Read, hw, lock, TypeOK
<1>8. ASSUME NEW t \in Threads, Fail(t) PROVE TypeOK'
  BY <1>0, <1>8, <1>a, ReturnType DEF Fail, TypeOK
<1>9. ASSUME NEW t \in Threads, FailLate(t) PROVE TypeOK'
  <2>1. op[t] # None
    BY <1>0, <1>9 DEF FailLate
  <2> QED BY <1>9, <1>a, <2>1, WrittenType, ReturnType DEF FailLate, TypeOK
<1>10. ASSUME NEW t \in Threads, Lose(t) PROVE TypeOK'
  <2>1. op[t] # None /\ pc[t] < Len(Program[op[t]])
    BY <1>10, LosesBeforeTheEnd
  <2>2. saved' = [saved EXCEPT ![t] = saved[t]] /\ saved[t] \in [Fields -> Values \union Threads]
    BY <1>10 DEF Lose, TypeOK
  <2>3. torn[t] \union DOMAIN StepOf(t).writes \union StepOf(t).reads \in SUBSET Fields
    BY <2>1, StepFacts DEF IsStep, IsAssignment, TypeOK
  <2>4. torn' = [torn EXCEPT ![t] =
                   torn[t] \union DOMAIN StepOf(t).writes \union StepOf(t).reads]
    BY <1>10 DEF Lose, TypeOK
  <2>5. OwnType
    BY <1>10, <2>1, <2>2, <2>3, <2>4, ForwardType DEF Lose, Forward
  <2> QED BY <1>10, <1>a, <2>5 DEF Lose, hw, lock, TypeOK
<1>11. CASE Execute \/ UNCHANGED vars
  BY <1>11 DEF Execute, calls, lock, vars, TypeOK
<1> QED
  BY <1>1, <1>2, <1>3, <1>4, <1>5, <1>6, <1>7, <1>8, <1>9, <1>10, <1>11 DEF Next, Moves

(***************************************************************************)
(* The unit's registers hold values and calls, and a thread that is in an  *)
(* operation is at one of its steps, for any threads and catalogue         *)
(* (Spruce_msdBrgVtu.c:1256-1585 and the functions of its kind).           *)
(***************************************************************************)
THEOREM TypeCorrect == Spec => []TypeOK
BY TypeInit, TypeStep, PTL DEF Spec

-----------------------------------------------------------------------------
(* The semaphore *)

(* How a step changes where its thread is.                                  *)
Moves1(t) == /\ pc[t] < Len(Program[op[t]]) /\ UNCHANGED op
             /\ pc' = [pc EXCEPT ![t] = @ + 1]
Leaves(t) == /\ op' = [op EXCEPT ![t] = None]
             /\ pc' = [pc EXCEPT ![t] = 1]

LEMMA AdvanceMoves ==
  ASSUME TypeOK, NEW t \in Threads, op[t] # None, Advance(t)
  PROVE  \/ Moves1(t) /\ UNCHANGED saved /\ torn'[t] = {f \in torn[t] : ~Sets(StepOf(t), f)}
         \/ Leaves(t) /\ pc[t] = Len(Program[op[t]])
<1>1. pc[t] \in 1 .. Len(Program[op[t]])
  BY DEF TypeOK
<1>2. Len(Program[op[t]]) \in Nat
  BY StepFacts DEF IsProgram
<1>3. CASE pc[t] < Len(Program[op[t]])
  <2>1. torn' = [torn EXCEPT ![t] = {f \in @ : ~Sets(StepOf(t), f)}]
    BY <1>3 DEF Advance
  <2>2. torn'[t] = {f \in torn[t] : ~Sets(StepOf(t), f)}
    BY <2>1 DEF TypeOK
  <2> QED BY <1>3, <2>2 DEF Advance, Moves1
<1>4. CASE ~(pc[t] < Len(Program[op[t]]))
  BY <1>1, <1>2, <1>4 DEF Advance, End, Leaves
<1> QED BY <1>3, <1>4

(* Nothing changes for the threads that do not make the step.               *)
LEMMA OthersHeld ==
  ASSUME TypeOK, NEW t \in Threads, Moves1(t) \/ Leaves(t), NEW u \in Threads, u # t
  PROVE  op'[u] = op[u] /\ pc'[u] = pc[u] /\ (Held(u)' <=> Held(u))
<1>1. op'[u] = op[u] /\ pc'[u] = pc[u]
  BY DEF TypeOK, Moves1, Leaves
<1> QED BY <1>1 DEF Held

(* The thread's own position.                                               *)
LEMMA OwnHeld ==
  ASSUME TypeOK, RulesHold, NEW t \in Threads, op[t] # None,
         Moves1(t) \/ (Leaves(t) /\ pc[t] = Len(Program[op[t]]))
  PROVE  /\ StepOf(t).do = "take" => Moves1(t) /\ ~Held(t) /\ Held(t)'
         /\ StepOf(t).do = "give" => Held(t) /\ ~Held(t)'
         /\ StepOf(t).do \notin {"take", "give"} => (Held(t)' <=> Held(t))
<1> DEFINE p == Program[op[t]]
           i == pc[t]
<1>1. IsProgram(p) /\ Paired(p) /\ i \in DOMAIN p /\ i \in Nat
  BY StepFacts DEF RulesHold, TypeOK
<1>2. /\ ~Inside(p, Len(p) + 1)
      /\ p[i].do = "take" => Inside(p, i + 1) /\ ~Inside(p, i)
      /\ p[i].do = "give" => Inside(p, i) /\ ~Inside(p, i + 1)
      /\ p[i].do \notin {"take", "give"} => (Inside(p, i + 1) <=> Inside(p, i))
  <2> HIDE DEF p, i
  <2> QED BY <1>1, InsideSteps
<1>3. StepOf(t) = p[i] /\ (Held(t) <=> Inside(p, i))
  BY DEF StepOf, Held
<1>4. CASE Moves1(t)
  <2>1. op'[t] = op[t] /\ pc'[t] = i + 1
    BY <1>4 DEF Moves1, TypeOK
  <2>2. Held(t)' <=> Inside(p, i + 1)
    BY <2>1 DEF Held
  <2> HIDE DEF p, i
  <2> QED BY <1>2, <1>3, <1>4, <2>2
<1>5. CASE Leaves(t) /\ i = Len(p)
  <2>1. ~Held(t)'
    BY <1>5 DEF Leaves, Held, TypeOK
  <2> HIDE DEF p, i
  <2> QED BY <1>2, <1>3, <1>5, <2>1
<1> QED BY <1>4, <1>5

(* A return leaves the semaphore with whoever else has it.                  *)
LEMMA ReturnLock ==
  ASSUME TypeOK, SemPaired, NEW t \in Threads, op[t] # None, NEW r, Return(t, r)
  PROVE  SemPaired'
<1>1. Leaves(t)
  BY DEF Return, End, Leaves
<1>2. ~Held(t)'
  BY <1>1 DEF Leaves, Held, TypeOK
<1>3. ASSUME NEW u \in Threads, u # t PROVE Held(u)' <=> Held(u)
  BY <1>1, <1>3, OthersHeld
<1>4. None \notin Threads
  BY UnitAssumption
<1>5. CASE sem = t
  BY <1>2, <1>3, <1>4, <1>5 DEF Return, Leave, SemPaired
<1>6. CASE sem # t
  BY <1>2, <1>3, <1>6 DEF Return, lock, SemPaired
<1> QED BY <1>5, <1>6

LEMMA LockStep == RulesHold /\ TypeOK /\ SemPaired /\ [Next]_vars => SemPaired'
<1> SUFFICES ASSUME RulesHold, TypeOK, SemPaired, [Next]_vars PROVE SemPaired'
  OBVIOUS
<1>0. /\ None \notin Threads
      /\ \A t \in Threads : \A kinds : At(t, kinds) => op[t] # None /\ StepOf(t).do \in kinds
  BY UnitAssumption DEF At
<1>a. ASSUME NEW t \in Threads, op[t] # None, StepOf(t).do \notin {"take", "give"},
             Moves1(t) \/ (Leaves(t) /\ pc[t] = Len(Program[op[t]])), UNCHANGED sem
      PROVE  SemPaired'
  BY <1>a, OwnHeld, OthersHeld DEF SemPaired
<1>b. ASSUME NEW t \in Threads, op[t] # None, StepOf(t).do \notin {"take", "give"},
             Advance(t), UNCHANGED sem
      PROVE  SemPaired'
  BY <1>a, <1>b, AdvanceMoves
<1>1. ASSUME NEW t \in Threads, Call(t) PROVE SemPaired'
  <2>1. PICK o \in unit : op' = [op EXCEPT ![t] = o]
    BY <1>1 DEF Call
  <2>2. op[t] = None /\ pc[t] = 1 /\ UNCHANGED <<pc, sem>> /\ o \in Ops
    BY <1>1 DEF Call, lock, TypeOK, Ops
  <2>3. op'[t] = o /\ \A u \in Threads : u # t => op'[u] = op[u]
    BY <2>1 DEF TypeOK
  <2>4. ~Inside(Program[o], 1)
    BY DEF Inside
  <2>5. ~Held(t)' /\ ~Held(t)
    BY <2>2, <2>3, <2>4 DEF Held
  <2>6. \A u \in Threads : u # t => (Held(u)' <=> Held(u))
    BY <2>2, <2>3 DEF Held
  <2> QED BY <2>2, <2>5, <2>6 DEF SemPaired
<1>2. ASSUME NEW t \in Threads, Take(t) PROVE SemPaired'
  <2>1. op[t] # None /\ StepOf(t).do = "take" /\ sem = None /\ sem' = t /\ Advance(t)
    BY <1>0, <1>2 DEF Take
  <2>2. Moves1(t) /\ Held(t)'
    BY <2>1, AdvanceMoves, OwnHeld
  <2>3. \A u \in Threads : u # t => (Held(u)' <=> Held(u))
    BY <2>2, OthersHeld
  <2> QED BY <1>0, <2>1, <2>2, <2>3 DEF SemPaired
<1>3. ASSUME NEW t \in Threads, Give(t) PROVE SemPaired'
  <2>1. op[t] # None /\ StepOf(t).do = "give" /\ sem' = None /\ Advance(t)
    BY <1>0, <1>3 DEF Give, Leave
  <2>2. Moves1(t) \/ (Leaves(t) /\ pc[t] = Len(Program[op[t]]))
    BY <2>1, AdvanceMoves
  <2>3. Held(t) /\ ~Held(t)'
    BY <2>1, <2>2, OwnHeld
  <2>4. \A u \in Threads : u # t => (Held(u)' <=> Held(u))
    BY <2>2, OthersHeld
  <2> QED BY <1>0, <2>1, <2>3, <2>4 DEF SemPaired
<1>4. ASSUME NEW t \in Threads, Wait(t) \/ PollGivesUp(t) \/ Get(t) \/ Write(t) PROVE SemPaired'
  BY <1>0, <1>4, <1>b DEF Wait, PollGivesUp, Get, Write, lock, Reads, Writes
<1>5. ASSUME NEW t \in Threads, Test(t) \/ Stop(t) PROVE SemPaired'
  BY <1>0, <1>5, <1>b, ReturnLock DEF Test, Stop, lock
<1>6. ASSUME NEW t \in Threads, Read(t) PROVE SemPaired'
  <2>1. pc[t] < Len(Program[op[t]])
    BY <1>0, <1>6, StepFacts DEF Read, StepOf, IsProgram
  <2>2. Moves1(t) /\ UNCHANGED sem
    BY <1>6, <2>1 DEF Read, Moves1, lock
  <2>3. op[t] # None /\ StepOf(t).do = "read"
    BY <1>0, <1>6 DEF Read
  <2> QED BY <1>a, <2>2, <2>3
<1>7. ASSUME NEW t \in Threads, Fail(t) PROVE SemPaired'
  BY <1>0, <1>7, ReturnLock DEF Fail
<1>8. ASSUME NEW t \in Threads, FailLate(t) PROVE SemPaired'
  BY <1>0, <1>8, ReturnLock DEF FailLate
<1>9. ASSUME NEW t \in Threads, Lose(t) PROVE SemPaired'
  <2>1. op[t] # None /\ StepOf(t).do \in Halves /\ pc[t] < Len(Program[op[t]])
    BY <1>9, LosesBeforeTheEnd
  <2>2. Moves1(t) /\ UNCHANGED sem /\ StepOf(t).do \notin {"take", "give"}
    BY <1>9, <2>1 DEF Lose, Moves1, lock, Halves
  <2> QED BY <1>a, <2>1, <2>2
<1>10. CASE Execute \/ UNCHANGED vars
  BY <1>10 DEF Execute, calls, vars, lock, SemPaired, Held
<1> QED
  BY <1>1, <1>2, <1>3, <1>4, <1>5, <1>6, <1>7, <1>8, <1>9, <1>10 DEF Next, Moves

-----------------------------------------------------------------------------
(* What the holder knows *)

(* A step of another thread leaves what it knows as it is: nobody else      *)
(* writes what it works with.                                               *)
LEMMA OthersKnow ==
  ASSUME TypeOK, KnowsInv, NEW u \in Threads,
         op'[u] = op[u], pc'[u] = pc[u], saved'[u] = saved[u], torn'[u] = torn[u],
         InCareful(u) /\ Held(u) =>
           /\ UNCHANGED <<last, before>> /\ (busy' => busy)
           /\ \A f \in Fields \intersect Uses(Program[op[u]]) : regs'[f] = regs[f],
         InCareful(u)', Held(u)'
  PROVE  Knows(u)'
<1> DEFINE p == Program[op[u]]
           i == pc[u]
<1>1. InCareful(u) /\ Held(u) /\ op[u] # None
  BY DEF InCareful, Held
<1>2. /\ Knows(u) /\ UNCHANGED <<last, before>> /\ (busy' => busy)
      /\ \A f \in Fields \intersect Uses(p) : regs'[f] = regs[f]
  BY <1>1 DEF KnowsInv
<1>3. \A f : /\ (\E v : Ready(p, i, f, v)) => f \in Uses(p)
             /\ Fresh(p, i, f) => f \in Uses(p)
             /\ IsPutBack(p, f) => f \in Uses(p)
  <2>1. IsProgram(p) /\ i \in DOMAIN p
    BY <1>1, StepFacts
  <2> HIDE DEF p, i
  <2> QED BY <2>1, AboutUses
<1>4. QuietInv(u)' /\ LastInv(u)'
  BY <1>2 DEF Knows, QuietInv, LastInv
<1>5. ReadyInv(u)'
  <2> SUFFICES ASSUME NEW f \in Fields, NEW v \in Values \union {Own}, Ready(p, i, f, v)
               PROVE  f \in torn'[u] \/ regs'[f] = Value(u, f, v)'
    BY DEF ReadyInv
  <2>1. f \in torn[u] \/ regs[f] = Value(u, f, v)
    BY <1>2 DEF Knows, ReadyInv
  <2>2. Value(u, f, v)' = Value(u, f, v)
    BY DEF Value
  <2>3. regs'[f] = regs[f]
    BY <1>2, <1>3
  <2> QED BY <2>1, <2>2, <2>3
<1>6. FreshInv(u)'
  BY <1>2, <1>3 DEF Knows, FreshInv
<1>7. BeforeInv(u)'
  BY <1>2, <1>3 DEF Knows, BeforeInv
<1> QED BY <1>4, <1>5, <1>6, <1>7 DEF Knows

(* The steps at which a thread outside writes: not what a careful operation *)
(* of its unit uses, and no command.                                        *)
LEMMA OutsideWrites ==
  ASSUME TypeOK, RulesHold, NEW t \in Threads, op[t] # None, ~Held(t),
         NEW o \in unit, o \in CarefulOps
  PROVE  /\ StepOf(t).do # "cmd"
         /\ \A f \in Fields \intersect Uses(Program[o]) : Written(t)[f] = regs[f]
<1> DEFINE p == Program[op[t]]
           i == pc[t]
<1>1. i \in DOMAIN p /\ ~Inside(p, i) /\ StepOf(t) = p[i]
  BY StepFacts DEF Held, StepOf
<1>2. unit \in Units /\ op[t] \in unit
  BY DEF TypeOK
<1>3. Sheltered(o)
  BY DEF RulesHold
<1>4. KeepsOutOf(p, Uses(Program[o]))
  BY <1>2, <1>3 DEF Sheltered
<1>5. p[i].do # "cmd" /\ DOMAIN p[i].writes \intersect Uses(Program[o]) = {}
  <2> HIDE DEF p, i
  <2> QED BY <1>1, <1>4 DEF KeepsOutOf
<1> QED BY <1>1, <1>5 DEF Written

(* The rules a careful program keeps at the step its thread is at.          *)
LEMMA CarefulStep ==
  ASSUME TypeOK, RulesHold, NEW t \in Threads, InCareful(t)
  PROVE  LET p == Program[op[t]] s == StepOf(t) i == pc[t] IN
         /\ op[t] # None /\ i \in Nat \ {0} /\ s = p[i]
         /\ s.do \notin Writes => s.writes = <<>>
         /\ s.do = "putHalf" => s.writes \in [DOMAIN s.writes -> {Own}]
         /\ s.writes # <<>> => Inside(p, i)
         /\ s.do \in Writes \union Reads => Inside(p, i) /\ Quiet(p, i)
         /\ s.do \in {"cmd", "look", "getHalf"} =>
              \A f \in DOMAIN s.need : s.need[f] \notin {Saved, Found} /\ Ready(p, i, f, s.need[f])
         /\ s.do = "get" => \E j \in 1 .. i - 1 : IsLastCommand(p, i, j)
         /\ \A f \in DOMAIN s.writes :
              /\ s.writes[f] = Saved => Fresh(p, i, f)
              /\ f \in Settings => s.writes[f] = Saved \/ (s.do = "put" /\ s.writes[f] = Own)
         /\ \A f \in Fields : IsPutBack(p, f) /\ s.do = "read" /\ f \in s.reads => Untouched(p, i, f)
<1>1. op[t] # None
  BY UnitAssumption DEF InCareful
<1>2. /\ Careful(Program[op[t]]) /\ IsStep(StepOf(t)) /\ StepOf(t) = Program[op[t]][pc[t]]
      /\ pc[t] \in DOMAIN Program[op[t]] /\ pc[t] \in Nat \ {0}
  BY <1>1, StepFacts DEF RulesHold, InCareful, TypeOK, StepOf
<1>3. /\ StepOf(t).do \notin Writes => StepOf(t).writes = <<>>
      /\ StepOf(t).do = "putHalf" => StepOf(t).writes \in [DOMAIN StepOf(t).writes -> {Own}]
  BY <1>2 DEF IsStep
<1>4. StepOf(t).do \in Writes \union Reads =>
        Inside(Program[op[t]], pc[t]) /\ Quiet(Program[op[t]], pc[t])
  BY <1>2 DEF Careful
<1> QED BY <1>1, <1>2, <1>3, <1>4 DEF Careful

(* What a write puts into a register that it does not set is what was there.*)
LEMMA WrittenBack ==
  ASSUME TypeOK, RulesHold, NEW t \in Threads, InCareful(t), Held(t), Knows(t),
         NEW f \in Fields, ~Sets(StepOf(t), f)
  PROVE  Written(t)[f] = regs[f]
<1>1. CASE f \notin DOMAIN StepOf(t).writes
  BY <1>1 DEF Written
<1>2. CASE f \in DOMAIN StepOf(t).writes
  <2>1. StepOf(t).writes[f] = Saved
    BY <1>2 DEF Sets
  <2>2. saved[t][f] = regs[f]
    BY <1>2, <2>1, CarefulStep DEF Knows, FreshInv
  <2>3. Saved # Own
    BY DEF Saved, Own
  <2> QED BY <1>2, <2>1, <2>2, <2>3 DEF Written, Value
<1> QED BY <1>1, <1>2

(* The holder's own step, when it goes on inside: new is what the step      *)
(* leaves in the registers, rem what the thread remembers.                  *)
LEMMA OwnKnows ==
  ASSUME TypeOK, RulesHold, NEW t \in Threads, InCareful(t), Held(t), Knows(t), Moves1(t),
         /\ StepOf(t).do = "wait" => ~busy'
         /\ StepOf(t).do # "cmd" => (busy' => busy) /\ last' = last
         /\ StepOf(t).do = "cmd" => last' = [by |-> t, at |-> pc[t]],
         regs' = Written(t), before' = before,
         torn'[t] = {f \in torn[t] : ~Sets(StepOf(t), f)},
         \A f \in Fields : saved'[t][f] = IF StepOf(t).do = "read" /\ f \in StepOf(t).reads
                                         THEN regs[f] ELSE saved[t][f]
  PROVE  Knows(t)'
<1> DEFINE p == Program[op[t]]
           i == pc[t]
<1>1. op'[t] = op[t] /\ pc'[t] = i + 1 /\ i \in Nat /\ StepOf(t) = p[i]
  BY DEF Moves1, TypeOK, StepOf
<1>2. QuietInv(t)'
  <2> SUFFICES ASSUME Quiet(p, i + 1) PROVE ~busy'
    BY <1>1 DEF QuietInv
  <2>1. p[i].do = "wait" \/ (Quiet(p, i) /\ p[i].do # "cmd")
    BY <1>1, QuietStep
  <2> QED BY <1>1, <2>1 DEF Knows, QuietInv
<1>3. ReadyInv(t)'
  <2> SUFFICES ASSUME NEW f \in Fields, NEW v \in Values \union {Own}, Ready(p, i + 1, f, v)
               PROVE  f \in torn'[t] \/ regs'[f] = Value(t, f, v)'
    BY <1>1 DEF ReadyInv
  <2>1. v \notin {Saved, Found}
    BY UnitAssumption DEF Own, Saved, Found
  <2>2. Value(t, f, v)' = Value(t, f, v)
    BY <2>1 DEF Value
  <2>3. \/ Sets(p[i], f) /\ p[i].writes[f] = v
        \/ Ready(p, i, f, v) /\ ~Sets(p[i], f)
    BY <1>1, ReadyStep
  <2>4. CASE Sets(p[i], f) /\ p[i].writes[f] = v
    BY <1>1, <2>2, <2>4 DEF Written, Sets
  <2>5. CASE Ready(p, i, f, v) /\ ~Sets(p[i], f)
    BY <1>1, <2>2, <2>5, WrittenBack DEF Knows, ReadyInv
  <2> QED BY <2>3, <2>4, <2>5
<1>4. FreshInv(t)'
  <2> SUFFICES ASSUME NEW f \in Fields, Fresh(p, i + 1, f) PROVE saved'[t][f] = regs'[f]
    BY <1>1 DEF FreshInv
  <2>1. \/ (p[i].do = "read" /\ f \in p[i].reads) \/ PutsBack(p[i], f)
        \/ Fresh(p, i, f) /\ ~Sets(p[i], f)
    BY <1>1, FreshStep
  <2>2. CASE p[i].do = "read" /\ f \in p[i].reads
    <3>1. StepOf(t).writes = <<>> /\ DOMAIN <<>> = {}
      BY <1>1, <2>2, CarefulStep DEF Writes
    <3> QED BY <1>1, <2>2, <3>1 DEF Written
  <2>3. CASE Fresh(p, i, f) /\ ~Sets(p[i], f)
    BY <1>1, <2>3, WrittenBack DEF Knows, FreshInv
  <2>4. CASE PutsBack(p[i], f)
    <3>1. regs'[f] = saved[t][f]
      BY <1>1, <2>4 DEF Written, PutsBack, Value, Own, Found
    <3>2. p[i].do # "read"
      BY <1>1, <2>4, CarefulStep DEF PutsBack, Writes
    <3> QED BY <1>1, <3>1, <3>2
  <2> QED BY <2>1, <2>2, <2>3, <2>4
<1>5. LastInv(t)'
  <2> SUFFICES ASSUME NEW j \in Nat, IsLastCommand(p, i + 1, j)
               PROVE  last' = [by |-> t, at |-> j]
    BY <1>1 DEF LastInv
  <2>1. (j = i /\ p[i].do = "cmd") \/ (IsLastCommand(p, i, j) /\ p[i].do # "cmd")
    BY <1>1, LastStep
  <2> QED BY <1>1, <2>1 DEF Knows, LastInv
<1>6. BeforeInv(t)'
  <2> SUFFICES ASSUME NEW f \in Fields, IsPutBack(p, f)
               PROVE  /\ Untouched(p, i + 1, f) => regs'[f] = before[f]
                      /\ Noted(p, i + 1, f) => saved'[t][f] = before[f]
    BY <1>1 DEF BeforeInv
  <2>1. /\ Untouched(p, i, f) => regs[f] = before[f]
        /\ Noted(p, i, f) => saved[t][f] = before[f]
    BY DEF Knows, BeforeInv
  <2>2. i \in Nat \ {0}
    BY CarefulStep
  <2>3. ASSUME Untouched(p, i + 1, f) PROVE regs'[f] = before[f]
    <3>1. Untouched(p, i, f) /\ ~Sets(p[i], f)
      BY <2>2, <2>3, NotedStep
    <3> QED BY <1>1, <2>1, <3>1, WrittenBack
  <2>4. ASSUME Noted(p, i + 1, f) PROVE saved'[t][f] = before[f]
    <3>1. CASE p[i].do = "read" /\ f \in p[i].reads
      <4>1. Untouched(p, i, f)
        BY <1>1, <3>1, CarefulStep
      <4> QED BY <1>1, <2>1, <3>1, <4>1
    <3>2. CASE ~(p[i].do = "read" /\ f \in p[i].reads)
      <4>1. Noted(p, i, f)
        BY <2>2, <2>4, <3>2, NotedStep
      <4> QED BY <1>1, <2>1, <3>2, <4>1
    <3> QED BY <3>1, <3>2
  <2> QED BY <2>3, <2>4
<1> QED BY <1>2, <1>3, <1>4, <1>5, <1>6 DEF Knows

(* A half that is lost leaves the unit as it was, and is remembered as lost. *)
LEMMA LoseKnows ==
  ASSUME TypeOK, RulesHold, NEW t \in Threads, InCareful(t), Held(t), Knows(t), Moves1(t), Lose(t)
  PROVE  Knows(t)'
<1> DEFINE p == Program[op[t]]
           i == pc[t]
<1>1. /\ op'[t] = op[t] /\ pc'[t] = i + 1 /\ i \in Nat \ {0} /\ StepOf(t) = p[i]
      /\ UNCHANGED <<saved, sem, before, regs, busy, last>>
  BY DEF Moves1, TypeOK, StepOf, Lose, hw, lock
<1>2. p[i].do \in Halves /\ p[i].do \notin {"wait", "read", "cmd"}
  BY <1>1 DEF Lose, At, Halves
<1>3. torn'[t] = torn[t] \union DOMAIN p[i].writes \union p[i].reads
  BY <1>1 DEF Lose, TypeOK
<1>4. \A f : ~PutsBack(p[i], f)
  <2>1. CASE p[i].do = "putHalf"
    BY <1>1, <2>1, CarefulStep DEF PutsBack, Own, Found
  <2>2. CASE p[i].do # "putHalf"
    <3>1. p[i].writes = <<>>
      BY <1>1, <1>2, <2>2, CarefulStep DEF Halves, Writes
    <3>2. DOMAIN p[i].writes = {}
      BY <3>1
    <3> QED BY <3>2 DEF PutsBack
  <2> QED BY <2>1, <2>2
<1>5. QuietInv(t)'
  <2> SUFFICES ASSUME Quiet(p, i + 1) PROVE ~busy'
    BY <1>1 DEF QuietInv
  <2>1. Quiet(p, i)
    BY <1>1, <1>2, QuietStep
  <2> QED BY <1>1, <2>1 DEF Knows, QuietInv
<1>6. ReadyInv(t)'
  <2> SUFFICES ASSUME NEW f \in Fields, NEW v \in Values \union {Own}, Ready(p, i + 1, f, v)
               PROVE  f \in torn'[t] \/ regs'[f] = Value(t, f, v)'
    BY <1>1 DEF ReadyInv
  <2>1. \/ Sets(p[i], f) /\ p[i].writes[f] = v
        \/ Ready(p, i, f, v) /\ ~Sets(p[i], f)
    BY <1>1, ReadyStep
  <2>2. CASE Sets(p[i], f)
    BY <1>3, <2>2 DEF Sets
  <2>3. CASE Ready(p, i, f, v)
    <3>1. f \in torn[t] \/ regs[f] = Value(t, f, v)
      BY <2>3 DEF Knows, ReadyInv
    <3>2. Value(t, f, v)' = Value(t, f, v)
      BY <1>1 DEF Value
    <3> QED BY <1>1, <1>3, <3>1, <3>2
  <2> QED BY <2>1, <2>2, <2>3
<1>7. FreshInv(t)'
  <2> SUFFICES ASSUME NEW f \in Fields, Fresh(p, i + 1, f) PROVE saved'[t][f] = regs'[f]
    BY <1>1 DEF FreshInv
  <2>1. Fresh(p, i, f)
    BY <1>1, <1>2, <1>4, FreshStep
  <2> QED BY <1>1, <2>1 DEF Knows, FreshInv
<1>8. LastInv(t)'
  <2> SUFFICES ASSUME NEW j \in Nat, IsLastCommand(p, i + 1, j)
               PROVE  last' = [by |-> t, at |-> j]
    BY <1>1 DEF LastInv
  <2>1. IsLastCommand(p, i, j)
    BY <1>1, <1>2, LastStep
  <2> QED BY <1>1, <2>1 DEF Knows, LastInv
<1>9. BeforeInv(t)'
  <2> SUFFICES ASSUME NEW f \in Fields, IsPutBack(p, f)
               PROVE  /\ Untouched(p, i + 1, f) => regs'[f] = before'[f]
                      /\ Noted(p, i + 1, f) => saved'[t][f] = before'[f]
    BY <1>1 DEF BeforeInv
  <2>1. /\ Untouched(p, i + 1, f) => Untouched(p, i, f)
        /\ Noted(p, i + 1, f) => Noted(p, i, f)
    BY <1>1, <1>2, NotedStep
  <2>2. /\ Untouched(p, i, f) => regs[f] = before[f]
        /\ Noted(p, i, f) => saved[t][f] = before[f]
    BY DEF Knows, BeforeInv
  <2> QED BY <1>1, <2>1, <2>2
<1> QED BY <1>5, <1>6, <1>7, <1>8, <1>9 DEF Knows

(* Right after its take a careful call knows nothing of the unit yet.       *)
LEMMA TakeKnows ==
  ASSUME TypeOK, RulesHold, NEW t \in Threads, InCareful(t), Moves1(t), StepOf(t).do = "take",
         before' = FoundBy(t), regs' = regs
  PROVE  Knows(t)'
<1> DEFINE p == Program[op[t]]
           i == pc[t]
<1>1. op'[t] = op[t] /\ pc'[t] = i + 1 /\ i \in Nat /\ p[i].do = "take" /\ op[t] # None
  BY UnitAssumption DEF Moves1, TypeOK, StepOf, InCareful
<1>2. \A j \in 1 .. i : ~Inside(p, j)
  <2>1. IsProgram(p) /\ Paired(p) /\ Careful(p) /\ i \in DOMAIN p
    BY <1>1, StepFacts DEF RulesHold, InCareful
  <2> HIDE DEF p, i
  <2> QED BY <1>1, <2>1, TakeIsFirst
<1>3. /\ ~Quiet(p, i + 1) /\ \A j : ~IsLastCommand(p, i + 1, j)
      /\ \A f, v : ~Ready(p, i + 1, f, v) /\ ~Fresh(p, i + 1, f) /\ ~Noted(p, i + 1, f)
  BY <1>1, <1>2, NothingYet
<1>4. \A f \in Fields : IsPutBack(p, f) => regs'[f] = before'[f]
  BY DEF FoundBy
<1> QED BY <1>1, <1>3, <1>4 DEF Knows, QuietInv, ReadyInv, FreshInv, LastInv, BeforeInv

ThreadStep(t) == Call(t) \/ Take(t) \/ Moves(t) \/ Lose(t) \/ Fail(t) \/ FailLate(t)

(* A step changes the variables of its thread only,                         *)
LEMMA OthersUnchanged ==
  ASSUME TypeOK, NEW t \in Threads, ThreadStep(t), NEW u \in Threads, u # t
  PROVE  op'[u] = op[u] /\ pc'[u] = pc[u] /\ saved'[u] = saved[u] /\ torn'[u] = torn[u]
<1> USE DEF TypeOK
<1> DEFINE same == op'[u] = op[u] /\ pc'[u] = pc[u] /\ saved'[u] = saved[u] /\ torn'[u] = torn[u]
<1>0. ASSUME End(t) PROVE same
  BY <1>0 DEF End
<1>1. ASSUME Advance(t) PROVE same
  BY <1>0, <1>1 DEF Advance
<1>2. ASSUME NEW r, Return(t, r) PROVE same
  BY <1>0, <1>2 DEF Return
<1>3. CASE Call(t) \/ Read(t) \/ Lose(t)
  BY <1>3 DEF Call, Read, Lose
<1>4. CASE Take(t) \/ Wait(t) \/ PollGivesUp(t) \/ Write(t) \/ Get(t) \/ Give(t)
  BY <1>1, <1>4 DEF Take, Wait, PollGivesUp, Write, Get, Give
<1>5. CASE Test(t) \/ Stop(t) \/ Fail(t) \/ FailLate(t)
  BY <1>1, <1>2, <1>5 DEF Test, Stop, Fail, FailLate
<1> QED BY <1>3, <1>4, <1>5 DEF ThreadStep, Moves

(* and of the unit, if its thread does not have the semaphore, at most what *)
(* its write puts there.                                                    *)
LEMMA OutsideKeepsUnit ==
  ASSUME TypeOK, SemPaired, RulesHold, NEW t \in Threads, ThreadStep(t), ~Held(t)
  PROVE  /\ UNCHANGED hw \/ (At(t, Writes) /\ regs' = Written(t))
         /\ At(t, Writes) /\ StepOf(t).do # "cmd" => UNCHANGED <<busy, last>>
         /\ sem # None => UNCHANGED before
<1>1. sem # t
  BY DEF SemPaired
<1>2. ASSUME NEW r, Return(t, r) PROVE regs' = r /\ last' = last /\ before' = before
  BY <1>1, <1>2 DEF Return, lock
<1>3. CASE Call(t) \/ Take(t) \/ Wait(t) \/ PollGivesUp(t) \/ Read(t) \/ Get(t) \/ Lose(t)
  BY <1>3 DEF Call, Take, Wait, PollGivesUp, Read, Get, Lose, hw, lock
<1>4. CASE Test(t) \/ Stop(t) \/ Fail(t)
  BY <1>2, <1>4 DEF Test, Stop, Fail, hw, lock
<1>5. CASE Write(t)
  BY <1>5 DEF Write, Arrives, lock
<1>6. CASE FailLate(t)
  <2>1. At(t, Writes) /\ op[t] # None
    BY <1>6 DEF FailLate, At, Writes
  <2>2. StepOf(t).do # "cmd" => busy' = busy
    BY <1>6 DEF FailLate, TypeOK
  <2> QED BY <1>2, <1>6, <2>1, <2>2 DEF FailLate
<1>7. CASE Give(t)
  <2>1. op[t] # None /\ StepOf(t).do = "give"
    BY <1>7 DEF Give, At
  <2>2. Paired(Program[op[t]]) /\ pc[t] \in DOMAIN Program[op[t]]
    BY <2>1, StepFacts DEF RulesHold
  <2>3. Held(t)
    BY <2>1, <2>2 DEF Held, Paired, StepOf
  <2> QED BY <2>3
<1> QED BY <1>3, <1>4, <1>5, <1>6, <1>7 DEF ThreadStep, Moves

(* Nothing that a careful call with the semaphore has to do with, then.     *)
LEMMA OutsideKeepsOut ==
  ASSUME TypeOK, SemPaired, RulesHold, NEW t \in Threads, ThreadStep(t), ~Held(t),
         NEW u \in Threads, InCareful(u), Held(u)
  PROVE  /\ UNCHANGED <<last, before>> /\ (busy' => busy)
         /\ \A f \in Fields \intersect Uses(Program[op[u]]) : regs'[f] = regs[f]
<1>1. sem # None
  BY UnitAssumption DEF SemPaired
<1>2. op[u] \in unit /\ op[u] \in CarefulOps
  BY UnitAssumption DEF TypeOK, InCareful
<1>3. CASE UNCHANGED hw
  BY <1>1, <1>3, OutsideKeepsUnit DEF hw
<1>4. CASE At(t, Writes) /\ regs' = Written(t)
  <2>1. op[t] # None
    BY <1>4 DEF At
  <2>2. /\ StepOf(t).do # "cmd"
        /\ \A f \in Fields \intersect Uses(Program[op[u]]) : Written(t)[f] = regs[f]
    BY <1>2, <2>1, OutsideWrites
  <2> QED BY <1>1, <1>4, <2>2, OutsideKeepsUnit
<1> QED BY <1>3, <1>4, OutsideKeepsUnit

(* A careful call writes nothing outside.                                   *)
LEMMA CarefulOutside ==
  ASSUME TypeOK, SemPaired, RulesHold, NEW t \in Threads, ThreadStep(t), ~Held(t), InCareful(t)
  PROVE  regs' = regs
<1>1. ~At(t, Writes)
  BY CarefulStep DEF At, Held
<1> QED BY <1>1, OutsideKeepsUnit DEF hw

(* The thread that makes a step knows what the step has established.        *)
LEMMA OwnStepKnows ==
  ASSUME Inv, RulesHold, NEW t \in Threads, ThreadStep(t), InCareful(t)', Held(t)'
  PROVE  Knows(t)'
<1> USE DEF Inv
<1>1. op'[t] # None
  BY DEF Held
<1>2. ASSUME NEW r, Return(t, r) PROVE FALSE
  BY <1>1, <1>2 DEF Return, End, TypeOK
<1>3. ASSUME op[t] # None, Advance(t)
      PROVE  Moves1(t) /\ UNCHANGED saved /\ torn'[t] = {f \in torn[t] : ~Sets(StepOf(t), f)}
  BY <1>1, <1>3, AdvanceMoves DEF Leaves, TypeOK
<1>4. CASE Call(t)
  <2>1. pc'[t] = 1
    BY <1>4 DEF Call, TypeOK
  <2> QED BY <2>1 DEF Held, Inside
<1>5. CASE Take(t)
  <2>1. op[t] # None /\ StepOf(t).do = "take"
    BY <1>5 DEF Take, At
  <2>2. Moves1(t) /\ before' = FoundBy(t) /\ regs' = regs
    BY <1>3, <1>5, <2>1 DEF Take, hw
  <2>3. InCareful(t)
    BY <2>2 DEF InCareful, Moves1
  <2> QED BY <2>1, <2>2, <2>3, TakeKnows
<1>6. CASE Give(t)
  <2>1. op[t] # None /\ StepOf(t).do = "give"
    BY <1>6 DEF Give, At
  <2>2. Moves1(t)
    BY <1>3, <1>6, <2>1 DEF Give
  <2> QED BY <2>1, <2>2, OwnHeld
<1>a. ASSUME op[t] # None, Moves1(t), StepOf(t).do \notin {"take", "give"}, UNCHANGED lock,
             /\ StepOf(t).do = "wait" => ~busy'
             /\ StepOf(t).do # "cmd" => (busy' => busy) /\ last' = last
             /\ StepOf(t).do = "cmd" => last' = [by |-> t, at |-> pc[t]],
             StepOf(t).do \in Writes => regs' = Written(t),
             StepOf(t).do \notin Writes => regs' = regs,
             torn'[t] = {f \in torn[t] : ~Sets(StepOf(t), f)},
             StepOf(t).do # "read" => UNCHANGED saved,
             StepOf(t).do = "read" =>
               \A f \in Fields : saved'[t][f] = IF f \in StepOf(t).reads
                                               THEN regs[f] ELSE saved[t][f]
      PROVE  Knows(t)'
  <2>1. Held(t)
    BY <1>a, OwnHeld
  <2>2. InCareful(t)
    BY <1>a DEF InCareful, Moves1
  <2>3. Knows(t)
    BY <2>1, <2>2 DEF KnowsInv
  <2>4. regs' = Written(t)
    <3>1. CASE StepOf(t).do \notin Writes
      <4>1. StepOf(t).writes = <<>> /\ DOMAIN <<>> = {}
        BY <2>2, <3>1, CarefulStep
      <4>2. Written(t) = [f \in Fields |-> regs[f]]
        BY <4>1 DEF Written
      <4> QED BY <1>a, <3>1, <4>2 DEF TypeOK
    <3> QED BY <1>a, <3>1
  <2>5. \A f \in Fields : saved'[t][f] = IF StepOf(t).do = "read" /\ f \in StepOf(t).reads
                                        THEN regs[f] ELSE saved[t][f]
    BY <1>a
  <2>6. before' = before
    BY <1>a DEF lock
  <2> QED BY <1>a, <2>1, <2>2, <2>3, <2>4, <2>5, <2>6, OwnKnows
<1>7. CASE Wait(t)
  <2>1. op[t] # None /\ StepOf(t).do = "wait" /\ ~busy /\ UNCHANGED hw
    BY <1>7 DEF Wait, At
  <2> QED BY <1>3, <1>7, <1>a, <2>1 DEF Wait, hw, Writes
<1>8. CASE PollGivesUp(t) \/ Get(t)
  <2>1. op[t] # None /\ StepOf(t).do \in Reads \union {"poll"} /\ UNCHANGED hw
    BY <1>8 DEF PollGivesUp, Get, At
  <2>2. StepOf(t).do \notin Writes \union {"take", "give", "wait", "cmd", "read"}
    BY <2>1 DEF Reads, Writes
  <2> QED BY <1>3, <1>8, <1>a, <2>1, <2>2 DEF PollGivesUp, Get, hw
<1>9. CASE Test(t) \/ Stop(t)
  <2>1. /\ op[t] # None /\ StepOf(t).do \in {"test", "stop"} /\ Advance(t)
        /\ UNCHANGED <<hw, lock>>
    BY <1>2, <1>9 DEF Test, Stop, At, hw
  <2> QED BY <1>3, <1>a, <2>1 DEF hw, Writes
<1>10. CASE Write(t)
  <2>1. /\ op[t] # None /\ StepOf(t).do \in Writes /\ Advance(t) /\ Arrives(t)
        /\ UNCHANGED lock
    BY <1>10 DEF Write, At
  <2>2. StepOf(t).do \notin {"take", "give", "wait", "read"}
    BY <2>1 DEF Writes
  <2> QED BY <1>3, <1>a, <2>1, <2>2 DEF Arrives
<1>11. CASE Read(t)
  <2>1. op[t] # None /\ StepOf(t).do = "read" /\ UNCHANGED <<hw, lock>>
    BY <1>11 DEF Read, At
  <2>2. Moves1(t)
    <3>1. pc[t] < Len(Program[op[t]])
      BY <2>1, StepFacts DEF StepOf, IsProgram
    <3> QED BY <1>11, <3>1 DEF Read, Moves1
  <2>3. \A f \in Fields : saved'[t][f] = IF f \in StepOf(t).reads THEN regs[f] ELSE saved[t][f]
    BY <1>11 DEF Read, TypeOK
  <2>4. \A f : ~Sets(StepOf(t), f)
    <3>1. StepOf(t).writes = <<>>
      BY <2>1, StepFacts DEF IsStep, Writes
    <3>2. DOMAIN StepOf(t).writes = {}
      BY <3>1
    <3> QED BY <3>2 DEF Sets
  <2>5. torn'[t] = {f \in torn[t] : ~Sets(StepOf(t), f)}
    BY <1>11, <2>4 DEF Read
  <2> QED BY <1>a, <2>1, <2>2, <2>3, <2>5 DEF hw, Writes
<1>12. CASE Lose(t)
  <2>1. op[t] # None /\ StepOf(t).do \in Halves /\ pc[t] < Len(Program[op[t]])
    BY <1>12, LosesBeforeTheEnd
  <2>2. Moves1(t) /\ StepOf(t).do \notin {"take", "give"}
    BY <1>12, <2>1 DEF Lose, Moves1, Halves
  <2>3. Held(t) /\ InCareful(t)
    BY <2>1, <2>2, OwnHeld DEF InCareful, Moves1
  <2> QED BY <1>12, <2>2, <2>3, LoseKnows DEF KnowsInv
<1>13. CASE Fail(t) \/ FailLate(t)
  BY <1>2, <1>13 DEF Fail, FailLate
<1> QED BY <1>4, <1>5, <1>6, <1>7, <1>8, <1>9, <1>10, <1>11, <1>12, <1>13 DEF ThreadStep, Moves

LEMMA InvStep == RulesHold /\ Inv /\ [Next]_vars => Inv'
<1> SUFFICES ASSUME RulesHold, Inv, [Next]_vars PROVE Inv'
  OBVIOUS
<1>1. TypeOK' /\ SemPaired'
  BY TypeStep, LockStep DEF Inv
<1>2. ASSUME NEW t \in Threads, ThreadStep(t) PROVE KnowsInv'
  <2> SUFFICES ASSUME NEW u \in Threads, InCareful(u)', Held(u)' PROVE Knows(u)'
    BY DEF KnowsInv
  <2>1. CASE u = t
    BY <1>2, <2>1, OwnStepKnows
  <2>2. CASE u # t
    <3>1. op'[u] = op[u] /\ pc'[u] = pc[u] /\ saved'[u] = saved[u] /\ torn'[u] = torn[u]
      BY <1>2, <2>2, OthersUnchanged DEF Inv
    <3>2. Held(u) => ~Held(t)
      BY <2>2 DEF Inv, SemPaired
    <3>3. InCareful(u) /\ Held(u) =>
            /\ UNCHANGED <<last, before>> /\ (busy' => busy)
            /\ \A f \in Fields \intersect Uses(Program[op[u]]) : regs'[f] = regs[f]
      BY <1>2, <3>2, OutsideKeepsOut DEF Inv
    <3> QED BY <3>1, <3>3, OthersKnow DEF Inv
  <2> QED BY <2>1, <2>2
<1>3. ASSUME Execute \/ UNCHANGED vars PROVE KnowsInv'
  <2> SUFFICES ASSUME NEW u \in Threads, InCareful(u)', Held(u)' PROVE Knows(u)'
    BY DEF KnowsInv
  <2>1. /\ UNCHANGED <<op, pc, saved, torn, regs, last, before>>
        /\ busy' => busy
    BY <1>3 DEF Execute, calls, vars, lock
  <2> QED BY <2>1, OthersKnow DEF Inv
<1>4. KnowsInv'
  BY <1>2, <1>3 DEF Next, ThreadStep
<1> QED BY <1>1, <1>4 DEF Inv

LEMMA InvInit == Init => Inv
<1> SUFFICES ASSUME Init PROVE Inv
  OBVIOUS
<1>1. \A t \in Threads : ~Held(t)
  BY DEF Init, Held
<1>2. \A t \in Threads : sem # t
  BY UnitAssumption DEF Init
<1> QED BY <1>1, <1>2, TypeInit DEF Inv, SemPaired, KnowsInv

LEMMA InvHolds ==
  ASSUME RulesHold
  PROVE  Spec => []Inv
<1>1. Inv /\ [Next]_vars => Inv'
  BY InvStep
<1> QED BY <1>1, InvInit, PTL DEF Spec

-----------------------------------------------------------------------------
(***************************************************************************)
(* If the programs keep the rules, the semaphore of a unit is with a       *)
(* thread exactly from the take to the give of its program, and free       *)
(* between calls: no early return, bounded loop that gives up or failed    *)
(* access leaves it taken, and none gives that of another thread           *)
(* (Spruce_msdBrgFdb.c:2118, Spruce_msdPIRL.c:859 and the like).           *)
(***************************************************************************)
THEOREM SemaphoreIsPaired ==
  ASSUME RulesHold
  PROVE  Spec => []SemPaired
<1>1. Inv => SemPaired
  BY DEF Inv
<1> QED BY <1>1, InvHolds, PTL

(***************************************************************************)
(* The calls of a catalogue that keeps the rules do not disturb each other,*)
(* whatever accesses fail and whichever other calls, careful or not, the   *)
(* other threads make: operands and commands are not written to a busy     *)
(* unit (the loops on the busy bit, such as Spruce_msdBrgVtu.c:1275-1285), *)
(***************************************************************************)
THEOREM CallsDoNotOverrun ==
  ASSUME RulesHold
  PROVE  Spec => []NoOverrun
<1>1. Inv => NoOverrun
  <2> SUFFICES ASSUME Inv, NEW t \in Threads, InCareful(t), At(t, Writes) PROVE ~busy
    BY DEF NoOverrun
  <2>1. Held(t) /\ Quiet(Program[op[t]], pc[t])
    BY CarefulStep DEF At, Held, Inv
  <2> QED BY <2>1 DEF Inv, KnowsInv, Knows, QuietInv
<1> QED BY <1>1, InvHolds, PTL

(***************************************************************************)
(* the unit finds the operands of the call whose command it executes       *)
(* (Spruce_msdBrgFdb.c:2123-2221 and the functions of its kind),           *)
(***************************************************************************)
THEOREM CommandsHaveTheirOperands ==
  ASSUME RulesHold
  PROVE  Spec => []OwnOperands
<1>1. Inv => OwnOperands
  <2> SUFFICES ASSUME Inv, NEW t \in Threads, InCareful(t),
                      At(t, {"cmd", "look", "getHalf"}),
                      NEW f \in DOMAIN StepOf(t).need \ torn[t]
               PROVE  regs[f] = Value(t, f, StepOf(t).need[f])
    BY DEF OwnOperands
  <2>1. /\ op[t] # None /\ Inside(Program[op[t]], pc[t])
        /\ StepOf(t).need[f] \notin {Saved, Found}
        /\ Ready(Program[op[t]], pc[t], f, StepOf(t).need[f])
    BY CarefulStep DEF At, Inv, Writes, Reads
  <2>2. f \in Fields /\ StepOf(t).need[f] \in Values \union {Own}
    BY <2>1, StepFacts DEF Inv, IsStep, IsAssignment
  <2>3. ReadyInv(t)
    BY <2>1 DEF Inv, KnowsInv, Knows, Held
  <2> QED BY <2>1, <2>2, <2>3 DEF ReadyInv
<1> QED BY <1>1, InvHolds, PTL

(***************************************************************************)
(* and what a call reads as the answer is the answer to its own last       *)
(* command (Spruce_msdBrgFdb.c:2299-2353 and the functions of its kind).   *)
(***************************************************************************)
THEOREM AnswersAreOwn ==
  ASSUME RulesHold
  PROVE  Spec => []OwnAnswer
<1>1. Inv => OwnAnswer
  <2> SUFFICES ASSUME Inv, NEW t \in Threads, InCareful(t), At(t, Reads)
               PROVE  /\ ~busy
                      /\ StepOf(t).do = "get" =>
                           last.by = t /\ IsLastCommand(Program[op[t]], pc[t], last.at)
    BY DEF OwnAnswer
  <2>1. /\ op[t] # None /\ Inside(Program[op[t]], pc[t]) /\ Quiet(Program[op[t]], pc[t])
        /\ StepOf(t).do = "get" =>
             \E j \in 1 .. pc[t] - 1 : IsLastCommand(Program[op[t]], pc[t], j)
    BY CarefulStep DEF At, Inv
  <2>2. Knows(t)
    BY <2>1 DEF Inv, KnowsInv, Held
  <2>3. ~busy
    BY <2>1, <2>2 DEF Knows, QuietInv
  <2>4. ASSUME StepOf(t).do = "get"
        PROVE  last.by = t /\ IsLastCommand(Program[op[t]], pc[t], last.at)
    <3>1. PICK j \in 1 .. pc[t] - 1 : IsLastCommand(Program[op[t]], pc[t], j)
      BY <2>1, <2>4
    <3>2. last = [by |-> t, at |-> j]
      BY <2>2, <3>1 DEF Knows, LastInv
    <3> QED BY <3>1, <3>2
  <2> QED BY <2>3, <2>4
<1> QED BY <1>1, InvHolds, PTL

(***************************************************************************)
(* A careful call that has changed a register for its own time, such as    *)
(* the page of a PHY (Peridot_msdHwAccess.c:556-589), has put back what it *)
(* found there when it gives the semaphore.                                *)
(***************************************************************************)
THEOREM FoundIsPutBack ==
  ASSUME RulesHold
  PROVE  Spec => []PutBack
<1>1. Inv => PutBack
  <2> SUFFICES ASSUME Inv, NEW t \in Threads, InCareful(t), At(t, {"give"}), NEW f \in Fields,
                      IsPutBack(Program[op[t]], f)
               PROVE  regs[f] = before[f]
    BY DEF PutBack
  <2>1. op[t] # None /\ StepOf(t).do = "give"
    BY DEF At
  <2>2. /\ Paired(Program[op[t]]) /\ Careful(Program[op[t]])
        /\ pc[t] \in DOMAIN Program[op[t]]
    BY <2>1, StepFacts DEF RulesHold, InCareful, Inv
  <2>3. Inside(Program[op[t]], pc[t]) /\ Fresh(Program[op[t]], pc[t], f)
    BY <2>1, <2>2 DEF StepOf, Paired, Careful
  <2>4. FreshInv(t) /\ BeforeInv(t)
    BY <2>1, <2>3 DEF Inv, KnowsInv, Knows, Held
  <2>5. Noted(Program[op[t]], pc[t], f)
    <3> DEFINE p == Program[op[t]]
               i == pc[t]
    <3>0. i \in Nat \ {0} /\ DOMAIN p = 1 .. Len(p) /\ Len(p) \in Nat /\ i \in DOMAIN p
      BY <2>1, StepFacts DEF Inv, TypeOK, IsProgram
    <3> HIDE DEF p, i
    <3>1. PICK j \in 1 .. i - 1 :
            /\ (p[j].do = "read" /\ f \in p[j].reads) \/ PutsBack(p[j], f)
            /\ Inside(p, j)
      BY <2>3 DEF Fresh, p, i
    <3>2. CASE p[j].do = "read" /\ f \in p[j].reads
      BY <3>1, <3>2 DEF Noted, p, i
    <3>3. CASE PutsBack(p[j], f)
      <4>1. j \in DOMAIN p
        BY <3>0
      <4>2. Noted(p, j, f)
        BY <2>2, <3>3, <4>1 DEF Careful, p
      <4> QED BY <3>0, <4>2 DEF Noted, p, i
    <3> QED BY <3>1, <3>2, <3>3
  <2> QED BY <2>3, <2>4, <2>5 DEF FreshInv, BeforeInv
<1> QED BY <1>1, InvHolds, PTL

(* What a careful call leaves in a setting.                                 *)
LEMMA SettingWritten ==
  ASSUME RulesHold, Inv, NEW t \in Threads, InCareful(t), Held(t), NEW f \in Settings
  PROVE  Written(t)[f] = regs[f] \/ Purposely(StepOf(t), f)
<1>1. f \in Fields /\ Knows(t)
  BY UnitAssumption DEF Inv, KnowsInv
<1>2. CASE Sets(StepOf(t), f)
  BY <1>2, CarefulStep DEF Sets, Purposely, Inv
<1>3. CASE ~Sets(StepOf(t), f)
  BY <1>1, <1>3, WrittenBack DEF Inv
<1> QED BY <1>2, <1>3

(***************************************************************************)
(* Under the same rules no call changes a setting that shares a register   *)
(* with what it writes, unless it is there to change it                    *)
(* (Spruce_msdBrgVtu.c:1399-1424, Spruce_msdBrgFdb.c:2191-2197).           *)
(***************************************************************************)
THEOREM SettingsSurvive ==
  ASSUME RulesHold
  PROVE  Spec => SettingsKept
<1>1. Inv /\ [Next]_vars =>
        [\A t \in Threads :
           InCareful(t) /\ <<op[t], pc[t]>>' # <<op[t], pc[t]>> =>
             \A f \in Settings : regs'[f] = regs[f] \/ Purposely(StepOf(t), f)]_vars
  <2> SUFFICES ASSUME Inv, Next, NEW t \in Threads, InCareful(t),
                      <<op[t], pc[t]>>' # <<op[t], pc[t]>>, NEW f \in Settings
               PROVE  regs'[f] = regs[f] \/ Purposely(StepOf(t), f)
    OBVIOUS
  <2>1. ThreadStep(t)
    <3>1. CASE Execute
      BY <3>1 DEF Execute, calls
    <3>2. ASSUME NEW u \in Threads, ThreadStep(u), u # t PROVE FALSE
      BY <3>2, OthersUnchanged DEF Inv
    <3> QED BY <3>1, <3>2 DEF Next, ThreadStep
  <2>2. op[t] # None /\ f \in Fields
    BY UnitAssumption DEF InCareful
  <2>3. CASE ~Held(t)
    BY <2>1, <2>3, CarefulOutside DEF Inv
  <2>4. CASE Held(t)
    <3>1. Written(t)[f] = regs[f] \/ Purposely(StepOf(t), f)
      BY <2>4, SettingWritten
    <3>2. ASSUME NEW r, Return(t, r) PROVE regs'[f] = r[f]
      BY <2>2, <3>2 DEF Return, Leave
    <3>3. CASE Call(t) \/ Take(t) \/ Wait(t) \/ PollGivesUp(t) \/ Read(t) \/ Get(t) \/ Lose(t)
      BY <3>3 DEF Call, Take, Wait, PollGivesUp, Read, Get, Lose, hw
    <3>4. CASE Test(t) \/ Stop(t) \/ Fail(t)
      BY <3>2, <3>4 DEF Test, Stop, Fail
    <3>5. CASE Write(t) \/ FailLate(t)
      BY <3>1, <3>2, <3>5 DEF Write, Arrives, FailLate
    <3>6. CASE Give(t)
      BY <2>2, <3>6 DEF Give, Leave
    <3> QED BY <2>1, <3>3, <3>4, <3>5, <3>6 DEF ThreadStep, Moves
  <2> QED BY <2>3, <2>4
<1> QED BY <1>1, InvHolds, PTL DEF Spec, SettingsKept

=============================================================================
