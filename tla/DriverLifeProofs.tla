-------------------------- MODULE DriverLifeProofs --------------------------
(***************************************************************************)
(* Theorems about DriverLife for every number of devices, of semaphores of *)
(* a device and of semaphores of the BSP.                                  *)
(***************************************************************************)
EXTENDS DriverLife, FiniteSetTheorems, TLAPS

Busy(d) == pc # "idle" /\ d = dev

(* Field i of d is a semaphore that d's load has created and that nothing   *)
(* has deleted yet.  While a load is undone those are the ones it got to.   *)
Held(d, i) ==
  IF Busy(d)
  THEN \/ pc = "id" /\ i = 1
       \/ pc = "create" /\ i < k
       \/ pc = "delete" /\ i >= k
       \/ pc = "undo" /\ i >= k /\ sem[d][i] # Null
  ELSE enabled[d]

(* A device is enabled after its load and until the end of its unload.      *)
Phase == pc # "idle" => (enabled[dev] <=> pc = "delete")

(* Semaphores held exist, ... *)
HeldLive == \A d \in Devs, i \in Fields : Held(d, i) => <<sem[d][i], d>> \in live

(* ... were created for one device, ... *)
OneDevice == \A s, r \in live : s[1] = r[1] => s[2] = r[2]

(* ... are different ones, ... *)
HeldApart ==
  \A d \in Devs : \A i, j \in Fields :
    Held(d, i) /\ Held(d, j) /\ sem[d][i] = sem[d][j] => i = j

(* ... and are all there are of a device that is identified. *)
LiveHeld ==
  \A s \in live : s[2] \notin Unknown =>
    \E i \in Fields : Held(s[2], i) /\ sem[s[2]][i] = s[1]

(* Fields that a load has not come to are empty, and so are those from the  *)
(* one on where it ran out of semaphores.                                   *)
Blank ==
  /\ pc = "multi" => sem[dev] = NoSems
  /\ pc = "id" => \A i \in Fields : i > 1 => sem[dev][i] = Null
  /\ pc = "create" => \A i \in Fields : i >= k => sem[dev][i] = Null
  /\ pc = "undo" => \A i, j \in Fields : 
       k <= i /\ i <= j /\ sem[dev][i] = Null => sem[dev][j] = Null

Cleaned ==
  \A d \in Devs : ret[d].call = "unload" /\ ~Busy(d) => ~enabled[d] /\ sem[d] = NoSems

Accounted == HeldLive /\ OneDevice /\ HeldApart /\ LiveHeld
Contract == Accounted /\ Blank /\ Cleaned

(* The Linux BSP counts up: what it gives out is new.                       *)
Counted ==
  \A d, e \in Devs, i, j \in Fields :
    sem[d][i] \in Ids => /\ sem[d][i] < next
                         /\ sem[d][i] = sem[e][j] => d = e /\ i = j

DInv ==
  /\ TypeOK
  /\ Phase
  /\ bsp = "contract" => Contract
  /\ bsp = "linux" => Counted
  /\ NeverShared

-----------------------------------------------------------------------------
(***************************************************************************)
(* What creating a semaphore changes: one field, to a semaphore that no    *)
(* field has (of those that exist, or of those given out), or to none.     *)
(***************************************************************************)
LEMMA CreateEffect ==
  ASSUME TypeOK, NEW d \in Devs, NEW i \in Fields, SemCreate(d, i)
  PROVE  /\ sem' \in [Devs -> [Fields -> Ids \cup {Null, Bad}]]
         /\ live' \subseteq Ids \X Devs
         /\ next' \in 1 .. PoolSize + 1
         /\ \A e \in Devs, j \in Fields : e # d \/ j # i => sem'[e][j] = sem[e][j]
         /\ bsp = "contract" =>
              \/ sem'[d][i] = Null /\ live' = live /\ Live = Ids
              \/ sem'[d][i] \in Ids \ Live /\ live' = live \cup {<<sem'[d][i], d>>}
         /\ bsp = "linux" =>
              \/ sem'[d][i] = Bad /\ next' = next
              \/ sem'[d][i] = next /\ next \in Ids /\ next' = next + 1
<1> USE DriverLifeAssumption DEF TypeOK
<1>1. CASE bsp = "linux"
  <2>1. ASSUME NEW id \in Ids \cup {Null, Bad}, sem' = [sem EXCEPT ![d][i] = id]
        PROVE  /\ sem' \in [Devs -> [Fields -> Ids \cup {Null, Bad}]]
               /\ \A e \in Devs, j \in Fields : e # d \/ j # i => sem'[e][j] = sem[e][j]
               /\ sem'[d][i] = id
    BY <2>1
  <2>2. CASE next > PoolSize
    <3>1. sem' = [sem EXCEPT ![d][i] = Bad] /\ live' = live /\ next' = next
      BY <1>1, <2>2 DEF SemCreate, CreateLinux
    <3> QED BY <1>1, <2>1, <3>1
  <2>3. CASE ~(next > PoolSize)
    <3>1. /\ sem' = [sem EXCEPT ![d][i] = next]
          /\ live' = live \cup {<<next, d>>} /\ next' = next + 1
      BY <1>1, <2>3 DEF SemCreate, CreateLinux
    <3>2. next \in Ids /\ next + 1 \in 1 .. PoolSize + 1
      BY <2>3 DEF Ids
    <3> QED BY <1>1, <2>1, <3>1, <3>2
  <2> QED BY <2>2, <2>3
<1>2. CASE bsp = "contract"
  <2>1. CASE Live = Ids /\ sem' = [sem EXCEPT ![d][i] = Null] /\ live' = live
    BY <1>2, <2>1 DEF SemCreate, CreateContract
  <2>2. ASSUME NEW id \in Ids \ Live, sem' = [sem EXCEPT ![d][i] = id],
               live' = live \cup {<<id, d>>}
        PROVE  /\ sem' \in [Devs -> [Fields -> Ids \cup {Null, Bad}]]
               /\ live' \subseteq Ids \X Devs
               /\ \A e \in Devs, j \in Fields : e # d \/ j # i => sem'[e][j] = sem[e][j]
               /\ sem'[d][i] = id
    BY <2>2
  <2> QED BY <1>2, <2>1, <2>2 DEF SemCreate, CreateContract
<1> QED BY <1>1, <1>2

(***************************************************************************)
(* Every step of a load or an unload keeps the variables in their ranges.  *)
(***************************************************************************)
LEMMA TypeStep == TypeOK /\ [Next]_vars => TypeOK'
<1> SUFFICES ASSUME TypeOK, [Next]_vars PROVE TypeOK'
  OBVIOUS
<1>0. 1 \in Fields /\ 2 \in Fields /\ NoSems \in [Fields -> Ids \cup {Null, Bad}]
  BY DriverLifeAssumption DEF Fields, NoSems
<1>1. ASSUME NEW d \in Devs, LoadCall(d) PROVE TypeOK'
  BY <1>0, <1>1 DEF TypeOK, LoadCall, Goto, Bases
<1>2. ASSUME NEW d \in Devs, LoadAgain(d) PROVE TypeOK'
  BY <1>2 DEF TypeOK, LoadAgain, Return, Calls, Statuses
<1>3. ASSUME NEW d \in Devs, UnloadCall(d) PROVE TypeOK'
  BY <1>0, <1>3 DEF TypeOK, UnloadCall, Goto
<1>4. CASE CreateMulti
  <2>1. SemCreate(dev, 1) /\ dev \in Devs
    BY <1>4 DEF CreateMulti, TypeOK
  <2> QED BY <1>0, <1>4, <2>1, CreateEffect DEF TypeOK, CreateMulti
<1>5. CASE IdKnown
  BY <1>0, <1>5 DEF TypeOK, IdKnown, Goto
<1>6. CASE IdElsewhere
  BY <1>6 DEF TypeOK, IdElsewhere, Bases
<1>7. CASE IdFails
  BY <1>7 DEF TypeOK, IdFails, Goto, Return, Calls, Statuses
<1>8. CASE CreateNext
  <2>1. SemCreate(dev, k) /\ dev \in Devs /\ k \in Fields
    BY <1>8 DEF CreateNext, TypeOK
  <2>2. k < NumSems => k + 1 \in Fields
    BY <2>1, DriverLifeAssumption DEF Fields
  <2>3. /\ sem' \in [Devs -> [Fields -> Ids \cup {Null, Bad}]]
        /\ live' \subseteq Ids \X Devs
        /\ next' \in 1 .. PoolSize + 1
    BY <2>1, CreateEffect
  <2>4. /\ pc' \in {"idle", "create", "undo"} /\ k' \in Fields
        /\ enabled' \in [Devs -> BOOLEAN]
        /\ ret' \in [Devs -> [call : Calls, status : Statuses]]
    <3>1. CASE sem'[dev][k] = Null
      BY <1>0, <1>8, <3>1 DEF TypeOK, CreateNext
    <3>2. CASE sem'[dev][k] # Null /\ k < NumSems
      BY <1>8, <2>2, <3>2 DEF TypeOK, CreateNext
    <3>3. CASE sem'[dev][k] # Null /\ ~(k < NumSems)
      <4>1. /\ pc' = "idle" /\ k' = 1 /\ enabled' = [enabled EXCEPT ![dev] = TRUE]
            /\ Return(dev, "load", "MSD_OK")
        BY <1>8, <3>3 DEF CreateNext
      <4> QED BY <1>0, <4>1 DEF TypeOK, Return, Calls, Statuses
    <3> QED BY <3>1, <3>2, <3>3
  <2> QED BY <1>8, <2>3, <2>4 DEF TypeOK, CreateNext
<1>9. CASE DeleteNext
  <2>1. k + 1 \in Fields
    BY <1>9, DriverLifeAssumption DEF DeleteNext, TypeOK, Fields
  <2> QED BY <1>9, <2>1 DEF TypeOK, DeleteNext, Remove
<1>10. CASE DeleteLast
  BY <1>0, <1>10 DEF TypeOK, DeleteLast, Remove, Return, CallOf, Calls, Statuses, Bases
<1>11. CASE DeleteFails
  BY <1>0, <1>11 DEF TypeOK, DeleteFails, Return, CallOf, Calls, Statuses
<1>12. CASE UNCHANGED vars
  BY <1>12 DEF vars, TypeOK
<1> QED BY <1>1, <1>2, <1>3, <1>4, <1>5, <1>6, <1>7, <1>8, <1>9, <1>10, <1>11, <1>12
        DEF Next

-----------------------------------------------------------------------------
(***************************************************************************)
(* The phases of a load and an unload follow each other, and a device is   *)
(* enabled in the right ones.                                              *)
(***************************************************************************)
LEMMA PhaseStep == TypeOK /\ Phase /\ [Next]_vars => Phase'
<1> SUFFICES ASSUME TypeOK, Phase, [Next]_vars PROVE Phase'
  OBVIOUS
<1> USE DEF TypeOK, Phase, Goto
<1>1. ASSUME NEW d \in Devs, LoadCall(d) \/ LoadAgain(d) \/ UnloadCall(d) PROVE Phase'
  BY <1>1 DEF LoadCall, LoadAgain, UnloadCall
<1>2. CASE CreateMulti \/ IdKnown \/ IdElsewhere \/ IdFails
  BY <1>2 DEF CreateMulti, IdKnown, IdElsewhere, IdFails
<1>3. CASE CreateNext
  BY <1>3 DEF CreateNext
<1>4. CASE DeleteNext \/ DeleteLast \/ DeleteFails
  BY <1>4 DEF DeleteNext, DeleteLast, DeleteFails, Deleting
<1>5. CASE UNCHANGED vars
  BY <1>5 DEF vars
<1> QED BY <1>1, <1>2, <1>3, <1>4, <1>5 DEF Next

(***************************************************************************)
(* The Linux BSP gives each semaphore out once.                            *)
(***************************************************************************)
LEMMA CreateCounted ==
  ASSUME TypeOK, bsp = "linux", Counted, NEW d \in Devs, NEW i \in Fields, SemCreate(d, i)
  PROVE  Counted'
<1>1. \A e \in Devs, j \in Fields : e # d \/ j # i => sem'[e][j] = sem[e][j]
  BY CreateEffect
<1>2. \/ sem'[d][i] = Bad /\ next' = next
      \/ sem'[d][i] = next /\ next \in Ids /\ next' = next + 1
  BY CreateEffect
<1>3. Bad \notin Ids /\ next \in Nat
  BY DriverLifeAssumption DEF Bad, Ids, TypeOK
<1> SUFFICES ASSUME NEW a \in Devs, NEW e \in Devs, NEW m \in Fields, NEW j \in Fields,
                    sem'[a][m] \in Ids
             PROVE  /\ sem'[a][m] < next'
                    /\ sem'[a][m] = sem'[e][j] => a = e /\ m = j
  BY DEF Counted
<1>4. CASE sem'[d][i] = Bad /\ next' = next
  BY <1>1, <1>3, <1>4 DEF Counted
<1>5. CASE sem'[d][i] = next /\ next' = next + 1
  <2>1. \A b \in Devs, n \in Fields :
          (b # d \/ n # i) /\ sem'[b][n] \in Ids => sem'[b][n] < next
    BY <1>1 DEF Counted
  <2>2. sem'[a][m] < next'
    <3>1. CASE a = d /\ m = i
      BY <1>3, <1>5, <3>1
    <3>2. CASE a # d \/ m # i
      BY <1>3, <1>5, <2>1, <3>2 DEF Ids
    <3> QED BY <3>1, <3>2
  <2>3. sem'[a][m] = sem'[e][j] => a = e /\ m = j
    <3>1. CASE (a = d /\ m = i) \/ (e = d /\ j = i)
      BY <1>3, <1>5, <2>1, <3>1
    <3>2. CASE (a # d \/ m # i) /\ (e # d \/ j # i)
      BY <1>1, <3>2 DEF Counted
    <3> QED BY <3>1, <3>2
  <2> QED BY <2>2, <2>3
<1> QED BY <1>2, <1>4, <1>5

LEMMA CountedStep ==
  ASSUME TypeOK, bsp = "linux", Counted, [Next]_vars PROVE Counted'
<1>0. Null \notin Ids
  BY DEF Null, Ids
<1>1. ASSUME NEW d \in Devs, sem' = [sem EXCEPT ![d] = NoSems], next' = next PROVE Counted'
  <2>1. \A e \in Devs, j \in Fields : sem'[e][j] = IF e = d THEN Null ELSE sem[e][j]
    BY <1>1 DEF TypeOK, NoSems
  <2> QED BY <1>0, <1>1, <2>1 DEF Counted
<1>2. CASE UNCHANGED <<sem, next>>
  BY <1>2 DEF Counted
<1>3. ASSUME NEW d \in Devs, LoadCall(d) \/ LoadAgain(d) \/ UnloadCall(d) PROVE Counted'
  BY <1>1, <1>2, <1>3 DEF LoadCall, LoadAgain, UnloadCall
<1>4. CASE CreateMulti
  <2>1. SemCreate(dev, 1) /\ dev \in Devs /\ 1 \in Fields
    BY <1>4, DriverLifeAssumption DEF CreateMulti, TypeOK, Fields
  <2> QED BY <2>1, CreateCounted
<1>5. CASE CreateNext
  <2>1. SemCreate(dev, k) /\ dev \in Devs /\ k \in Fields
    BY <1>5 DEF CreateNext, TypeOK
  <2> QED BY <2>1, CreateCounted
<1>6. CASE IdKnown \/ IdElsewhere \/ IdFails \/ DeleteNext \/ DeleteFails \/ UNCHANGED vars
  BY <1>2, <1>6 DEF IdKnown, IdElsewhere, IdFails, DeleteNext, DeleteFails, vars
<1>7. CASE DeleteLast
  BY <1>1, <1>7 DEF DeleteLast, TypeOK
<1> QED BY <1>3, <1>4, <1>5, <1>6, <1>7 DEF Next

-----------------------------------------------------------------------------
(***************************************************************************)
(* The books stay right when nothing is created or deleted, ...            *)
(***************************************************************************)
LEMMA SameAccounted ==
  ASSUME TypeOK, Accounted, live' = live,
         \A d \in Devs, i \in Fields : Held(d, i)' => Held(d, i) /\ sem'[d][i] = sem[d][i],
         \A d \in Devs \ Unknown, i \in Fields : Held(d, i) => Held(d, i)'
  PROVE  Accounted'
<1>1. HeldLive'
  BY DEF Accounted, HeldLive
<1>2. OneDevice'
  BY DEF Accounted, OneDevice
<1>3. HeldApart'
  BY DEF Accounted, HeldApart
<1>4. LiveHeld'
  <2> SUFFICES ASSUME NEW s \in live, s[2] \notin Unknown
               PROVE  \E i \in Fields : Held(s[2], i)' /\ sem'[s[2]][i] = s[1]
    BY DEF LiveHeld
  <2>1. s[2] \in Devs
    BY DEF TypeOK
  <2>2. PICK i \in Fields : Held(s[2], i) /\ sem[s[2]][i] = s[1]
    BY DEF Accounted, LiveHeld
  <2> QED BY <2>1, <2>2
<1> QED BY <1>1, <1>2, <1>3, <1>4 DEF Accounted

(***************************************************************************)
(* ... when a semaphore is created for a field that had none, ...          *)
(***************************************************************************)
LEMMA CreatedAccounted ==
  ASSUME TypeOK, bsp = "contract", Accounted, NEW d \in Devs, NEW i \in Fields,
         SemCreate(d, i), sem'[d][i] # Null, ~Held(d, i),
         \A e \in Devs, j \in Fields : Held(e, j)' <=> Held(e, j) \/ (e = d /\ j = i)
  PROVE  Accounted'
<1>1. /\ sem'[d][i] \in Ids \ Live
      /\ live' = live \cup {<<sem'[d][i], d>>}
      /\ \A e \in Devs, j \in Fields : e # d \/ j # i => sem'[e][j] = sem[e][j]
  BY CreateEffect
<1>2. \A s \in live : s[1] # sem'[d][i]
  BY <1>1 DEF Live
<1>3. HeldLive'
  <2> SUFFICES ASSUME NEW e \in Devs, NEW j \in Fields, Held(e, j)'
               PROVE  <<sem'[e][j], e>> \in live'
    BY DEF HeldLive
  <2>1. CASE e = d /\ j = i
    BY <1>1, <2>1
  <2>2. CASE e # d \/ j # i
    BY <1>1, <2>2 DEF Accounted, HeldLive
  <2> QED BY <2>1, <2>2
<1>4. OneDevice'
  BY <1>1, <1>2 DEF Accounted, OneDevice
<1>5. HeldApart'
  <2>1. \A e \in Devs, j \in Fields : Held(e, j) => sem[e][j] # sem'[d][i]
    BY <1>2 DEF Accounted, HeldLive
  <2> SUFFICES ASSUME NEW e \in Devs, NEW j \in Fields, NEW m \in Fields,
                      Held(e, j)', Held(e, m)', sem'[e][j] = sem'[e][m]
               PROVE  j = m
    BY DEF HeldApart
  <2>2. CASE e = d /\ (j = i \/ m = i)
    BY <1>1, <2>1, <2>2
  <2>3. CASE e # d \/ (j # i /\ m # i)
    BY <1>1, <2>3 DEF Accounted, HeldApart
  <2> QED BY <2>2, <2>3
<1>6. LiveHeld'
  <2> SUFFICES ASSUME NEW s \in live', s[2] \notin Unknown
               PROVE  \E j \in Fields : Held(s[2], j)' /\ sem'[s[2]][j] = s[1]
    BY DEF LiveHeld
  <2>1. CASE s = <<sem'[d][i], d>>
    BY <2>1
  <2>2. CASE s \in live
    <3>1. s[2] \in Devs
      BY <2>2 DEF TypeOK
    <3>2. PICK j \in Fields : Held(s[2], j) /\ sem[s[2]][j] = s[1]
      BY <2>2 DEF Accounted, LiveHeld
    <3>3. s[2] # d \/ j # i
      BY <3>2
    <3>4. sem'[s[2]][j] = sem[s[2]][j]
      BY <1>1, <3>1, <3>3
    <3> QED BY <3>1, <3>2, <3>4
  <2> QED BY <1>1, <2>1, <2>2
<1> QED BY <1>3, <1>4, <1>5, <1>6 DEF Accounted

(***************************************************************************)
(* ... and when one that was held is deleted.                              *)
(***************************************************************************)
LEMMA DeletedAccounted ==
  ASSUME TypeOK, Accounted, NEW d \in Devs, NEW i \in Fields,
         Held(d, i), Remove(sem[d][i]),
         \A e \in Devs, j \in Fields : Held(e, j)' <=> Held(e, j) /\ ~(e = d /\ j = i),
         \A e \in Devs, j \in Fields : Held(e, j)' => sem'[e][j] = sem[e][j]
  PROVE  Accounted'
<1>1. live' = {s \in live : s[1] # sem[d][i]}
  BY DEF Remove
<1>2. HeldLive'
  <2> SUFFICES ASSUME NEW e \in Devs, NEW j \in Fields, Held(e, j)'
               PROVE  <<sem'[e][j], e>> \in live'
    BY DEF HeldLive
  <2>1. Held(e, j) /\ ~(e = d /\ j = i) /\ sem'[e][j] = sem[e][j]
    OBVIOUS
  <2>2. <<sem[e][j], e>> \in live /\ <<sem[d][i], d>> \in live
    BY <2>1 DEF Accounted, HeldLive
  <2>3. sem[e][j] # sem[d][i]
    <3>1. CASE e = d
      BY <2>1, <3>1 DEF Accounted, HeldApart
    <3>2. CASE e # d
      BY <2>2, <3>2 DEF Accounted, OneDevice
    <3> QED BY <3>1, <3>2
  <2> QED BY <1>1, <2>1, <2>2, <2>3
<1>3. OneDevice'
  BY <1>1 DEF Accounted, OneDevice
<1>4. HeldApart'
  BY DEF Accounted, HeldApart
<1>5. LiveHeld'
  <2> SUFFICES ASSUME NEW s \in live', s[2] \notin Unknown
               PROVE  \E j \in Fields : Held(s[2], j)' /\ sem'[s[2]][j] = s[1]
    BY DEF LiveHeld
  <2>1. s \in live /\ s[1] # sem[d][i] /\ s[2] \in Devs
    BY <1>1 DEF TypeOK
  <2>2. PICK j \in Fields : Held(s[2], j) /\ sem[s[2]][j] = s[1]
    BY <2>1 DEF Accounted, LiveHeld
  <2>3. ~(s[2] = d /\ j = i)
    BY <2>1, <2>2
  <2> QED BY <2>1, <2>2, <2>3
<1> QED BY <1>2, <1>3, <1>4, <1>5 DEF Accounted

-----------------------------------------------------------------------------
(***************************************************************************)
(* Over a BSP that keeps its contract, every step of a load and an unload  *)
(* keeps the books of the semaphores.                                      *)
(***************************************************************************)
LEMMA CreateKeeps ==
  ASSUME TypeOK, bsp = "contract", Phase, Contract, CreateMulti \/ CreateNext
  PROVE  Contract'
<1>1. /\ dev \in Devs /\ dev' = dev /\ k \in Fields /\ 1 \in Fields
      /\ Fields \subseteq Nat /\ \A i \in Fields : i >= 1 /\ ~(i < 1)
  BY DriverLifeAssumption DEF TypeOK, CreateMulti, CreateNext, Fields
<1> DEFINE n == IF pc = "multi" THEN 1 ELSE k
<1>2. /\ n \in Fields /\ SemCreate(dev, n)
      /\ \A i \in Fields : i >= n => sem[dev][i] = Null
      /\ ~enabled[dev] /\ pc \in {"multi", "create"}
      /\ \A i \in Fields : Held(dev, i) <=> i < n
  <2>1. CASE CreateMulti
    <3>1. pc = "multi" /\ n = 1 /\ SemCreate(dev, 1) /\ ~enabled[dev]
      BY <2>1 DEF CreateMulti, Phase
    <3>2. sem[dev] = NoSems
      BY <3>1 DEF Contract, Blank
    <3>3. \A i \in Fields : sem[dev][i] = Null
      BY <3>2 DEF NoSems
    <3>4. \A i \in Fields : ~Held(dev, i)
      BY <3>1 DEF Held, Busy
    <3> QED BY <1>1, <3>1, <3>3, <3>4
  <2>2. CASE CreateNext
    BY <1>1, <2>2 DEF CreateNext, Contract, Blank, Phase, Held, Busy
  <2> QED BY <2>1, <2>2
<1>3. \A e \in Devs, j \in Fields : e # dev \/ j # n => sem'[e][j] = sem[e][j]
  BY <1>1, <1>2, CreateEffect
<1>4. \A e \in Devs \ {dev}, j \in Fields : Held(e, j)' <=> Held(e, j)
  BY <1>1 DEF Held, Busy, TypeOK, CreateMulti, CreateNext, Return
<1>5. CASE sem'[dev][n] = Null
  <2>1. pc' = "undo" /\ k' = 1 /\ live' = live /\ ret' = ret /\ enabled' = enabled
    <3>1. live' = live
      BY <1>1, <1>2, <1>5, CreateEffect DEF Null, Ids
    <3> QED BY <1>2, <1>5, <3>1 DEF CreateMulti, CreateNext
  <2>2. \A j \in Fields : j < n => sem'[dev][j] = sem[dev][j] /\ sem[dev][j] # Null
    <3> SUFFICES ASSUME NEW j \in Fields, j < n
                 PROVE  sem'[dev][j] = sem[dev][j] /\ sem[dev][j] # Null
      OBVIOUS
    <3>1. <<sem[dev][j], dev>> \in live
      BY <1>1, <1>2 DEF Contract, Accounted, HeldLive
    <3>2. sem[dev][j] \in Ids
      BY <3>1 DEF TypeOK
    <3>3. j # n
      BY <1>1, <1>2
    <3> QED BY <1>1, <1>3, <3>2, <3>3 DEF Null, Ids
  <2>3. \A j \in Fields : j >= n => sem'[dev][j] = Null
    BY <1>1, <1>2, <1>3, <1>5
  <2>4. \A j \in Fields : Held(dev, j)' <=> j < n
    BY <1>1, <1>2, <2>1, <2>2, <2>3 DEF Held, Busy
  <2>5. Accounted'
    <3>1. ASSUME NEW e \in Devs, NEW j \in Fields PROVE Held(e, j)' <=> Held(e, j)
      <4>1. CASE e = dev
        <5>1. Held(dev, j)' <=> Held(dev, j)
          BY <1>2, <2>4
        <5> QED BY <1>1, <4>1, <5>1 DEF Held, Busy
      <4>2. CASE e # dev
        BY <1>4, <4>2
      <4> QED BY <4>1, <4>2
    <3>2. \A e \in Devs, j \in Fields : Held(e, j) => sem'[e][j] = sem[e][j]
      BY <1>2, <1>3, <2>2
    <3> QED BY <2>1, <3>1, <3>2, SameAccounted DEF Contract
  <2>6. Blank'
    <3> SUFFICES ASSUME NEW i \in Fields, NEW j \in Fields, i <= j, sem'[dev][i] = Null
                 PROVE  sem'[dev][j] = Null
      BY <1>1, <2>1 DEF Blank
    <3> QED BY <1>1, <1>2, <2>2, <2>3
  <2>7. Cleaned'
    <3> SUFFICES ASSUME NEW e \in Devs, ret[e].call = "unload", e # dev
                 PROVE  ~enabled[e] /\ sem'[e] = NoSems
      BY <1>1, <2>1 DEF Cleaned, Busy
    <3>1. ~enabled[e] /\ sem[e] = NoSems
      BY DEF Contract, Cleaned, Busy
    <3>2. sem'[e] \in [Fields -> Ids \cup {Null, Bad}]
      BY <1>1, <1>2, CreateEffect
    <3> QED BY <1>3, <3>1, <3>2 DEF NoSems
  <2> QED BY <2>5, <2>6, <2>7 DEF Contract
<1>6. CASE sem'[dev][n] # Null
  <2>1. \A j \in Fields : Held(dev, j)' <=> j <= n
    <3>1. CASE CreateMulti
      BY <1>1, <1>2, <1>6, <3>1 DEF CreateMulti, Held, Busy, Fields
    <3>2. CASE CreateNext /\ k < NumSems
      BY <1>1, <1>2, <1>6, <3>2 DEF CreateNext, Held, Busy
    <3>3. CASE CreateNext /\ ~(k < NumSems)
      <4>1. pc' = "idle" /\ enabled'[dev] /\ \A j \in Fields : j <= k
        BY <1>1, <1>2, <1>6, <3>3, DriverLifeAssumption DEF CreateNext, TypeOK, Fields
      <4> QED BY <1>1, <1>2, <3>3, <4>1 DEF CreateNext, Held, Busy
    <3> QED BY <3>1, <3>2, <3>3
  <2>2. Accounted'
    <3>1. \A j \in Fields : j <= n <=> j < n \/ j = n
      BY <1>1, <1>2
    <3>2. ~Held(dev, n)
      BY <1>1, <1>2
    <3>3. ASSUME NEW e \in Devs, NEW j \in Fields
          PROVE  Held(e, j)' <=> Held(e, j) \/ (e = dev /\ j = n)
      <4>1. CASE e = dev
        <5>1. Held(dev, j)' <=> Held(dev, j) \/ j = n
          BY <1>2, <2>1, <3>1
        <5> QED BY <1>1, <4>1, <5>1 DEF Held, Busy
      <4>2. CASE e # dev
        BY <1>4, <4>2
      <4> QED BY <4>1, <4>2
    <3> QED BY <1>1, <1>2, <1>6, <3>2, <3>3, CreatedAccounted DEF Contract
  <2>3. Blank'
    <3>1. CASE CreateMulti
      BY <1>1, <1>2, <1>3, <1>6, <3>1 DEF CreateMulti, Blank
    <3>2. CASE CreateNext
      BY <1>1, <1>2, <1>3, <1>6, <3>2 DEF CreateNext, Blank
    <3> QED BY <3>1, <3>2
  <2>4. Cleaned'
    <3> SUFFICES ASSUME NEW e \in Devs, ret'[e].call = "unload", ~Busy(e)'
                 PROVE  ~enabled'[e] /\ sem'[e] = NoSems
      BY DEF Cleaned
    <3>1. e # dev
      BY <1>1, <1>2, <1>6 DEF CreateMulti, CreateNext, Busy, Return, TypeOK
    <3>2. ret[e].call = "unload" /\ enabled'[e] = enabled[e]
      BY <1>1, <3>1 DEF CreateMulti, CreateNext, Return, TypeOK
    <3>3. ~enabled[e] /\ sem[e] = NoSems
      BY <3>1, <3>2 DEF Contract, Cleaned, Busy
    <3>4. sem'[e] \in [Fields -> Ids \cup {Null, Bad}]
      BY <1>1, <1>2, CreateEffect
    <3> QED BY <1>3, <3>1, <3>2, <3>3, <3>4 DEF NoSems
  <2> QED BY <2>2, <2>3, <2>4 DEF Contract
<1> QED BY <1>5, <1>6

LEMMA DeleteKeeps ==
  ASSUME TypeOK, bsp = "contract", Phase, Contract,
         DeleteNext \/ DeleteLast \/ DeleteFails
  PROVE  Contract'
<1>1. /\ dev \in Devs /\ dev' = dev /\ k \in Fields /\ Fields \subseteq Nat /\ bsp' = bsp
      /\ pc \in {"undo", "delete"} /\ \A i \in Fields : i <= NumSems
  BY DriverLifeAssumption
     DEF TypeOK, DeleteNext, DeleteLast, DeleteFails, Deleting, Fields
<1>2. \A j \in Fields : Held(dev, j) <=> j >= k /\ (pc = "delete" \/ sem[dev][j] # Null)
  BY <1>1 DEF Held, Busy
<1>3. CASE DeleteNext \/ DeleteLast
  <2>1. Held(dev, k) /\ Remove(sem[dev][k])
    BY <1>1, <1>2, <1>3 DEF DeleteNext, DeleteLast, DeleteOk
  <2>2. CASE DeleteNext
    <3>1. /\ pc' = pc /\ k' = k + 1 /\ sem' = sem /\ enabled' = enabled /\ ret' = ret
      BY <2>2 DEF DeleteNext
    <3>2. Accounted'
      <4>1. ASSUME NEW e \in Devs, NEW j \in Fields
            PROVE  Held(e, j)' <=> Held(e, j) /\ ~(e = dev /\ j = k)
        <5>1. j >= k + 1 <=> j >= k /\ j # k
          BY <1>1
        <5> QED BY <1>1, <3>1, <5>1 DEF Held, Busy
      <4> QED BY <1>1, <2>1, <3>1, <4>1, DeletedAccounted DEF Contract
    <3>3. Blank'
      BY <1>1, <3>1 DEF Contract, Blank
    <3>4. Cleaned'
      BY <1>1, <3>1 DEF Contract, Cleaned, Busy
    <3> QED BY <3>2, <3>3, <3>4 DEF Contract
  <2>3. CASE DeleteLast
    <3>1. /\ pc' = "idle" /\ k = NumSems
          /\ sem' = [sem EXCEPT ![dev] = NoSems]
          /\ enabled' = [enabled EXCEPT ![dev] = FALSE]
          /\ \A e \in Devs : e # dev => ret'[e] = ret[e]
      BY <1>1, <2>3 DEF DeleteLast, Return, TypeOK
    <3>2. /\ sem'[dev] = NoSems /\ ~enabled'[dev]
          /\ \A e \in Devs : e # dev => sem'[e] = sem[e] /\ enabled'[e] = enabled[e]
      BY <1>1, <3>1 DEF TypeOK
    <3>3. Accounted'
      <4>1. ASSUME NEW e \in Devs, NEW j \in Fields
            PROVE  Held(e, j)' <=> Held(e, j) /\ ~(e = dev /\ j = k)
        <5>1. CASE e = dev
          <6>1. j >= k <=> j = k
            BY <1>1, <3>1
          <6> QED BY <1>1, <1>2, <3>1, <3>2, <5>1, <6>1 DEF Held, Busy
        <5>2. CASE e # dev
          BY <1>1, <3>1, <3>2, <5>2 DEF Held, Busy
        <5> QED BY <5>1, <5>2
      <4>2. ASSUME NEW e \in Devs, NEW j \in Fields, Held(e, j)'
            PROVE  sem'[e][j] = sem[e][j]
        BY <3>1, <3>2, <4>2 DEF Held, Busy
      <4> QED BY <1>1, <2>1, <4>1, <4>2, DeletedAccounted DEF Contract
    <3>4. Blank'
      BY <3>1 DEF Blank
    <3>5. Cleaned'
      BY <1>1, <3>1, <3>2 DEF Contract, Cleaned, Busy
    <3> QED BY <3>3, <3>4, <3>5 DEF Contract
  <2> QED BY <1>3, <2>2, <2>3
<1>4. CASE DeleteFails
  <2>1. /\ ~DeleteOk(sem[dev][k]) /\ pc' = "idle" /\ UNCHANGED <<sem, enabled, live>>
        /\ Return(dev, CallOf(pc), "MSD_FAIL")
    BY <1>4 DEF DeleteFails
  <2>2. ~Held(dev, k)
    <3> SUFFICES ASSUME Held(dev, k) PROVE FALSE
      OBVIOUS
    <3>1. <<sem[dev][k], dev>> \in live
      BY <1>1 DEF Contract, Accounted, HeldLive
    <3>2. sem[dev][k] \in Ids /\ sem[dev][k] \in Live
      BY <3>1 DEF TypeOK, Live
    <3> QED BY <2>1, <3>2 DEF DeleteOk, Ids, Null
  <2>3. pc = "undo" /\ sem[dev][k] = Null /\ ~enabled[dev]
    BY <1>1, <1>2, <2>2 DEF Phase
  <2>4. \A j \in Fields : ~Held(dev, j)
    BY <1>1, <1>2, <2>3 DEF Contract, Blank
  <2>5. Accounted'
    <3>1. ASSUME NEW e \in Devs, NEW j \in Fields PROVE Held(e, j)' <=> Held(e, j)
      <4>1. CASE e = dev
        BY <2>1, <2>3, <2>4, <4>1 DEF Held, Busy
      <4>2. CASE e # dev
        BY <1>1, <2>1, <4>2 DEF Held, Busy
      <4> QED BY <4>1, <4>2
    <3> QED BY <2>1, <3>1, SameAccounted DEF Contract
  <2>6. Blank'
    BY <2>1 DEF Blank
  <2>7. Cleaned'
    BY <1>1, <2>1, <2>3 DEF Contract, Cleaned, Busy, Return, CallOf, TypeOK
  <2> QED BY <2>5, <2>6, <2>7 DEF Contract
<1> QED BY <1>3, <1>4

LEMMA ContractStep ==
  ASSUME TypeOK, bsp = "contract", Phase, Contract, [Next]_vars
  PROVE  Contract'
<1>0. dev \in Devs /\ 1 \in Fields /\ 2 \in Fields /\ Fields \subseteq Nat
      /\ \A i \in Fields : i >= 1 /\ (i > 1 <=> i >= 2) /\ (i < 2 <=> i = 1)
  BY DriverLifeAssumption DEF TypeOK, Fields
<1>1. ASSUME NEW d \in Devs, LoadCall(d) PROVE Contract'
  <2>1. /\ pc = "idle" /\ pc' = "multi" /\ dev' = d /\ ~enabled[d]
        /\ UNCHANGED <<enabled, ret, live>> /\ sem'[d] = NoSems
        /\ \A e \in Devs : e # d => sem'[e] = sem[e]
    BY <1>1 DEF LoadCall, Goto, TypeOK
  <2>2. Accounted'
    <3>1. ASSUME NEW e \in Devs, NEW j \in Fields
          PROVE  (Held(e, j)' <=> Held(e, j)) /\ (Held(e, j) => e # d)
      BY <2>1 DEF Held, Busy
    <3> QED BY <2>1, <3>1, SameAccounted DEF Contract
  <2>3. Blank' /\ Cleaned'
    BY <2>1 DEF Contract, Blank, Cleaned, Busy
  <2> QED BY <2>2, <2>3 DEF Contract
<1>2. ASSUME NEW d \in Devs, LoadAgain(d) PROVE Contract'
  <2>1. /\ UNCHANGED <<enabled, sem, pc, dev, k, live>>
        /\ ret'[d].call = "load" /\ \A e \in Devs : e # d => ret'[e] = ret[e]
    BY <1>2 DEF LoadAgain, Return, TypeOK
  <2>2. Accounted' /\ Blank'
    BY <2>1 DEF Contract, Accounted, HeldLive, OneDevice, HeldApart, LiveHeld, Held, Busy, Blank
  <2>3. Cleaned'
    BY <2>1 DEF Contract, Cleaned, Busy
  <2> QED BY <2>2, <2>3 DEF Contract
<1>3. ASSUME NEW d \in Devs, UnloadCall(d) PROVE Contract'
  <2>1. /\ pc = "idle" /\ pc' = "delete" /\ dev' = d /\ k' = 1 /\ enabled[d]
        /\ UNCHANGED <<enabled, ret, live, sem>>
    BY <1>3 DEF UnloadCall, Goto
  <2>2. Accounted'
    <3>1. ASSUME NEW e \in Devs, NEW j \in Fields PROVE Held(e, j)' <=> Held(e, j)
      BY <1>0, <2>1 DEF Held, Busy
    <3> QED BY <2>1, <3>1, SameAccounted DEF Contract
  <2>3. Blank' /\ Cleaned'
    BY <2>1 DEF Contract, Blank, Cleaned, Busy
  <2> QED BY <2>2, <2>3 DEF Contract
<1>4. CASE IdKnown
  <2>1. /\ pc = "id" /\ pc' = "create" /\ k' = 2
        /\ UNCHANGED <<enabled, ret, live, sem, dev>>
    BY <1>4 DEF IdKnown, Goto
  <2>2. Accounted'
    <3>1. ASSUME NEW e \in Devs, NEW j \in Fields PROVE Held(e, j)' <=> Held(e, j)
      BY <1>0, <2>1 DEF Held, Busy
    <3> QED BY <2>1, <3>1, SameAccounted DEF Contract
  <2>3. Blank' /\ Cleaned'
    BY <1>0, <2>1 DEF Contract, Blank, Cleaned, Busy
  <2> QED BY <2>2, <2>3 DEF Contract
<1>5. CASE IdFails
  <2>1. /\ dev \in Unknown /\ pc = "id" /\ pc' = "idle" /\ ~enabled[dev]
        /\ UNCHANGED <<enabled, live, sem, dev, k>>
        /\ ret'[dev].call = "load" /\ \A e \in Devs : e # dev => ret'[e] = ret[e]
    BY <1>0, <1>5 DEF IdFails, Goto, Phase, Return, TypeOK
  <2>2. Accounted'
    <3>1. ASSUME NEW e \in Devs, NEW j \in Fields
          PROVE  (Held(e, j)' => Held(e, j)) /\ (e # dev /\ Held(e, j) => Held(e, j)')
      BY <2>1 DEF Held, Busy
    <3> QED BY <2>1, <3>1, SameAccounted DEF Contract
  <2>3. Blank' /\ Cleaned'
    BY <2>1 DEF Contract, Blank, Cleaned, Busy
  <2> QED BY <2>2, <2>3 DEF Contract
<1>6. CASE IdElsewhere \/ UNCHANGED vars
  <2>1. UNCHANGED <<enabled, sem, pc, dev, k, live, ret>>
    BY <1>6 DEF IdElsewhere, vars
  <2> QED BY <2>1 DEF Contract, Accounted, HeldLive, OneDevice, HeldApart, LiveHeld, Held,
                      Busy, Blank, Cleaned
<1>7. CASE CreateMulti \/ CreateNext
  BY <1>7, CreateKeeps
<1>8. CASE DeleteNext \/ DeleteLast \/ DeleteFails
  BY <1>8, DeleteKeeps
<1> QED BY <1>1, <1>2, <1>3, <1>4, <1>5, <1>6, <1>7, <1>8 DEF Next

-----------------------------------------------------------------------------
(***************************************************************************)
(* A step that enables no device gives no device a semaphore of another    *)
(* one; the last step of a load does not because of the books.             *)
(***************************************************************************)
LEMMA SharedStep ==
  ASSUME TypeOK, Phase, bsp \in {"contract", "linux"}, NeverShared, [Next]_vars,
         bsp = "contract" => Contract', bsp = "linux" => Counted'
  PROVE  NeverShared'
<1>1. CASE bsp = "linux"
  BY <1>1 DEF Counted, NeverShared
<1>2. CASE bsp = "contract"
  <2>1. CASE pc' = "idle"
    <3> SUFFICES ASSUME NEW d \in Devs, NEW e \in Devs, NEW i \in Fields, NEW j \in Fields,
                        enabled'[d], enabled'[e], sem'[d][i] = sem'[e][j]
                 PROVE  d = e /\ i = j
      BY DEF NeverShared
    <3>1. Held(d, i)' /\ Held(e, j)'
      BY <2>1 DEF Held, Busy
    <3>2. <<sem'[d][i], d>> \in live' /\ <<sem'[e][j], e>> \in live'
      BY <1>2, <3>1 DEF Contract, Accounted, HeldLive
    <3>3. d = e
      BY <1>2, <3>2 DEF Contract, Accounted, OneDevice
    <3> QED BY <1>2, <3>1, <3>3 DEF Contract, Accounted, HeldApart
  <2>2. CASE pc' # "idle"
    <3> SUFFICES \A d \in Devs : enabled'[d] => enabled[d] /\ sem'[d] = sem[d]
      BY DEF NeverShared
    <3>1. ASSUME NEW c \in Devs, LoadCall(c) \/ UnloadCall(c)
          PROVE  \A d \in Devs : enabled'[d] => enabled[d] /\ sem'[d] = sem[d]
      BY <3>1 DEF LoadCall, UnloadCall, TypeOK
    <3>2. CASE CreateMulti \/ CreateNext
      <4>1. enabled' = enabled /\ dev \in Devs /\ ~enabled[dev]
        BY <2>2, <3>2 DEF CreateMulti, CreateNext, Phase, TypeOK
      <4>2. \A d \in Devs : d # dev => sem'[d] = sem[d]
        BY <1>2, <3>2, <4>1
           DEF CreateMulti, CreateNext, SemCreate, CreateContract, TypeOK
      <4> QED BY <4>1, <4>2
    <3>3. CASE IdKnown \/ IdElsewhere \/ DeleteNext \/ UNCHANGED vars
      BY <3>3 DEF IdKnown, IdElsewhere, DeleteNext, vars
    <3>4. CASE IdFails \/ DeleteLast \/ DeleteFails
      BY <2>2, <3>4 DEF IdFails, Goto, DeleteLast, DeleteFails
    <3>5. ASSUME NEW c \in Devs, LoadAgain(c) PROVE FALSE
      BY <2>2, <3>5 DEF LoadAgain
    <3> QED BY <3>1, <3>2, <3>3, <3>4, <3>5 DEF Next
  <2> QED BY <2>1, <2>2
<1> QED BY <1>1, <1>2

LEMMA InvInit == Init => DInv
<1> SUFFICES ASSUME Init PROVE DInv
  OBVIOUS
<1>1. TypeOK
  BY DriverLifeAssumption
     DEF Init, TypeOK, NoSems, Bases, Calls, Statuses, Fields
<1>2. Phase /\ NeverShared
  BY DEF Init, Phase, NeverShared
<1>3. Contract
  BY DEF Init, Contract, Accounted, HeldLive, OneDevice, HeldApart, LiveHeld, Held, Busy,
         Blank, Cleaned
<1>4. Counted
  <2>1. \A d \in Devs, i \in Fields : sem[d][i] = Null
    BY DEF Init, NoSems
  <2> QED BY <2>1 DEF Counted, Null, Ids
<1> QED BY <1>1, <1>2, <1>3, <1>4 DEF DInv

LEMMA InvStep == DInv /\ [Next]_vars => DInv'
<1> SUFFICES ASSUME DInv, [Next]_vars PROVE DInv'
  OBVIOUS
<1>1. TypeOK /\ Phase /\ TypeOK' /\ Phase'
  BY TypeStep, PhaseStep DEF DInv
<1>2. bsp' = bsp /\ bsp \in {"contract", "linux"}
  <2>1. bsp \in {"contract", "linux"}
    BY <1>1, DriverLifeAssumption DEF TypeOK
  <2>2. bsp' = bsp
    BY DEF Next, vars, LoadCall, LoadAgain, UnloadCall, CreateMulti, IdKnown, IdElsewhere,
           IdFails, CreateNext, DeleteNext, DeleteLast, DeleteFails
  <2> QED BY <2>1, <2>2
<1>3. bsp = "contract" => Contract'
  BY <1>1, ContractStep DEF DInv
<1>4. bsp = "linux" => Counted'
  BY <1>1, CountedStep DEF DInv
<1>5. NeverShared'
  BY <1>1, <1>2, <1>3, <1>4, SharedStep DEF DInv
<1> QED BY <1>1, <1>2, <1>3, <1>4, <1>5 DEF DInv

LEMMA InvHolds == Spec => []DInv
BY InvInit, InvStep, PTL DEF Spec

-----------------------------------------------------------------------------
(***************************************************************************)
(* The variables of a load and an unload stay in their ranges.             *)
(***************************************************************************)
THEOREM TypeCorrect == Spec => []TypeOK
<1>1. DInv => TypeOK
  BY DEF DInv
<1> QED BY <1>1, InvHolds, PTL

(***************************************************************************)
(* Two fields of loaded devices never name the same semaphore, over both   *)
(* BSPs (msdSysConfig.c:306-310, Wrapper.cpp:56-78).                       *)
(***************************************************************************)
THEOREM SemaphoresAreOwn == Spec => []NeverShared
<1>1. DInv => NeverShared
  BY DEF DInv
<1> QED BY <1>1, InvHolds, PTL

(***************************************************************************)
(* Over a BSP that returns NULL when it has no semaphore, a device that is *)
(* loaded has all of its semaphores, and shares none (msdSem.c:38).        *)
(***************************************************************************)
THEOREM LoadedIsUsable == Spec => []ContractUsable
<1>1. DInv => ContractUsable
  <2> SUFFICES ASSUME DInv, bsp = "contract", NEW d \in Devs, enabled[d], ~Unloading(d),
                      NEW i \in Fields
               PROVE  /\ sem[d][i] \in Live
                      /\ \A e \in Devs, j \in Fields :
                           enabled[e] /\ sem[e][j] = sem[d][i] => e = d /\ j = i
    BY DEF ContractUsable, LoadedUsable
  <2>1. Held(d, i)
    BY DEF DInv, Phase, Held, Busy, Unloading
  <2>2. <<sem[d][i], d>> \in live
    BY <2>1 DEF DInv, Contract, Accounted, HeldLive
  <2>3. sem[d][i] \in Live /\ sem[d][i] \in Ids
    BY <2>2 DEF DInv, TypeOK, Live
  <2> QED BY <2>3 DEF DInv, NeverShared
<1> QED BY <1>1, InvHolds, PTL

(***************************************************************************)
(* Between calls the semaphores that exist for a device whose switch is    *)
(* identified are those it is loaded with: a load that runs out half way   *)
(* leaves none behind (msdSysConfig.c:306-310).                            *)
(***************************************************************************)
THEOREM FailedLoadLeavesNone == Spec => []FailedLoadFreesAll
<1>1. DInv => FailedLoadFreesAll
  <2> SUFFICES ASSUME DInv, bsp = "contract", pc = "idle", NEW d \in Devs \ Unknown
               PROVE  {s[1] : s \in {x \in live : x[2] = d}} =
                        IF enabled[d] THEN {sem[d][i] : i \in Fields} ELSE {}
    BY DEF FailedLoadFreesAll
  <2>1. \A i \in Fields : Held(d, i) <=> enabled[d]
    BY DEF Held, Busy
  <2>2. \A s \in live : s[2] = d => enabled[d] /\ \E i \in Fields : s[1] = sem[d][i]
    BY <2>1 DEF DInv, Contract, Accounted, LiveHeld
  <2>3. enabled[d] => \A i \in Fields : <<sem[d][i], d>> \in live
    BY <2>1 DEF DInv, Contract, Accounted, HeldLive
  <2>4. CASE enabled[d]
    BY <2>2, <2>3, <2>4
  <2>5. CASE ~enabled[d]
    BY <2>2, <2>5
  <2> QED BY <2>4, <2>5
<1> QED BY <1>1, InvHolds, PTL

(***************************************************************************)
(* After an unload the device is disabled and has no semaphores            *)
(* (msdSysConfig.c:533-561).                                               *)
(***************************************************************************)
THEOREM UnloadLeavesNothing == Spec => []UnloadCleansUp
<1>1. DInv => UnloadCleansUp
  BY DEF DInv, Contract, Cleaned, Busy, UnloadCleansUp
<1> QED BY <1>1, InvHolds, PTL

-----------------------------------------------------------------------------
(***************************************************************************)
(* A set of n members numbered from 1 has at most n of them, and n when no *)
(* two numbers give the same.                                              *)
(***************************************************************************)
LEMMA Numbered ==
  ASSUME NEW n \in Nat, NEW S, NEW f \in [1 .. n -> S], S = {f[i] : i \in 1 .. n}
  PROVE  /\ IsFiniteSet(S) /\ Cardinality(S) \in Nat /\ Cardinality(S) <= n
         /\ (\A i, j \in 1 .. n : f[i] = f[j] => i = j) => Cardinality(S) = n
<1>1. IsFiniteSet(1 .. n) /\ Cardinality(1 .. n) = n
  <2>1. 1 \in Int /\ n \in Int
    OBVIOUS
  <2>2. /\ IsFiniteSet(1 .. n)
        /\ Cardinality(1 .. n) = IF 1 > n THEN 0 ELSE n - 1 + 1
    BY <2>1, FS_Interval
  <2> QED BY <2>2
<1>2. f \in Surjection(1 .. n, S)
  BY DEF Surjection
<1>3. (\A i, j \in 1 .. n : f[i] = f[j] => i = j) => f \in Injection(1 .. n, S)
  BY DEF Injection, IsInjective
<1>4. IsFiniteSet(S) /\ Cardinality(S) <= n
      /\ (Cardinality(S) = n <=> f \in Injection(1 .. n, S))
  BY <1>1, <1>2, FS_Surjection
<1> QED BY <1>3, <1>4, FS_CardinalityType

\* The semaphores an unload or an undoing has passed are gone.
Gone == Deleting => \A j \in Fields : j < k => sem[dev][j] \notin Live

LEMMA Added ==
  ASSUME NEW id, NEW d, live' = live \cup {<<id, d>>}
  PROVE  Live' = Live \cup {id}
<1>1. <<id, d>>[1] = id
  OBVIOUS
<1>2. \A x : x \in Live' <=> x \in Live \/ x = id
  BY <1>1 DEF Live
<1> QED BY <1>2

LEMMA Removed ==
  ASSUME NEW id, Remove(id)
  PROVE  Live' = Live \ {id}
BY DEF Live, Remove

(***************************************************************************)
(* Deleting advances over the semaphore it deleted, and creates none.      *)
(***************************************************************************)
LEMMA GoneStep == TypeOK /\ Gone /\ [Next]_vars => Gone'
<1> SUFFICES ASSUME TypeOK, Gone, [Next]_vars PROVE Gone'
  OBVIOUS
<1> USE DEF Gone, Deleting, Goto
<1>0. k \in Fields /\ Fields \subseteq Nat /\ \A j \in Fields : ~(j < 1)
  BY DriverLifeAssumption DEF TypeOK, Fields
<1>1. ASSUME NEW d \in Devs, LoadCall(d) \/ LoadAgain(d) \/ UnloadCall(d) PROVE Gone'
  BY <1>0, <1>1 DEF LoadCall, LoadAgain, UnloadCall
<1>2. CASE CreateMulti \/ IdKnown \/ IdElsewhere \/ IdFails
  BY <1>0, <1>2 DEF CreateMulti, IdKnown, IdElsewhere, IdFails
<1>3. CASE CreateNext
  BY <1>0, <1>3 DEF CreateNext
<1>4. CASE DeleteNext
  <2>1. Live' = Live \ {sem[dev][k]} /\ pc' = pc /\ k' = k + 1 /\ UNCHANGED <<sem, dev>>
    BY <1>4, Removed DEF DeleteNext
  <2>2. \A j \in Fields : j < k + 1 => j < k \/ j = k
    BY <1>0
  <2> QED BY <1>4, <2>1, <2>2 DEF DeleteNext
<1>5. CASE DeleteLast \/ DeleteFails
  BY <1>5 DEF DeleteLast, DeleteFails
<1>6. CASE UNCHANGED vars
  BY <1>6 DEF vars, Live
<1> QED BY <1>1, <1>2, <1>3, <1>4, <1>5, <1>6 DEF Next

-----------------------------------------------------------------------------
(* The refinement of DeviceTable.                                          *)

\* Semaphore x is in a field of a device that is loaded.
Taken(x) == \E d \in Devs, i \in Fields : enabled[d] /\ sem[d][i] = x

DTInv == DInv /\ Gone /\ bsp = "contract"

(***************************************************************************)
(* The semaphores that are lost, and those that are free, as a load sees   *)
(* them: what it created itself is free still.                             *)
(***************************************************************************)
LEMMA LostIs ==
  /\ \A x : x \in Lost <=> x \in Live /\ x \notin Created /\ ~Taken(x)
  /\ \A x : x \in Lost' <=> x \in Live' /\ x \notin Created' /\ ~Taken(x)'
<1>1. \A x : x \in UNION {Owned[d] : d \in Devs} <=> Taken(x)
  BY DEF Owned, Taken
<1>2. \A x : x \in (UNION {Owned[d] : d \in Devs})' <=> Taken(x)'
  BY DEF Owned, Taken
<1> QED BY <1>1, <1>2 DEF Lost

LEMMA FreeIs ==
  \A x : x \in DT!Free <=> x \in Ids /\ ~Taken(x) /\ (x \in Live => x \in Created)
<1>1. \A x : x \in UNION {Owned[d] : d \in Devs} <=> Taken(x)
  BY DEF Owned, Taken
<1> QED BY <1>1, LostIs DEF DT!Free

(***************************************************************************)
(* What a load has created no loaded device has, and what loaded devices   *)
(* have exists.                                                            *)
(***************************************************************************)
LEMMA TakenApart ==
  ASSUME DTInv, pc # "delete"
  PROVE  /\ \A x : Taken(x) => x \in Live /\ x \in Ids
         /\ \A i \in Fields : pc # "idle" /\ Held(dev, i) =>
              sem[dev][i] \in Live /\ sem[dev][i] \in Ids /\ ~Taken(sem[dev][i])
<1> USE DEF DTInv, DInv, Contract, Accounted
<1>1. \A d \in Devs, i \in Fields :
        enabled[d] => Held(d, i) /\ (pc # "idle" => d # dev)
  BY DEF Phase, Held, Busy
<1>2. \A d \in Devs, i \in Fields :
        Held(d, i) => <<sem[d][i], d>> \in live /\ sem[d][i] \in Live /\ sem[d][i] \in Ids
  BY DEF HeldLive, Live, TypeOK
<1>3. dev \in Devs
  BY DEF TypeOK
<1>4. ASSUME NEW i \in Fields, pc # "idle", Held(dev, i), Taken(sem[dev][i]) PROVE FALSE
  <2>1. PICK d \in Devs, j \in Fields : enabled[d] /\ sem[d][j] = sem[dev][i]
    BY <1>4 DEF Taken
  <2>2. d # dev /\ <<sem[d][j], d>> \in live /\ <<sem[dev][i], dev>> \in live
    BY <1>1, <1>2, <1>3, <1>4, <2>1
  <2> QED BY <2>1, <2>2 DEF OneDevice
<1> QED BY <1>1, <1>2, <1>3, <1>4 DEF Taken

(***************************************************************************)
(* Nobody's semaphores change while those of the loaded devices do not.    *)
(***************************************************************************)
LEMMA OwnedSame ==
  ASSUME enabled' = enabled,
         \A d \in Devs, i \in Fields : enabled[d] => sem'[d][i] = sem[d][i]
  PROVE  Owned' = Owned /\ \A x : Taken(x)' <=> Taken(x)
<1>1. ASSUME NEW d \in Devs, enabled[d]
      PROVE  {sem'[d][i] : i \in Fields} = {sem[d][i] : i \in Fields}
  BY <1>1
<1>2. Owned' = Owned
  BY <1>1 DEF Owned
<1> QED BY <1>2 DEF Taken

\* A step that changes nothing a caller of the driver can tell.
Unseen == UNCHANGED <<Owned, Lost, Returned>>

(***************************************************************************)
(* A call to load or unload a device, and a load of a loaded one.          *)
(***************************************************************************)
LEMMA CallSteps ==
  ASSUME DTInv, NEW d \in Devs
  PROVE  /\ LoadCall(d) \/ UnloadCall(d) => Unseen
         /\ LoadAgain(d) => DT!LoadAgain(d)
<1> USE DEF DTInv, DInv, TypeOK, Goto
<1>1. ASSUME LoadCall(d) PROVE Unseen
  <2>1. Owned' = Owned
    BY <1>1 DEF LoadCall, Owned
  <2>2. Created = {} /\ Created' = {} /\ Live' = Live
    BY <1>1 DEF LoadCall, Created, Live
  <2>3. Lost' = Lost
    BY <2>1, <2>2 DEF Lost
  <2>4. Returned' = Returned
    BY <1>1 DEF LoadCall, Returned
  <2> QED BY <2>1, <2>3, <2>4 DEF Unseen
<1>2. ASSUME UnloadCall(d) PROVE Unseen
  <2>1. Owned' = Owned
    BY <1>2 DEF UnloadCall, Owned
  <2>2. Created = {} /\ Created' = {} /\ Live' = Live
    BY <1>2 DEF UnloadCall, Created, Live
  <2>3. Lost' = Lost
    BY <2>1, <2>2 DEF Lost
  <2>4. Returned' = Returned
    BY <1>2 DEF UnloadCall, Returned
  <2> QED BY <2>1, <2>3, <2>4 DEF Unseen
<1>3. ASSUME LoadAgain(d) PROVE DT!LoadAgain(d)
  <2>1. Owned' = Owned /\ Lost' = Lost
    BY <1>3 DEF LoadAgain, Owned, Lost, Created, Live
  <2>2. Returned = ret /\ Returned' = ret'
    BY <1>3 DEF LoadAgain, Returned, Return
  <2>3. Owned[d] # {}
    <3>1. 1 \in Fields /\ enabled[d]
      BY <1>3, DriverLifeAssumption DEF LoadAgain, Fields
    <3>2. Owned[d] = {sem[d][i] : i \in Fields}
      BY <3>1 DEF Owned
    <3>3. sem[d][1] \in Owned[d]
      BY <3>1, <3>2
    <3> QED BY <3>3
  <2> QED BY <1>3, <2>1, <2>2, <2>3 DEF LoadAgain, Return, DT!LoadAgain, DT!Loaded, DT!Return
<1> QED BY <1>1, <1>2, <1>3

(***************************************************************************)
(* A load creates a semaphore and goes on.                                 *)
(***************************************************************************)
LEMMA CreateIsUnseen ==
  ASSUME DTInv, NEW i \in Fields, SemCreate(dev, i), sem'[dev][i] # Null,
         pc \in {"multi", "create"}, pc' \in {"id", "create"},
         sem[dev][i] = Null,
         UNCHANGED <<enabled, dev, ret>>
  PROVE  Unseen
<1>1. /\ sem'[dev][i] \in Ids \ Live /\ live' = live \cup {<<sem'[dev][i], dev>>}
      /\ \A e \in Devs, j \in Fields : e # dev \/ j # i => sem'[e][j] = sem[e][j]
      /\ dev \in Devs /\ ~enabled[dev]
  <2>1. dev \in Devs /\ ~enabled[dev]
    BY DEF DTInv, DInv, TypeOK, Phase
  <2> QED BY <2>1, CreateEffect DEF DTInv, DInv
<1>2. Live' = Live \cup {sem'[dev][i]} /\ Null \notin Live
  <2>1. Null \notin Live
    BY DEF DTInv, DInv, TypeOK, Live, Ids, Null
  <2> QED BY <1>1, <2>1, Added
<1>3. Owned' = Owned
  BY <1>1, OwnedSame
<1>4. \A x : Taken(x)' <=> Taken(x)
  BY <1>1, OwnedSame
<1>5. \A x \in Live : x \in Created' <=> x \in Created
  <2>1. CASE pc = "create"
    BY <1>1, <1>2, <2>1 DEF Created
  <2>2. CASE pc = "multi"
    <3>1. \A j \in Fields : j # i => sem'[dev][j] = Null
      BY <1>1, <2>2 DEF DTInv, DInv, Contract, Blank, NoSems
    <3> QED BY <1>1, <1>2, <2>2, <3>1 DEF Created
  <2> QED BY <2>1, <2>2
<1>6. sem'[dev][i] \in Created'
  BY DEF Created
<1>7. \A x : x \in Lost' <=> x \in Lost
  BY <1>1, <1>2, <1>4, <1>5, <1>6, LostIs
<1>8. Lost' = Lost
  <2> HIDE DEF Lost
  <2> QED BY <1>7 DEF Lost
<1>9. Returned' = Returned
  BY DEF Returned
<1> QED BY <1>3, <1>8, <1>9 DEF Unseen

(***************************************************************************)
(* A load that gets no semaphore has fewer than it needs to choose from:   *)
(* only those it has created itself.                                       *)
(***************************************************************************)
LEMMA NoneLeft ==
  ASSUME DTInv, NEW i \in Fields, SemCreate(dev, i), sem'[dev][i] = Null, pc' = "undo",
         pc \in {"multi", "create"}, pc = "multi" => i = 1, pc = "create" => i = k,
         UNCHANGED <<enabled, dev, ret>>
  PROVE  DT!TooFew(dev)
<1>0. dev \in Devs /\ ~enabled[dev] /\ i \in Nat /\ i <= NumSems /\ i >= 1 /\ Fields \subseteq Nat
  BY DriverLifeAssumption DEF DTInv, DInv, TypeOK, Phase, Fields
<1>1. /\ live' = live /\ Live = Ids /\ Live' = Live
      /\ \A e \in Devs, j \in Fields : e # dev \/ j # i => sem'[e][j] = sem[e][j]
  <2>1. /\ live' = live /\ Live = Ids
        /\ \A e \in Devs, j \in Fields : e # dev \/ j # i => sem'[e][j] = sem[e][j]
    BY <1>0, CreateEffect DEF DTInv, DInv, Ids, Null
  <2> QED BY <2>1 DEF Live
<1>2. \A j \in Fields : j >= i => sem[dev][j] = Null
  BY <1>0 DEF DTInv, DInv, Contract, Blank, NoSems
<1>3. Null \notin Ids
  BY DEF Ids, Null
<1>4. \A j \in Fields : sem'[dev][j] = sem[dev][j]
  <2>1. sem[dev][i] = Null
    BY <1>0, <1>2
  <2> QED BY <1>0, <1>1, <2>1
<1>5. Owned' = Owned /\ \A x : Taken(x)' <=> Taken(x)
  BY <1>0, <1>1, OwnedSame
<1>6. \A x \in Ids : x \in Created' <=> x \in Created
  <2>1. Created' = {sem[dev][j] : j \in Fields}
    BY <1>4 DEF Created
  <2>2. CASE pc = "create"
    BY <2>1, <2>2 DEF Created
  <2>3. CASE pc = "multi"
    <3>1. \A j \in Fields : sem[dev][j] = Null
      BY <2>3 DEF DTInv, DInv, Contract, Blank, NoSems
    <3> QED BY <1>3, <2>1, <2>3, <3>1 DEF Created
  <2> QED BY <2>2, <2>3
<1>7. Lost' = Lost
  <2>1. \A x : x \in Lost' <=> x \in Lost
    BY <1>1, <1>5, <1>6, LostIs
  <2> QED BY <2>1 DEF Lost
<1>8. DT!Return(dev, "load", "MSD_FAIL")
  BY <1>0 DEF Returned, DT!Return
<1>9. Cardinality(DT!Free) < NumSems
  <2>1. \A x \in DT!Free : x \in Ids /\ x \in Created
    BY <1>1, FreeIs
  <2>2. \A x \in DT!Free : \E j \in Fields : j < i /\ x = sem[dev][j]
    BY <1>0, <1>2, <1>3, <2>1 DEF Created
  <2> DEFINE S == {sem[dev][j] : j \in 1 .. i - 1}
             f == [j \in 1 .. i - 1 |-> sem[dev][j]]
  <2>3. DT!Free \subseteq S
    BY <1>0, <2>2 DEF Fields
  <2>4. i - 1 \in Nat /\ f \in [1 .. i - 1 -> S] /\ S = {f[j] : j \in 1 .. i - 1}
    BY <1>0
  <2>5. IsFiniteSet(S) /\ Cardinality(S) \in Nat /\ Cardinality(S) <= i - 1
    <3> HIDE DEF S, f
    <3> QED BY <2>4, Numbered
  <2>6. Cardinality(DT!Free) \in Nat /\ Cardinality(DT!Free) <= Cardinality(S)
    <3> HIDE DEF S
    <3> QED BY <2>3, <2>5, FS_Subset, FS_CardinalityType
  <2> QED BY <1>0, <2>5, <2>6, DriverLifeAssumption
<1>10. ~DT!Loaded(dev)
  BY <1>0 DEF DT!Loaded, Owned
<1>11. DT!Cardinality(DT!Free) = Cardinality(DT!Free)
  BY DEF DT!Cardinality, Cardinality
<1> QED BY <1>5, <1>7, <1>8, <1>9, <1>10, <1>11 DEF DT!TooFew

(***************************************************************************)
(* The last semaphore of a load: the device has as many as it needs, all   *)
(* of them free before.                                                    *)
(***************************************************************************)
LEMMA LastIsLoad ==
  ASSUME DTInv, DInv', CreateNext, sem'[dev][k] # Null, k = NumSems
  PROVE  DT!Load(dev)
<1>0. /\ pc = "create" /\ SemCreate(dev, k) /\ pc' = "idle" /\ UNCHANGED <<bsp, dev>>
      /\ enabled' = [enabled EXCEPT ![dev] = TRUE] /\ Return(dev, "load", "MSD_OK")
  BY DriverLifeAssumption DEF CreateNext
<1>1. /\ dev \in Devs /\ ~enabled[dev] /\ k \in Fields /\ bsp = "contract" /\ TypeOK
      /\ \A i \in Fields : i < k \/ i = k
  <2>1. \A i \in Fields : i < k \/ i = k
    BY DriverLifeAssumption DEF Fields
  <2> QED BY <1>0, <2>1 DEF DTInv, DInv, TypeOK, Phase
<1> DEFINE S == {sem'[dev][i] : i \in Fields}
           f == [i \in 1 .. NumSems |-> sem'[dev][i]]
<1>2. /\ sem'[dev][k] \in Ids \ Live /\ live' = live \cup {<<sem'[dev][k], dev>>}
      /\ \A e \in Devs, j \in Fields : e # dev \/ j # k => sem'[e][j] = sem[e][j]
  BY <1>0, <1>1, CreateEffect
<1>3. Live' = Live \cup {sem'[dev][k]}
  BY <1>2, Added
<1>4. \A x : Taken(x) => x \in Live
  BY <1>0, TakenApart
<1>5. \A i \in Fields : i < k =>
        sem'[dev][i] = sem[dev][i] /\ sem[dev][i] \in Ids /\ ~Taken(sem[dev][i])
  <2>1. \A i \in Fields : i < k => Held(dev, i)
    BY <1>0 DEF Held, Busy
  <2>2. \A i \in Fields : i < k => i # k
    BY <1>1, DriverLifeAssumption DEF Fields
  <2> QED BY <1>0, <1>1, <1>2, <2>1, <2>2, TakenApart
<1>6. S \subseteq DT!Free
  <2> SUFFICES ASSUME NEW i \in Fields PROVE sem'[dev][i] \in DT!Free
    OBVIOUS
  <2>1. CASE i = k
    BY <1>2, <1>4, <2>1, FreeIs
  <2>2. CASE i < k
    <3>1. sem[dev][i] \in Created
      BY <1>0 DEF Created
    <3> QED BY <1>5, <2>2, <3>1, FreeIs
  <2> QED BY <1>1, <2>1, <2>2
<1>7. Cardinality(S) = NumSems
  <2>1. \A i, j \in Fields : sem'[dev][i] = sem'[dev][j] => i = j
    <3>1. \A i \in Fields : Held(dev, i)'
      BY <1>0, <1>1 DEF Held, Busy, TypeOK
    <3>2. HeldApart'
      BY <1>0, <1>1 DEF DInv, Contract, Accounted
    <3> QED BY <1>0, <1>1, <3>1, <3>2 DEF HeldApart
  <2>2. /\ f \in [1 .. NumSems -> S] /\ S = {f[i] : i \in 1 .. NumSems}
        /\ \A i, j \in 1 .. NumSems : f[i] = f[j] => i = j
    BY <2>1 DEF Fields
  <2> HIDE DEF S, f
  <2> QED BY <2>2, Numbered, DriverLifeAssumption
<1>8. Owned' = [Owned EXCEPT ![dev] = S]
  <2>1. enabled'[dev] /\ \A d \in Devs : d # dev => enabled'[d] = enabled[d]
    BY <1>0, <1>1 DEF TypeOK
  <2>2. Owned'[dev] = S
    BY <1>1, <2>1, <1>0 DEF Owned
  <2>3. ASSUME NEW d \in Devs, d # dev PROVE Owned'[d] = Owned[d]
    <3>1. {sem'[d][i] : i \in Fields} = {sem[d][i] : i \in Fields}
      BY <1>2, <2>3
    <3> QED BY <2>1, <2>3, <3>1 DEF Owned
  <2>4. /\ Owned = [d \in Devs |-> Owned[d]]
        /\ Owned' = [d \in Devs |-> Owned'[d]]
    BY DEF Owned
  <2> HIDE DEF S
  <2> QED BY <1>1, <2>2, <2>3, <2>4
<1>9. Lost' = Lost
  <2>1. \A x : Taken(x)' <=> Taken(x) \/ x \in S
    <3>1. enabled'[dev] /\ \A d \in Devs : d # dev => enabled'[d] = enabled[d]
      BY <1>0, <1>1 DEF TypeOK
    <3> QED BY <1>1, <1>2, <3>1 DEF Taken
  <2>2. Created' = {}
    BY <1>0 DEF Created
  <2>3. \A x \in Live : x \in S <=> x \in Created
    <3>1. Created = {sem[dev][i] : i \in Fields}
      BY <1>0 DEF Created
    <3>2. sem[dev][k] = Null
      BY <1>0, <1>1, DriverLifeAssumption DEF DTInv, DInv, Contract, Blank, Fields
    <3>3. Null \notin Live
      BY <1>1 DEF TypeOK, Live, Ids, Null
    <3>4. \A i \in Fields : i # k => sem'[dev][i] = sem[dev][i]
      BY <1>1, <1>2
    <3> QED BY <1>1, <1>2, <3>1, <3>2, <3>3, <3>4
  <2>4. sem'[dev][k] \in S
    BY <1>1
  <2>5. \A x : x \in Lost' <=> x \in Lost
    <3> HIDE DEF S
    <3> QED BY <1>2, <1>3, <2>1, <2>2, <2>3, <2>4, LostIs
  <2> QED BY <2>5 DEF Lost
<1>10. DT!Return(dev, "load", "MSD_OK")
  BY <1>0, <1>1 DEF Return, Returned, DT!Return, TypeOK
<1>11. ~DT!Loaded(dev)
  BY <1>1 DEF DT!Loaded, Owned
<1>12. DT!Cardinality(S) = Cardinality(S)
  BY DEF DT!Cardinality, Cardinality
<1> HIDE DEF S
<1> QED BY <1>6, <1>7, <1>8, <1>9, <1>10, <1>11, <1>12 DEF DT!Load

(***************************************************************************)
(* What a load of an identified or unidentified switch does until then.    *)
(***************************************************************************)
LEMMA LoadSteps ==
  ASSUME DTInv, DInv'
  PROVE  /\ IdKnown \/ IdElsewhere => Unseen
         /\ IdFails => DT!NotIdentified(dev)
         /\ CreateMulti \/ CreateNext => Unseen \/ DT!TooFew(dev) \/ DT!Load(dev)
<1>0. /\ TypeOK /\ Blank /\ Phase /\ dev \in Devs /\ 1 \in Fields /\ k \in Fields
      /\ Fields \subseteq Nat
  BY DriverLifeAssumption DEF DTInv, DInv, Contract, TypeOK, Fields
<1>1. ASSUME IdKnown \/ IdElsewhere PROVE Unseen
  <2>1. UNCHANGED <<enabled, sem, live, ret, dev>> /\ pc \in {"id", "create"} /\ pc' \in {"id", "create"}
    BY <1>1 DEF IdKnown, IdElsewhere, Goto
  <2>2. Created' = Created /\ Live' = Live /\ Returned' = Returned
    BY <2>1 DEF Created, Live, Returned
  <2> QED BY <2>1, <2>2 DEF Unseen, Owned, Lost
<1>2. ASSUME IdFails PROVE DT!NotIdentified(dev)
  <2>1. /\ UNCHANGED <<enabled, sem, live>> /\ pc = "id" /\ pc' = "idle"
        /\ Return(dev, "load", "MSD_FAIL") /\ dev \in Unknown /\ ~enabled[dev]
    BY <1>0, <1>2 DEF IdFails, Goto, Phase
  <2>2. Owned' = Owned /\ (\A x : Taken(x)' <=> Taken(x)) /\ Live' = Live /\ Created' = {}
    BY <2>1 DEF Owned, Taken, Live, Created
  <2> DEFINE id == sem[dev][1]
  <2>3. id \in Live /\ id \in Ids /\ ~Taken(id)
    BY <1>0, <2>1, TakenApart DEF Held, Busy
  <2>4. \A x \in Live : x \in Created <=> x = id
    <3>1. \A i \in Fields : i # 1 => sem[dev][i] = Null
      BY <1>0, <2>1, DriverLifeAssumption DEF Blank, Fields
    <3>2. Null \notin Live
      BY <1>0 DEF TypeOK, Live, Ids, Null
    <3> QED BY <1>0, <2>1, <3>1, <3>2 DEF Created
  <2>5. id \in DT!Free
    BY <2>3, <2>4, FreeIs
  <2>6. Lost' = Lost \cup {id}
    <3>1. \A x : x \in Lost' <=> x \in Lost \cup {id}
      BY <2>2, <2>3, <2>4, LostIs
    <3> QED BY <3>1 DEF Lost
  <2>7. DT!Return(dev, "load", "MSD_FAIL")
    BY <1>0, <2>1 DEF Return, Returned, DT!Return, TypeOK
  <2>8. ~DT!Loaded(dev)
    BY <1>0, <2>1 DEF DT!Loaded, Owned
  <2> HIDE DEF id
  <2> QED BY <2>1, <2>2, <2>5, <2>6, <2>7, <2>8 DEF DT!NotIdentified
<1>3. ASSUME CreateMulti PROVE Unseen \/ DT!TooFew(dev)
  <2>1. SemCreate(dev, 1) /\ pc = "multi" /\ UNCHANGED <<enabled, dev, ret>>
    BY <1>3 DEF CreateMulti
  <2>2. sem[dev][1] = Null
    BY <1>0, <2>1 DEF Blank, NoSems
  <2>3. CASE sem'[dev][1] = Null
    BY <1>0, <1>3, <2>1, <2>3, NoneLeft DEF CreateMulti
  <2>4. CASE sem'[dev][1] # Null
    BY <1>0, <1>3, <2>1, <2>2, <2>4, CreateIsUnseen DEF CreateMulti
  <2> QED BY <2>3, <2>4
<1>4. ASSUME CreateNext PROVE Unseen \/ DT!TooFew(dev) \/ DT!Load(dev)
  <2>1. SemCreate(dev, k) /\ pc = "create" /\ dev' = dev
    BY <1>4 DEF CreateNext
  <2>2. CASE sem'[dev][k] = Null
    BY <1>0, <1>4, <2>1, <2>2, NoneLeft DEF CreateNext
  <2>3. CASE sem'[dev][k] # Null /\ k < NumSems
    <3>1. sem[dev][k] = Null
      BY <1>0, <2>1 DEF Blank
    <3> QED BY <1>0, <1>4, <2>1, <2>3, <3>1, CreateIsUnseen DEF CreateNext
  <2>4. CASE sem'[dev][k] # Null /\ ~(k < NumSems)
    <3>1. k = NumSems
      BY <1>0, <2>4, DriverLifeAssumption DEF Fields
    <3> QED BY <1>4, <2>4, <3>1, LastIsLoad
  <2> QED BY <2>2, <2>3, <2>4
<1> QED BY <1>1, <1>2, <1>3, <1>4

(***************************************************************************)
(* Deleting a semaphore of a device that is unloaded or whose load is      *)
(* undone, all but the last.                                               *)
(***************************************************************************)
LEMMA DeleteIsUnseen == ASSUME DTInv, DeleteNext PROVE Unseen
<1>1. /\ Live' = Live \ {sem[dev][k]} /\ pc' = pc /\ UNCHANGED <<enabled, sem, dev, ret>>
      /\ dev \in Devs /\ k \in Fields /\ pc \in {"undo", "delete"}
  BY Removed DEF DeleteNext, DTInv, DInv, TypeOK, Deleting
<1>2. Created' = Created /\ Owned' = Owned /\ \A x : Taken(x)' <=> Taken(x)
  BY <1>1 DEF Created, Owned, Taken
<1>3. sem[dev][k] \in Created \/ Taken(sem[dev][k])
  <2>1. pc = "delete" => enabled[dev]
    BY DEF DTInv, DInv, Phase
  <2> QED BY <1>1, <2>1 DEF Created, Taken
<1>4. Lost' = Lost
  <2>1. \A x : x \in Lost' <=> x \in Lost
    BY <1>1, <1>2, <1>3, LostIs
  <2> QED BY <2>1 DEF Lost
<1>5. Returned' = Returned
  BY <1>1 DEF Returned
<1> QED BY <1>2, <1>4, <1>5 DEF Unseen

(***************************************************************************)
(* The end of an undone load: nothing it created is left, and it has       *)
(* failed before.                                                          *)
(***************************************************************************)
LEMMA UndoneIsUnseen ==
  ASSUME DTInv, pc = "undo", DeleteLast \/ DeleteFails PROVE Unseen
<1>1. /\ dev \in Devs /\ k \in Fields /\ Fields \subseteq Nat /\ NumSems \in Nat
      /\ \A i \in Fields : i < k \/ i = k \/ (k < i /\ k <= i)
      /\ \A i \in Fields : i <= NumSems
      /\ ~enabled[dev] /\ TypeOK /\ Blank
  BY DriverLifeAssumption DEF DTInv, DInv, Contract, TypeOK, Phase, Fields
<1>2. /\ pc' = "idle" /\ UNCHANGED dev /\ Return(dev, "load", "MSD_FAIL")
      /\ enabled' = enabled /\ \A d \in Devs : d # dev => sem'[d] = sem[d]
  <2>1. CASE DeleteLast
    <3>1. /\ pc' = "idle" /\ UNCHANGED dev /\ Return(dev, "load", "MSD_FAIL")
          /\ sem' = [sem EXCEPT ![dev] = NoSems]
          /\ enabled' = [enabled EXCEPT ![dev] = FALSE]
      BY <2>1 DEF DeleteLast, CallOf
    <3>2. enabled' = enabled
      BY <1>1, <3>1 DEF TypeOK
    <3>3. \A d \in Devs : d # dev => sem'[d] = sem[d]
      BY <1>1, <3>1 DEF TypeOK
    <3> QED BY <3>1, <3>2, <3>3
  <2>2. CASE DeleteFails
    BY <2>2 DEF DeleteFails, CallOf
  <2> QED BY <2>1, <2>2
<1>3. Owned' = Owned /\ \A x : Taken(x)' <=> Taken(x)
  BY <1>1, <1>2, OwnedSame
<1>4. Created' = {} /\ Created = {sem[dev][i] : i \in Fields}
  BY <1>2 DEF Created
<1>5. \A x : x \in Live' <=> x \in Live /\ x \notin Created
  <2>1. \A i \in Fields : i < k => sem[dev][i] \notin Live
    BY DEF DTInv, Gone, Deleting
  <2>2. CASE DeleteLast
    <3>1. Live' = Live \ {sem[dev][k]} /\ k = NumSems
      BY <2>2, Removed DEF DeleteLast
    <3>2. \A i \in Fields : i < k \/ i = k
      BY <1>1, <3>1
    <3> QED BY <1>1, <1>4, <2>1, <3>1, <3>2
  <2>3. CASE DeleteFails
    <3>1. Live' = Live /\ ~DeleteOk(sem[dev][k])
      BY <2>3 DEF DeleteFails, Live
    <3>2. Null \notin Live
      BY <1>1 DEF TypeOK, Live, Ids, Null
    <3>3. sem[dev][k] \notin Live
      BY <3>1, <3>2 DEF DTInv, DeleteOk
    <3>4. sem[dev][k] = Null
      <4>1. Held(dev, k) => sem[dev][k] \in Live
        BY <1>1, TakenApart
      <4> QED BY <1>1, <3>3, <4>1 DEF Held, Busy
    <3>5. \A i \in Fields : k <= i => sem[dev][i] = Null
      BY <1>1, <3>4 DEF Blank
    <3> QED BY <1>1, <1>4, <2>1, <3>1, <3>2, <3>3, <3>5
  <2> QED BY <2>2, <2>3
<1>6. Lost' = Lost
  <2>1. \A x : x \in Lost' <=> x \in Lost
    BY <1>3, <1>4, <1>5, LostIs
  <2> QED BY <2>1 DEF Lost
<1>7. Returned' = Returned
  BY <1>1, <1>2 DEF Returned, Return, TypeOK
<1> QED BY <1>3, <1>6, <1>7 DEF Unseen

(***************************************************************************)
(* The end of an unload: the device has none, and the call succeeds.       *)
(***************************************************************************)
LEMMA UnloadEnds ==
  ASSUME DTInv, pc = "delete"
  PROVE  ~DeleteFails /\ (DeleteLast => DT!Unload(dev))
<1>1. /\ dev \in Devs /\ k \in Fields /\ Fields \subseteq Nat /\ NumSems \in Nat
      /\ \A i \in Fields : i <= NumSems
      /\ enabled[dev] /\ TypeOK /\ Accounted
  BY DriverLifeAssumption DEF DTInv, DInv, Contract, TypeOK, Phase, Fields
<1>2. ~DeleteFails
  <2>1. Held(dev, k)
    BY <1>1 DEF Held, Busy
  <2>2. <<sem[dev][k], dev>> \in live
    BY <1>1, <2>1 DEF Accounted, HeldLive
  <2>3. sem[dev][k] \in Live /\ sem[dev][k] \in Ids
    BY <1>1, <2>2 DEF Live, TypeOK
  <2>4. DeleteOk(sem[dev][k])
    BY <2>3 DEF DTInv, DeleteOk, Ids, Null
  <2> QED BY <2>4 DEF DeleteFails
<1>3. ASSUME DeleteLast PROVE DT!Unload(dev)
  <2>1. /\ pc' = "idle" /\ k = NumSems /\ UNCHANGED dev /\ Return(dev, "unload", "MSD_OK")
        /\ enabled' = [enabled EXCEPT ![dev] = FALSE] /\ sem' = [sem EXCEPT ![dev] = NoSems]
        /\ Live' = Live \ {sem[dev][k]}
    BY <1>3, Removed DEF DeleteLast, CallOf
  <2>2. ~enabled'[dev] /\ \A d \in Devs : d # dev => enabled'[d] = enabled[d] /\ sem'[d] = sem[d]
    BY <1>1, <2>1 DEF TypeOK
  <2>3. Owned' = [Owned EXCEPT ![dev] = {}]
    <3>1. ASSUME NEW d \in Devs
          PROVE  (IF enabled'[d] THEN {sem'[d][i] : i \in Fields} ELSE {}) =
                   (IF d = dev THEN {} ELSE Owned[d])
      <4>1. CASE d = dev
        BY <2>2, <4>1
      <4>2. CASE d # dev
        <5>1. {sem'[d][i] : i \in Fields} = {sem[d][i] : i \in Fields}
          BY <2>2, <4>2
        <5> QED BY <2>2, <4>2, <5>1 DEF Owned
      <4> QED BY <4>1, <4>2
    <3>2. Owned' = [d \in Devs |-> IF d = dev THEN {} ELSE Owned[d]]
      BY <3>1 DEF Owned
    <3> QED BY <3>2 DEF Owned
  <2>4. Created = {} /\ Created' = {}
    BY <2>1 DEF Created
  <2>5. \A i \in Fields : sem[dev][i] \notin Live'
    <3>1. \A i \in Fields : i < k \/ i = k
      BY <1>1, <2>1
    <3> QED BY <2>1, <3>1 DEF DTInv, Gone, Deleting
  <2>6. \A x \in Live' : Taken(x)' <=> Taken(x)
    BY <1>1, <2>2, <2>5 DEF Taken
  <2>7. Taken(sem[dev][k])
    BY <1>1 DEF Taken
  <2>8. Lost' = Lost
    <3>1. \A x : x \in Lost' <=> x \in Lost
      BY <2>1, <2>4, <2>6, <2>7, LostIs
    <3> QED BY <3>1 DEF Lost
  <2>9. DT!Return(dev, "unload", "MSD_OK")
    BY <1>1, <2>1 DEF Return, Returned, DT!Return, TypeOK
  <2>10. DT!Loaded(dev)
    <3>1. Owned[dev] = {sem[dev][i] : i \in Fields}
      BY <1>1 DEF Owned
    <3>2. sem[dev][k] \in Owned[dev]
      BY <1>1, <3>1
    <3> QED BY <3>2 DEF DT!Loaded
  <2> QED BY <2>3, <2>8, <2>9, <2>10 DEF DT!Unload
<1> QED BY <1>2, <1>3

(***************************************************************************)
(* Every step of a load or an unload is one of DeviceTable's or unseen.    *)
(***************************************************************************)
LEMMA TableStep == DTInv /\ DInv' /\ [Next]_vars => [DT!Next]_(DT!vars)
<1> SUFFICES ASSUME DTInv, DInv', [Next]_vars PROVE DT!Next \/ Unseen
  BY DEF Unseen, DT!vars
<1>0. dev \in Devs /\ (Deleting => pc \in {"undo", "delete"})
  BY DEF DTInv, DInv, TypeOK, Deleting
<1>1. ASSUME NEW d \in Devs, LoadCall(d) \/ LoadAgain(d) \/ UnloadCall(d)
      PROVE  DT!Next \/ Unseen
  BY <1>1, CallSteps DEF DT!Next
<1>2. CASE CreateMulti \/ IdKnown \/ IdElsewhere \/ IdFails \/ CreateNext
  BY <1>0, <1>2, LoadSteps DEF DT!Next
<1>3. CASE DeleteNext
  BY <1>3, DeleteIsUnseen
<1>4. CASE DeleteLast \/ DeleteFails
  <2>1. pc \in {"undo", "delete"}
    BY <1>4 DEF DeleteLast, DeleteFails, Deleting
  <2> QED BY <1>0, <1>4, <2>1, UndoneIsUnseen, UnloadEnds DEF DT!Next
<1>5. CASE UNCHANGED vars
  BY <1>5 DEF vars, Unseen, Owned, Lost, Created, Live, Returned
<1> QED BY <1>1, <1>2, <1>3, <1>4, <1>5 DEF Next

(***************************************************************************)
(* Over a BSP that keeps msdSemCreate's contract, loads and unloads are    *)
(* all or nothing, whatever the number of devices, of their semaphores and *)
(* of the BSP's: loads fail only for want of semaphores or an identifier,  *)
(* unloads never, and only an unidentified switch costs a semaphore        *)
(* (msdSysConfig.c:59-412, 437-560).                                       *)
(***************************************************************************)
THEOREM LoadsAreAllOrNothing == Spec => LoadsAreAtomic
<1>1. Init => DT!Init
  <2> SUFFICES ASSUME Init PROVE DT!Init
    OBVIOUS
  <2>1. Live = {} /\ Lost = {}
    BY DEF Init, Live, Lost
  <2>2. Owned = [d \in Devs |-> {}]
    BY DEF Init, Owned
  <2>3. Returned = [d \in Devs |-> [call |-> "none", status |-> "MSD_OK"]]
    BY DEF Init, Returned
  <2> QED BY <2>1, <2>2, <2>3 DEF DT!Init
<1>2. Init => Gone
  BY DEF Init, Gone, Deleting
<1>3. DInv /\ Gone /\ DInv' /\ [Next]_vars => [bsp = "contract" => DT!Next]_(DT!vars)
  BY TableStep DEF DTInv
<1>4. DInv => TypeOK
  BY DEF DInv
<1> QED
  BY <1>1, <1>2, <1>3, <1>4, InvHolds, GoneStep, PTL DEF Spec, LoadsAreAtomic

=============================================================================
