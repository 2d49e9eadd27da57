----------------------------- MODULE DriverLife -----------------------------
(***************************************************************************)
(* Loading and unloading the driver of a device: msdLoadDriver and         *)
(* msdUnLoadDriver, and the BSP's semaphores they create and delete.  One  *)
(* thread makes the calls (main.c); the devices share the BSP's semaphores.*)
(***************************************************************************)
EXTENDS Integers

CONSTANTS
  Devs,       \* device numbers below MAX_SOHO_DEVICES
  NumSems,    \* semaphores of a device, multiAddrSem being the first
  PoolSize,   \* semaphores the BSP has
  Bsps,       \* the BSPs the driver may be built with
  Unknown     \* devices whose switch identifier may be unreadable or unknown

ASSUME DriverLifeAssumption ==
  /\ NumSems \in Nat /\ NumSems > 1
  /\ PoolSize \in Nat
  /\ Bsps \subseteq {"contract", "linux"}
  /\ Unknown \subseteq Devs

Null == 0
Bad == -3           \* semaphoreCreate's "Over the Max Semaphore numbers"
Fields == 1 .. NumSems
Ids == 1 .. PoolSize
Bases == {0, 2, 16} \* baseRegAddr

VARIABLES
  bsp,      \* the BSP: that of host/linux, or one that keeps msdSemCreate's contract
  known,    \* sohoDevsPtr[d] is set
  enabled,  \* devEnabled
  sem,      \* the semaphore fields of each device structure
  base,     \* baseRegAddr the identifier is looked for at
  pc,       \* where the calling thread is
  dev,      \* the device it loads or unloads
  k,        \* the field it is at
  ret,      \* what the last finished call on each device was and returned
  live,     \* semaphores that exist, with the device each was created for
  next      \* g_semcount of the Linux BSP

vars == <<bsp, known, enabled, sem, base, pc, dev, k, ret, live, next>>

Calls == {"none", "load", "unload"}
Statuses == {"MSD_OK", "MSD_FAIL", "MSD_ALREADY_EXIST"}
NoSems == [i \in Fields |-> Null]

TypeOK ==
  /\ bsp \in Bsps
  /\ known \in [Devs -> BOOLEAN] /\ enabled \in [Devs -> BOOLEAN]
  /\ sem \in [Devs -> [Fields -> Ids \cup {Null, Bad}]]
  /\ base \in [Devs -> Bases]
  /\ pc \in {"idle", "multi", "id", "create", "undo", "delete"}
  /\ dev \in Devs /\ k \in Fields
  /\ ret \in [Devs -> [call : Calls, status : Statuses]]
  /\ live \subseteq Ids \X Devs
  /\ next \in 1 .. PoolSize + 1

Init ==
  /\ bsp \in Bsps
  /\ known = [d \in Devs |-> FALSE] /\ enabled = [d \in Devs |-> FALSE]
  /\ sem = [d \in Devs |-> NoSems]
  /\ base = [d \in Devs |-> 0]
  /\ pc = "idle" /\ dev \in Devs /\ k = 1
  /\ ret = [d \in Devs |-> [call |-> "none", status |-> "MSD_OK"]]
  /\ live = {} /\ next = 1

Goto(from, to) == pc = from /\ pc' = to
Return(d, c, s) == ret' = [ret EXCEPT ![d] = [call |-> c, status |-> s]]

-----------------------------------------------------------------------------
(* The BSP: semCreate stores its result into field i of d. *)

Live == {s[1] : s \in live}
Remove(id) == live' = {s \in live : s[1] # id}

\* Mutant: the counter is not advanced.
MutCreateLinux(d, i) ==
  IF next > PoolSize
  THEN sem' = [sem EXCEPT ![d][i] = Bad] /\ UNCHANGED <<live, next>>
  ELSE /\ sem' = [sem EXCEPT ![d][i] = next]
       /\ live' = live \cup {<<next, d>>}
       /\ UNCHANGED next

CreateLinux(d, i) ==
  IF next > PoolSize
  THEN sem' = [sem EXCEPT ![d][i] = Bad] /\ UNCHANGED <<live, next>>
  ELSE /\ sem' = [sem EXCEPT ![d][i] = next]
       /\ live' = live \cup {<<next, d>>}
       /\ next' = next + 1

CreateContract(d, i) ==
  /\ \/ /\ Live = Ids
        /\ sem' = [sem EXCEPT ![d][i] = Null] /\ UNCHANGED live
     \/ \E id \in Ids \ Live :
          sem' = [sem EXCEPT ![d][i] = id] /\ live' = live \cup {<<id, d>>}
  /\ UNCHANGED next

SemCreate(d, i) == IF bsp = "linux" THEN CreateLinux(d, i) ELSE CreateContract(d, i)

\* Does msdSemDelete return MSD_OK.  sem_destroy of a destroyed one does too.
DeleteOk(id) == id # Null /\ (IF bsp = "linux" THEN id # Bad ELSE id \in Live)

-----------------------------------------------------------------------------
(* msdLoadDriver *)

LoadCall(d) ==
  /\ ~enabled[d]
  /\ Goto("idle", "multi")
  /\ dev' = d
  /\ known' = [known EXCEPT ![d] = TRUE]
  /\ sem' = [sem EXCEPT ![d] = NoSems]
  /\ base' = [base EXCEPT ![d] = 0]
  /\ UNCHANGED <<bsp, enabled, k, ret, live, next>>

LoadAgain(d) ==
  /\ pc = "idle"
  /\ known[d] /\ enabled[d]
  /\ Return(d, "load", "MSD_ALREADY_EXIST")
  /\ UNCHANGED <<bsp, known, enabled, sem, base, pc, dev, k, live, next>>

CreateMulti ==
  /\ pc = "multi"
  /\ SemCreate(dev, 1)
  /\ pc' = IF sem'[dev][1] = Null THEN "undo" ELSE "id"
  /\ k' = 1
  /\ UNCHANGED <<bsp, known, enabled, base, dev, ret>>

\* The identifier is read and is one of the switches the driver knows.
IdKnown ==
  /\ Goto("id", "create")
  /\ k' = 2
  /\ UNCHANGED <<bsp, known, enabled, sem, base, dev, ret, live, next>>

\* It is not: look at the next base address.
IdElsewhere ==
  /\ pc = "id"
  /\ base[dev] \in {0, 16}
  /\ base' = [base EXCEPT ![dev] = IF base[dev] = 0 THEN 16 ELSE 2]
  /\ UNCHANGED <<bsp, known, enabled, sem, pc, dev, k, ret, live, next>>

\* The read fails, or there is no base address left: MSD_FAIL.
IdFails ==
  /\ dev \in Unknown
  /\ Goto("id", "idle")
  /\ Return(dev, "load", "MSD_FAIL")
  /\ UNCHANGED <<bsp, known, enabled, sem, base, dev, k, live, next>>

\* Mutant: a semaphore that cannot be created ends the load there.
MutCreateNext ==
  /\ pc = "create"
  /\ SemCreate(dev, k)
  /\ IF sem'[dev][k] = Null
     THEN pc' = "idle" /\ k' = 1 /\ Return(dev, "load", "MSD_FAIL") /\ UNCHANGED enabled
     ELSE IF k < NumSems
     THEN k' = k + 1 /\ UNCHANGED <<pc, ret, enabled>>
     ELSE /\ pc' = "idle" /\ k' = 1
          /\ enabled' = [enabled EXCEPT ![dev] = TRUE]
          /\ Return(dev, "load", "MSD_OK")
  /\ UNCHANGED <<bsp, known, base, dev>>

CreateNext ==
  /\ pc = "create"
  /\ SemCreate(dev, k)
  /\ IF sem'[dev][k] = Null
     THEN pc' = "undo" /\ k' = 1 /\ UNCHANGED <<ret, enabled>>
     ELSE IF k < NumSems
     THEN k' = k + 1 /\ UNCHANGED <<pc, ret, enabled>>
     ELSE /\ pc' = "idle" /\ k' = 1
          /\ enabled' = [enabled EXCEPT ![dev] = TRUE]
          /\ Return(dev, "load", "MSD_OK")
  /\ UNCHANGED <<bsp, known, base, dev>>

-----------------------------------------------------------------------------
(* msdUnLoadDriver, called by qdClose or by msdLoadDriver to undo a load.   *)

UnloadCall(d) ==
  /\ enabled[d]
  /\ Goto("idle", "delete")
  /\ dev' = d /\ k' = 1
  /\ UNCHANGED <<bsp, known, enabled, sem, base, ret, live, next>>

Deleting == pc \in {"undo", "delete"}
CallOf(p) == IF p = "undo" THEN "load" ELSE "unload"

\* Mutant: fields are deleted from the one at hand downwards.
MutDeleteNext ==
  /\ Deleting
  /\ k < NumSems
  /\ DeleteOk(sem[dev][k])
  /\ Remove(sem[dev][k])
  /\ k' = k - 1
  /\ UNCHANGED <<bsp, known, enabled, sem, base, pc, dev, ret, next>>

DeleteNext ==
  /\ Deleting
  /\ k < NumSems
  /\ DeleteOk(sem[dev][k])
  /\ Remove(sem[dev][k])
  /\ k' = k + 1
  /\ UNCHANGED <<bsp, known, enabled, sem, base, pc, dev, ret, next>>

\* Mutant: the device structure is not cleared.
MutDeleteLast ==
  /\ Deleting
  /\ k = NumSems
  /\ DeleteOk(sem[dev][k])
  /\ Remove(sem[dev][k])
  /\ pc' = "idle" /\ k' = 1
  /\ Return(dev, CallOf(pc), IF pc = "undo" THEN "MSD_FAIL" ELSE "MSD_OK")
  /\ UNCHANGED <<bsp, known, enabled, sem, base, dev, next>>

\* After the last one the device structure is cleared.
DeleteLast ==
  /\ Deleting
  /\ k = NumSems
  /\ DeleteOk(sem[dev][k])
  /\ Remove(sem[dev][k])
  /\ sem' = [sem EXCEPT ![dev] = NoSems]
  /\ enabled' = [enabled EXCEPT ![dev] = FALSE]
  /\ base' = [base EXCEPT ![dev] = 0]
  /\ pc' = "idle" /\ k' = 1
  /\ Return(dev, CallOf(pc), IF pc = "undo" THEN "MSD_FAIL" ELSE "MSD_OK")
  /\ UNCHANGED <<bsp, known, dev, next>>

\* The first one that cannot be deleted ends the call.
DeleteFails ==
  /\ Deleting
  /\ ~DeleteOk(sem[dev][k])
  /\ pc' = "idle" /\ k' = 1
  /\ Return(dev, CallOf(pc), "MSD_FAIL")
  /\ UNCHANGED <<bsp, known, enabled, sem, base, dev, live, next>>

-----------------------------------------------------------------------------
Next ==
  \/ \E d \in Devs : LoadCall(d) \/ LoadAgain(d) \/ UnloadCall(d)
  \/ CreateMulti \/ IdKnown \/ IdElsewhere \/ IdFails \/ CreateNext
  \/ DeleteNext \/ DeleteLast \/ DeleteFails

Spec == Init /\ [][Next]_vars

-----------------------------------------------------------------------------
(* Properties *)

Unloading(d) == pc = "delete" /\ dev = d

(***************************************************************************)
(* Every semaphore field of a loaded device is a semaphore that exists and *)
(* that no other field of a loaded device shares (msdSem.c:38, "MSD_SEM if *)
(* success. Otherwise, NULL"): two tables never lock each other out, and   *)
(* none is unprotected.                                                    *)
(***************************************************************************)
LoadedUsable ==
  \A d \in Devs : enabled[d] /\ ~Unloading(d) =>
    \A i \in Fields :
      /\ sem[d][i] \in Live
      /\ \A e \in Devs, j \in Fields :
           enabled[e] /\ sem[e][j] = sem[d][i] => e = d /\ j = i

(***************************************************************************)
(* LoadedUsable, over a BSP that keeps msdSemCreate's contract, whatever   *)
(* loads failed before and in whatever order the devices come and go.      *)
(***************************************************************************)
ContractUsable == bsp = "contract" => LoadedUsable

(***************************************************************************)
(* Also with the Linux BSP, whose pool runs out, two fields of loaded      *)
(* devices never name the same semaphore, whatever loads failed and        *)
(* unloads were cut short before (Wrapper.cpp:56-78).                      *)
(***************************************************************************)
NeverShared ==
  \A d, e \in Devs, i, j \in Fields :
    enabled[d] /\ enabled[e] /\ sem[d][i] \in Ids /\ sem[d][i] = sem[e][j] => d = e /\ i = j

(***************************************************************************)
(* A load that runs out of semaphores half way has deleted the ones it had *)
(* created (msdSysConfig.c:306-310): between calls the semaphores created  *)
(* for a device whose switch can be identified are those it is loaded      *)
(* with, and none otherwise.                                               *)
(***************************************************************************)
FailedLoadFreesAll ==
  bsp = "contract" /\ pc = "idle" =>
    \A d \in Devs \ Unknown :
      {s[1] : s \in {x \in live : x[2] = d}} =
        IF enabled[d] THEN {sem[d][i] : i \in Fields} ELSE {}

(***************************************************************************)
(* An unload leaves the device ready to be loaded again: disabled, without *)
(* semaphores (msdSysConfig.c:56, "msdUnLoadDriver is also provided to do  *)
(* driver cleanup").                                                       *)
(***************************************************************************)
UnloadCleansUp ==
  \A d \in Devs :
    bsp = "contract" /\ pc = "idle" /\ ret[d].call = "unload" => ~enabled[d] /\ sem[d] = NoSems

\* A load has what it created until it ends; a device has its semaphores when enabled.
Created == IF pc \in {"id", "create", "undo"} THEN {sem[dev][i] : i \in Fields} ELSE {}
Owned == [d \in Devs |-> IF enabled[d] THEN {sem[d][i] : i \in Fields} ELSE {}]
Lost == Live \ (Created \cup UNION {Owned[d] : d \in Devs})

\* A load that begins to undo what it did has failed.
Returned ==
  [d \in Devs |-> IF pc = "undo" /\ d = dev THEN [call |-> "load", status |-> "MSD_FAIL"]
                  ELSE ret[d]]

DT == INSTANCE DeviceTable WITH owned <- Owned, lost <- Lost, ret <- Returned

(***************************************************************************)
(* Loads and unloads are all or nothing: a load that meets the end of the  *)
(* pool in any of its fields does so only when too few semaphores were     *)
(* free for the device, and leaves them as free as they were, an unload    *)
(* frees them all and succeeds, and the only semaphores ever lost are the  *)
(* ones of loads whose switch was not identified, one each                 *)
(* (msdSysConfig.c:59-412, 437-560).  The BSP never changes, and over one  *)
(* that keeps its contract this is DT!Spec.                                *)
(***************************************************************************)
LoadsAreAtomic ==
  /\ bsp = "contract" => DT!Init
  /\ [][bsp = "contract" => DT!Next]_(DT!vars)

=============================================================================
