----------------------------- MODULE DeviceTable ----------------------------
(***************************************************************************)
(* What the callers of msdLoadDriver and msdUnLoadDriver rely on: a load   *)
(* gives a device all of its semaphores or none, and fails for want of     *)
(* them only when there are not enough; an unload frees them all and does  *)
(* not fail.  A load that cannot identify its switch loses a semaphore.    *)
(***************************************************************************)
EXTENDS Integers, FiniteSets

CONSTANTS Devs, NumSems, Ids, Unknown

VARIABLES
  owned,  \* the semaphores of each device
  lost,   \* those that exist and that no device has
  ret     \* what the last finished call on each device was and returned

vars == <<owned, lost, ret>>

Free == Ids \ (lost \cup UNION {owned[d] : d \in Devs})
Loaded(d) == owned[d] # {}

Return(d, c, s) == ret' = [ret EXCEPT ![d] = [call |-> c, status |-> s]]

Init ==
  /\ owned = [d \in Devs |-> {}]
  /\ lost = {}
  /\ ret = [d \in Devs |-> [call |-> "none", status |-> "MSD_OK"]]

Load(d) ==
  /\ ~Loaded(d)
  /\ \E S \in SUBSET Free :
       Cardinality(S) = NumSems /\ owned' = [owned EXCEPT ![d] = S]
  /\ Return(d, "load", "MSD_OK")
  /\ UNCHANGED lost

LoadAgain(d) ==
  /\ Loaded(d)
  /\ Return(d, "load", "MSD_ALREADY_EXIST")
  /\ UNCHANGED <<owned, lost>>

TooFew(d) ==
  /\ ~Loaded(d)
  /\ Cardinality(Free) < NumSems
  /\ Return(d, "load", "MSD_FAIL")
  /\ UNCHANGED <<owned, lost>>

NotIdentified(d) ==
  /\ ~Loaded(d) /\ d \in Unknown
  /\ \E id \in Free : lost' = lost \cup {id}
  /\ Return(d, "load", "MSD_FAIL")
  /\ UNCHANGED owned

Unload(d) ==
  /\ Loaded(d)
  /\ owned' = [owned EXCEPT ![d] = {}]
  /\ Return(d, "unload", "MSD_OK")
  /\ UNCHANGED lost

Next ==
  \E d \in Devs : Load(d) \/ LoadAgain(d) \/ TooFew(d) \/ NotIdentified(d) \/ Unload(d)

Spec == Init /\ [][Next]_vars
=============================================================================
