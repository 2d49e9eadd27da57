------------------------------ MODULE AtuTable ------------------------------
(***************************************************************************)
(* What the driver's operations on the address table promise: each happens *)
(* at one instant between its call and its return, or was given up after   *)
(* an error, and then happened at one instant or not at all.  One that is  *)
(* torn may load an entry whose ports of the upper half are not its own,   *)
(* or return half of what it found.  The switch learns and ages dynamic    *)
(* entries on its own meanwhile.                                           *)
(***************************************************************************)
EXTENDS Atu

CONSTANTS
  Threads,
  Requests   \* operations that are called

VARIABLES
  table,   \* the address table
  req,     \* the operation each thread has called last
  phase,   \* idle, called, happened or done
  torn,    \* has it lost half of an access to the data register
  found,   \* what GET_NEXT found when it happened
  status,
  result   \* what it returns

vars == <<table, req, phase, torn, found, status, result>>

Nothing == [mac |-> Broadcast, entry |-> Invalid]

Init ==
  /\ table = [d \in Dbs |-> [m \in Macs |-> Invalid]]
  /\ req \in [Threads -> Requests]
  /\ phase = [t \in Threads |-> "idle"]
  /\ torn = [t \in Threads |-> FALSE]
  /\ found = [t \in Threads |-> Nothing]
  /\ status = [t \in Threads |-> "MSD_OK"]
  /\ result = [t \in Threads |-> Nothing]

Call(t, r) ==
  /\ phase[t] = "idle"
  /\ phase' = [phase EXCEPT ![t] = "called"]
  /\ req' = [req EXCEPT ![t] = r]
  /\ torn' = [torn EXCEPT ![t] = FALSE]
  /\ UNCHANGED <<table, found, status, result>>

Tear(t) ==
  /\ phase[t] = "called"
  /\ req[t].op = "load"
  /\ torn' = [torn EXCEPT ![t] = TRUE]
  /\ UNCHANGED <<table, req, phase, found, status, result>>

\* GET_NEXT looks for the entry,
Find(t) ==
  /\ phase[t] = "called"
  /\ req[t].op = "next"
  /\ phase' = [phase EXCEPT ![t] = "happened"]
  /\ found' = [found EXCEPT ![t] = Found(table, req[t])]
  /\ UNCHANGED <<table, req, torn, status, result>>

Done(t, s) ==
  /\ phase' = [phase EXCEPT ![t] = "done"]
  /\ found' = [found EXCEPT ![t] = Nothing]
  /\ status' = [status EXCEPT ![t] = s]
  /\ UNCHANGED req

\* and returns it
Answer(t) ==
  /\ phase[t] = "happened"
  /\ Done(t, "MSD_OK")
  /\ result' = [result EXCEPT ![t] = found[t]]
  /\ UNCHANGED <<table, torn>>

\* or half of it.
HalfAnswer(t) ==
  /\ phase[t] = "happened"
  /\ Done(t, "MSD_OK")
  /\ torn' = [torn EXCEPT ![t] = TRUE]
  /\ \E e \in HalfEntries : result' = [result EXCEPT ![t] = [mac |-> found[t].mac, entry |-> e]]
  /\ UNCHANGED table

\* What is done of a request.
AsDone(r, tear) ==
  IF tear THEN {[r EXCEPT !.entry = WithHigh(r.entry, high)] : high \in SUBSET HighPorts} ELSE {r}

\* The other operations change the table.
Change(t) ==
  /\ phase[t] = "called"
  /\ req[t].op # "next"
  /\ Done(t, "MSD_OK")
  /\ \E r \in AsDone(req[t], torn[t]) : table' = Effect(table, r)
  /\ UNCHANGED <<torn, result>>

GiveUp(t) ==
  /\ phase[t] \in {"called", "happened"}
  /\ Done(t, "MSD_FAIL")
  /\ \/ UNCHANGED table
     \/ /\ phase[t] = "called"
        /\ \E r \in AsDone(req[t], torn[t]) : table' = Effect(table, r)
  /\ UNCHANGED <<torn, result>>

Return(t) ==
  /\ phase[t] = "done"
  /\ phase' = [phase EXCEPT ![t] = "idle"]
  /\ result' = [result EXCEPT ![t] = Nothing]
  /\ status' = [status EXCEPT ![t] = "MSD_OK"]
  /\ UNCHANGED <<table, req, torn, found>>

Learn ==
  /\ \E d \in Dbs, m \in Macs, p \in Ports :
       table[d][m] = Invalid /\ table' = Learnt(table, d, m, p)
  /\ UNCHANGED <<req, phase, torn, found, status, result>>

Age ==
  /\ \E d \in Dbs, m \in Macs :
       table[d][m].state = "dynamic" /\ table' = [table EXCEPT ![d][m] = Invalid]
  /\ UNCHANGED <<req, phase, torn, found, status, result>>

Next ==
  \/ \E t \in Threads :
         \/ \E r \in Requests : Call(t, r)
         \/ Tear(t) \/ Find(t) \/ Answer(t) \/ HalfAnswer(t) \/ Change(t) \/ GiveUp(t) \/ Return(t)
  \/ Learn \/ Age

Spec == Init /\ [][Next]_vars
=============================================================================
