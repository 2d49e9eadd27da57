----------------------------- MODULE SpruceAtu ------------------------------
(***************************************************************************)
(* The address table API of the Spruce devices over a bus other than the   *)
(* multi-chip one: Spruce_gfdb* prepare an operation, and                  *)
(* Spruce_atuOperationPerform writes it to the ATU registers under         *)
(* atuRegsSem, register by register.  The data register is an extended     *)
(* one: msdSetAnyExtendedReg and msdGetAnyExtendedReg access its halves    *)
(* one after the other, under multiAddrSem, and return the result of the   *)
(* second access only.  E-CID mode (SplitATU) is off.                      *)
(***************************************************************************)
EXTENDS Atu

CONSTANTS
  Procs,      \* address spaces: each has its own atuRegsSem
  Threads,
  ProcOf,     \* the process of each thread
  Calls,      \* API calls made: [api, ...] (see Requests)
  Learning,   \* does the switch learn and age entries on its own
  IoMayFail,  \* may a register access fail
  NoThread

\* An API call is a request to the ATU, or "find".
FindCalls == [op : {"find"}, db : Dbs, mac : Macs]

ASSUME SpruceAtuAssumption ==
  /\ ProcOf \in [Threads -> Procs]
  /\ Calls \subseteq AllRequests \cup FindCalls
  /\ Calls # {}
  /\ Learning \in BOOLEAN /\ IoMayFail \in BOOLEAN
  /\ NoThread \notin Threads

\* Spruce_gfdbFindAtuMacEntry decrements the address and asks for the next one.
Before(mac) == IF mac = 0 THEN Broadcast ELSE mac - 1
RequestOf(call) ==
  IF call.op = "find" THEN [op |-> "next", db |-> call.db, mac |-> Before(call.mac)]
  ELSE call
Requests == {RequestOf(c) : c \in Calls}
SomeCall == CHOOSE c \in Calls : TRUE

VARIABLES
  pc,      \* where each thread is
  call,    \* the API call it makes
  entry,   \* the SPRUCE_MSD_ATU_ENTRY the operation has filled in
  status,  \* what Spruce_atuOperationPerform returns
  out,     \* what the API call has returned, *found and *atuEntry included
  holder,  \* who has atuRegsSem, in each process
  busy,    \* ATU operation register: busy bit
  opReg,   \*   and the operation
  fidReg,  \* ATU FID register
  macReg,  \* ATU MAC registers
  dataReg, \* ATU data register: the entry, or what is to be moved
  table,   \* the switch's address table
  torn,    \* history: has the call lost half of an access to the data register
  there    \* history: what it had for the wanted address when it was searched

regs == <<busy, opReg, fidReg, macReg, dataReg>>
switch == <<regs, table>>
vars == <<pc, call, entry, status, out, holder, switch, torn, there>>

Ops == {"load", "next", "flushAll", "flushNonStatic", "flushAllInDb", "flushNonStaticInDb"}
Moves == [state : {"move"}, from : Ports, to : Ports \cup {NoPort}]
DataWords == Entries \cup HalfEntries \cup Moves
Untouched == [mac |-> Broadcast, entry |-> Invalid]
NoOut == [ret |-> "none", found |-> FALSE, mac |-> Broadcast, entry |-> Invalid]

TypeOK ==
  /\ pc \in [Threads -> {"idle", "take", "ready", "data", "mac", "fid", "cmd",
                         "busy", "fetch", "give"}]
  /\ call \in [Threads -> Calls]
  /\ entry \in [Threads -> [mac : Macs, entry : DataWords]]
  /\ status \in [Threads -> {"MSD_OK", "MSD_FAIL"}]
  /\ out \in [Threads -> [ret : {"none", "MSD_OK", "MSD_FAIL", "MSD_NO_SUCH"}, found : BOOLEAN,
                          mac : Macs, entry : DataWords]]
  /\ holder \in [Procs -> Threads \cup {NoThread}]
  /\ busy \in BOOLEAN
  /\ opReg \in Ops
  /\ fidReg \in Dbs
  /\ macReg \in Macs
  /\ dataReg \in DataWords
  /\ table \in Tables
  /\ torn \in [Threads -> BOOLEAN]
  /\ there \in [Threads -> Entries \cup {Invalid}]

Init ==
  /\ pc = [t \in Threads |-> "idle"]
  /\ call = [t \in Threads |-> SomeCall]
  /\ entry = [t \in Threads |-> Untouched]
  /\ status = [t \in Threads |-> "MSD_OK"]
  /\ out = [t \in Threads |-> NoOut]
  /\ holder = [p \in Procs |-> NoThread]
  /\ busy = FALSE /\ opReg = "next"
  /\ fidReg \in Dbs /\ macReg = Broadcast /\ dataReg = Invalid
  /\ table = [d \in Dbs |-> [m \in Macs |-> Invalid]]
  /\ torn = [t \in Threads |-> FALSE]
  /\ there = [t \in Threads |-> Invalid]

Goto(t, from, to) == pc[t] = from /\ pc' = [pc EXCEPT ![t] = to]
Req(t) == RequestOf(call[t])

-----------------------------------------------------------------------------
(* Spruce_gfdb*: the call *)

Call(t, c) ==
  /\ Goto(t, "idle", "take")
  /\ call' = [call EXCEPT ![t] = c]
  /\ out' = [out EXCEPT ![t] = NoOut]
  /\ torn' = [torn EXCEPT ![t] = FALSE]
  /\ there' = [there EXCEPT ![t] = Invalid]
  /\ UNCHANGED <<entry, status, holder, switch>>

-----------------------------------------------------------------------------
(* Spruce_atuOperationPerform *)

Take(t) ==
  /\ holder[ProcOf[t]] = NoThread
  /\ Goto(t, "take", "ready")
  /\ holder' = [holder EXCEPT ![ProcOf[t]] = t]
  /\ UNCHANGED <<call, entry, status, out, switch, torn, there>>

FirstWrite(t) == IF Req(t).op = "next" THEN "mac" ELSE "data"

\* Mutant: the operation is prepared without waiting for the previous one.
MutReady(t) ==
  /\ Goto(t, "ready", FirstWrite(t))
  /\ UNCHANGED <<call, entry, status, out, holder, switch, torn, there>>

\* The loop on the busy bit ends.  It has no bound of its own.
Ready(t) ==
  /\ ~busy
  /\ Goto(t, "ready", FirstWrite(t))
  /\ UNCHANGED <<call, entry, status, out, holder, switch, torn, there>>

\* Mutant: every flush is written as a move.
MutDataWord(r) ==
  IF r.op = "load" THEN r.entry ELSE [state |-> "move", from |-> r.from, to |-> r.to]

DataWord(r) ==
  IF r.op = "load" THEN r.entry
  ELSE IF r.from = NoPort THEN Invalid ELSE [state |-> "move", from |-> r.from, to |-> r.to]

WriteData(t) ==
  /\ Goto(t, "data", IF Req(t).op = "load" THEN "mac" ELSE "fid")
  /\ dataReg' = DataWord(Req(t))
  /\ UNCHANGED <<call, entry, status, out, holder, busy, opReg, fidReg, macReg, table, torn, there>>

\* The first write of an extended register, to its upper half, is lost: that of the entry
\* is whatever another extended access has left.  A flush writes the lower half only.
DataTorn(r) == {WithHigh(r.entry, high) : high \in SUBSET HighPorts}

WriteHalfData(t) ==
  /\ IoMayFail
  /\ Req(t).op = "load"
  /\ Goto(t, "data", "mac")
  /\ dataReg' \in DataTorn(Req(t))
  /\ torn' = [torn EXCEPT ![t] = TRUE]
  /\ UNCHANGED <<call, entry, status, out, holder, busy, opReg, fidReg, macReg, table, there>>

WriteMac(t) ==
  /\ Goto(t, "mac", "fid")
  /\ macReg' = Req(t).mac
  /\ UNCHANGED <<call, entry, status, out, holder, busy, opReg, fidReg, dataReg, table, torn, there>>

WriteFid(t) ==
  /\ Goto(t, "fid", "cmd")
  /\ fidReg' = Req(t).db
  /\ UNCHANGED <<call, entry, status, out, holder, busy, opReg, macReg, dataReg, table, torn, there>>

OpOf(r) ==
  IF r.op # "flush" THEN r.op
  ELSE IF r.inDb THEN (IF r.static THEN "flushAllInDb" ELSE "flushNonStaticInDb")
  ELSE IF r.static THEN "flushAll" ELSE "flushNonStatic"

Command(t) == busy' = TRUE /\ opReg' = OpOf(Req(t))

\* Only GET_NEXT waits for the operation to finish.
WriteCmd(t) ==
  /\ Goto(t, "cmd", IF Req(t).op = "next" THEN "busy" ELSE "give")
  /\ Command(t)
  /\ status' = IF Req(t).op = "next" THEN status ELSE [status EXCEPT ![t] = "MSD_OK"]
  /\ UNCHANGED <<call, entry, out, holder, fidReg, macReg, dataReg, table, torn, there>>

Answered(t) ==
  /\ ~busy
  /\ Goto(t, "busy", "fetch")
  /\ UNCHANGED <<call, entry, status, out, holder, switch, torn, there>>

Fetch(t) ==
  /\ Goto(t, "fetch", "give")
  /\ entry' = [entry EXCEPT ![t] = [mac |-> macReg, entry |-> dataReg]]
  /\ status' = [status EXCEPT ![t] = "MSD_OK"]
  /\ UNCHANGED <<call, out, holder, switch, torn, there>>

\* The first read, of the lower half, fails: it reads as 0.
FetchHalf(t) ==
  /\ IoMayFail
  /\ Goto(t, "fetch", "give")
  /\ \E e \in HalfEntries : entry' = [entry EXCEPT ![t] = [mac |-> macReg, entry |-> e]]
  /\ status' = [status EXCEPT ![t] = "MSD_OK"]
  /\ torn' = [torn EXCEPT ![t] = TRUE]
  /\ UNCHANGED <<call, out, holder, switch, there>>

Accessing(t) == pc[t] \in {"ready", "data", "mac", "fid", "cmd", "busy", "fetch"}

\* Mutant: an error returns without giving the semaphore.
MutIoError(t) ==
  /\ IoMayFail
  /\ Accessing(t)
  /\ pc' = [pc EXCEPT ![t] = "idle"]
  /\ status' = [status EXCEPT ![t] = "MSD_FAIL"]
  /\ UNCHANGED <<call, entry, out, holder, switch, torn, there>>

\* A register access fails, of the two to an extended register the second one; what it was
\* to write may have reached the switch.
IoError(t) ==
  /\ IoMayFail
  /\ Accessing(t)
  /\ pc' = [pc EXCEPT ![t] = "give"]
  /\ status' = [status EXCEPT ![t] = "MSD_FAIL"]
  /\ \/ UNCHANGED regs
     \/ /\ pc[t] = "data"
        /\ dataReg' = DataWord(Req(t)) \/ (Req(t).op = "load" /\ dataReg' \in DataTorn(Req(t)))
        /\ UNCHANGED <<busy, opReg, fidReg, macReg>>
     \/ pc[t] = "mac" /\ macReg' = Req(t).mac /\ UNCHANGED <<busy, opReg, fidReg, dataReg>>
     \/ pc[t] = "fid" /\ fidReg' = Req(t).db /\ UNCHANGED <<busy, opReg, macReg, dataReg>>
     \/ pc[t] = "cmd" /\ Command(t) /\ UNCHANGED <<fidReg, macReg, dataReg>>
  /\ UNCHANGED <<call, entry, out, holder, table, torn, there>>

-----------------------------------------------------------------------------
(* Spruce_gfdb*: the return.  What GET_NEXT found is the broadcast address *)
(* without an entry when there is none, and is not copied to the caller's  *)
(* atuEntry when it is that address with an entry.                         *)

NoSuch(t) == entry[t].mac = Broadcast /\ entry[t].entry.state = "invalid"
Copied(t) == entry[t].mac # Broadcast

Out(t, ret, found, mac, e) ==
  out' = [out EXCEPT ![t] = [ret |-> ret, found |-> found, mac |-> mac, entry |-> e]]

ReturnOther(t) ==
  /\ call[t].op \in {"load", "flush"} \/ status[t] = "MSD_FAIL"
  /\ Out(t, status[t], FALSE, Broadcast, Invalid)

ReturnNext(t) ==
  /\ call[t].op = "next" /\ status[t] = "MSD_OK"
  /\ IF NoSuch(t) THEN Out(t, "MSD_NO_SUCH", FALSE, call[t].mac, Invalid)
     ELSE IF Copied(t) THEN Out(t, "MSD_OK", FALSE, entry[t].mac, entry[t].entry)
     ELSE Out(t, "MSD_OK", FALSE, call[t].mac, Invalid)

\* Mutant: only an entry after the wanted address is found.
MutReturnFind(t) ==
  /\ call[t].op = "find" /\ status[t] = "MSD_OK"
  /\ IF NoSuch(t) \/ entry[t].mac = call[t].mac
     THEN Out(t, "MSD_OK", FALSE, call[t].mac, Invalid)
     ELSE Out(t, "MSD_OK", TRUE, call[t].mac, entry[t].entry)

\* Whatever entry comes next counts as found.  One that was not copied leaves the
\* fields of find's own entry as they were, uninitialized.
ReturnFind(t) ==
  /\ call[t].op = "find" /\ status[t] = "MSD_OK"
  /\ IF NoSuch(t) THEN Out(t, "MSD_OK", FALSE, call[t].mac, Invalid)
     ELSE \E e \in IF Copied(t) THEN {entry[t].entry} ELSE Entries :
            Out(t, "MSD_OK", TRUE, call[t].mac, e)

\* The entry and retVal are locals of the call.
Give(t) ==
  /\ Goto(t, "give", "idle")
  /\ holder' = [holder EXCEPT ![ProcOf[t]] = NoThread]
  /\ ReturnOther(t) \/ ReturnNext(t) \/ ReturnFind(t)
  /\ entry' = [entry EXCEPT ![t] = Untouched]
  /\ status' = [status EXCEPT ![t] = "MSD_OK"]
  /\ UNCHANGED <<call, switch, torn, there>>

-----------------------------------------------------------------------------
(* The switch *)

\* The operation in the registers, with the operands they hold.
Pending ==
  CASE opReg = "next" -> [op |-> "next", db |-> fidReg, mac |-> macReg]
    [] opReg = "load" -> [op |-> "load", db |-> fidReg, mac |-> macReg, entry |-> dataReg]
    [] OTHER ->
         [op |-> "flush", db |-> fidReg,
          inDb |-> opReg \in {"flushAllInDb", "flushNonStaticInDb"},
          static |-> opReg \in {"flushAll", "flushAllInDb"},
          from |-> IF dataReg \in Moves THEN dataReg.from ELSE NoPort,
          to |-> IF dataReg \in Moves THEN dataReg.to ELSE NoPort]

Execute ==
  /\ busy
  /\ busy' = FALSE
  /\ table' = Effect(table, Pending)
  /\ IF opReg = "next"
     THEN macReg' = Found(table, Pending).mac /\ dataReg' = Found(table, Pending).entry
     ELSE UNCHANGED <<macReg, dataReg>>
  /\ there' = [t \in Threads |-> IF pc[t] = "busy" /\ call[t].op = "find"
                                THEN table[call[t].db][call[t].mac] ELSE there[t]]
  /\ UNCHANGED <<pc, call, entry, status, out, holder, opReg, fidReg, torn>>

Learn ==
  /\ Learning
  /\ \E d \in Dbs, m \in Macs \ {Broadcast}, p \in Ports :
       table[d][m] = Invalid /\ table' = Learnt(table, d, m, p)
  /\ UNCHANGED <<pc, call, entry, status, out, holder, regs, torn, there>>

Age ==
  /\ Learning
  /\ \E d \in Dbs, m \in Macs :
       table[d][m].state = "dynamic" /\ table' = [table EXCEPT ![d][m] = Invalid]
  /\ UNCHANGED <<pc, call, entry, status, out, holder, regs, torn, there>>

-----------------------------------------------------------------------------
Step(t) ==
  \/ Take(t) \/ Ready(t) \/ WriteData(t) \/ WriteMac(t) \/ WriteFid(t) \/ WriteCmd(t)
  \/ Answered(t) \/ Fetch(t) \/ Give(t)

Next ==
  \/ \E t \in Threads :
         \/ \E c \in Calls : Call(t, c)
         \/ Step(t) \/ WriteHalfData(t) \/ FetchHalf(t) \/ IoError(t)
  \/ Execute \/ Learn \/ Age

Spec == Init /\ [][Next]_vars

(***************************************************************************)
(* A waiter of atuRegsSem is served in the end, the threads run, and the   *)
(* switch finishes its operations: the driver's busy loops have no bound.  *)
(***************************************************************************)
FairSpec ==
  /\ Spec
  /\ \A t \in Threads : WF_vars(Step(t)) /\ SF_vars(Take(t)) /\ SF_vars(Ready(t))
  /\ WF_vars(Execute)

-----------------------------------------------------------------------------
(* Properties *)

\* An operation that the switch has yet to execute counts as done.
Visible == IF busy /\ opReg # "next" THEN Effect(table, Pending) ELSE table

\* GET_NEXT has happened when the switch has executed it.
Happened(t) == pc[t] = "fetch" \/ (pc[t] = "busy" /\ ~busy)

Phase ==
  [t \in Threads |-> CASE pc[t] = "idle" -> "idle"
                       [] pc[t] = "give" -> "done"
                       [] Happened(t)    -> "happened"
                       [] OTHER          -> "called"]
FoundSoFar ==
  [t \in Threads |-> IF Happened(t) THEN [mac |-> macReg, entry |-> dataReg]
                     ELSE Untouched]

Table ==
  INSTANCE AtuTable WITH table <- Visible, req <- [t \in Threads |-> Req(t)],
                         phase <- Phase, found <- FoundSoFar, result <- entry

(***************************************************************************)
(* Operations on the address table are atomic although each is several     *)
(* register accesses, loads and flushes return before the switch has done  *)
(* them, accesses fail half way and the switch learns meanwhile: none uses *)
(* the operands of another one or returns what another one found           *)
(* (Spruce_msdBrgFdb.c:2043, "responsible to write the required operation  *)
(* into the ATU registers").  What the swallowed failure of half an access *)
(* can do to an operation (msdHwAccess.c:374-388, 450-464) it does to that *)
(* one only: other ports of the upper half in its own entry, or a half of  *)
(* its own answer.                                                         *)
(***************************************************************************)
TableAtomic == Table!Spec

(***************************************************************************)
(* A find that returns MSD_OK does not miss an entry that was there when   *)
(* the switch searched for it, and hands over that entry (but for the      *)
(* broadcast address, whose entry Spruce_gfdbGetAtuEntryNext does not      *)
(* copy), whatever the other threads and the switch do meanwhile.  When    *)
(* the lower half of the answer is lost, which MSD_OK does not tell, its   *)
(* state reads as 0: the entry is still found, with a wrong content, but   *)
(* for that of the broadcast address, which 0 turns into "no such entry".  *)
(***************************************************************************)
FindSees ==
  \A t \in Threads :
    pc[t] = "idle" /\ call[t].op = "find" /\ out[t].ret = "MSD_OK" /\ there[t] # Invalid =>
      /\ out[t].found \/ (torn[t] /\ call[t].mac = Broadcast)
      /\ call[t].mac # Broadcast /\ ~torn[t] => out[t].entry = there[t]

(***************************************************************************)
(* found is "MSD_TRUE, if the appropriate entry exists"                    *)
(* (Spruce_msdBrgFdb.c:740).                                               *)
(***************************************************************************)
FindExact ==
  \A t \in Threads :
    pc[t] = "idle" /\ call[t].op = "find" /\ out[t].found => there[t] # Invalid

(***************************************************************************)
(* Every API call returns when the switch finishes its operations, also    *)
(* after register accesses that failed in the middle of one.               *)
(***************************************************************************)
CallsReturn == \A t \in Threads : pc[t] # "idle" ~> pc[t] = "idle"
=============================================================================
