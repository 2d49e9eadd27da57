-------------------------- MODULE SpruceAtuProofs ---------------------------
(***************************************************************************)
(* What SpruceAtu guarantees to the threads of one process, for every      *)
(* table, every set of calls and whatever the switch learns meanwhile.     *)
(***************************************************************************)
EXTENDS SpruceAtu, WellFoundedInduction, TLAPS

\* All threads take the same atuRegsSem.
OneProcess == \A t, u \in Threads : ProcOf[t] = ProcOf[u]

\* Where a thread has atuRegsSem.
Holding == {"ready", "data", "mac", "fid", "cmd", "busy", "fetch", "give"}
Lock == \A t \in Threads : holder[ProcOf[t]] = t <=> pc[t] \in Holding

\* What a load or a flush has written to the data register.
Written(t) == IF torn[t] THEN DataTorn(Req(t)) ELSE {DataWord(Req(t))}

\* The operands that are in the registers at each step of an operation.
Operands(t) ==
  LET r == Req(t)
  IN /\ pc[t] = "data" => r.op # "next"
     /\ pc[t] = "mac" => r.op # "flush"
     /\ pc[t] \in {"busy", "fetch"} => r.op = "next"
     /\ pc[t] \in {"mac", "fid", "cmd"} /\ r.op # "next" => dataReg \in Written(t)
     /\ pc[t] \in {"fid", "cmd"} /\ r.op # "flush" => macReg = r.mac
     /\ pc[t] = "cmd" => fidReg = r.db

\* The switch is busy with no other operation than the one that is waited for.
Quiet(t) ==
  /\ pc[t] \in {"data", "mac", "fid", "cmd", "fetch"} => ~busy
  /\ pc[t] = "busy" /\ busy => opReg = "next" /\ fidReg = Req(t).db /\ macReg = Req(t).mac
RegsInv == \A t \in Threads : Operands(t) /\ Quiet(t)

\* An operation that has lost a half before its command is a load.
TornInv ==
  \A t \in Threads : torn[t] /\ pc[t] \notin {"idle", "give"} =>
    pc[t] \in {"mac", "fid", "cmd"} /\ Req(t).op = "load"

\* It has an entry to load.
Loadable == busy /\ opReg = "load" => dataReg \in Entries \cup {Invalid}

AtuInv == TypeOK /\ Lock /\ TornInv /\ RegsInv /\ Loadable

\* A find that missed nothing so far.
Seen(t) ==
  call[t].op = "find" /\ there[t] # Invalid =>
    /\ Happened(t) => macReg = call[t].mac /\ dataReg = there[t]
    /\ pc[t] = "give" /\ status[t] = "MSD_OK" =>
         entry[t].mac = call[t].mac /\ (~torn[t] => entry[t].entry = there[t])
SeenInv == AtuInv /\ FindSees /\ \A t \in Threads : Seen(t)

(***************************************************************************)
(* Entries, "no entry" and what a flush moves are told apart.              *)
(***************************************************************************)
LEMMA Words ==
  /\ Invalid \notin Entries /\ Invalid \notin Moves
  /\ \A e \in Entries : e \notin Moves /\ e.state \in {"dynamic", "static"}
  /\ Invalid \in HalfEntries
BY AtuAssumption DEF Invalid, Entries, HalfEntries, Moves

(***************************************************************************)
(* What a call asks the address table unit for.                            *)
(***************************************************************************)
LEMMA CallIsRequest ==
  ASSUME NEW c \in Calls
  PROVE  /\ RequestOf(c) \in AllRequests
         /\ c.op = "find" => c \in FindCalls /\ RequestOf(c).op = "next"
         /\ c.op # "find" => RequestOf(c) = c
<1>1. c \in AllRequests \/ c \in FindCalls
  BY SpruceAtuAssumption
<1>2. CASE c \in AllRequests
  <2>1. c.op # "find"
    BY <1>2 DEF AllRequests, LoadRequests, NextRequests, FlushRequests
  <2> QED BY <1>2, <2>1 DEF RequestOf
<1>3. CASE c \in FindCalls
  <2>1. c.op = "find" /\ c.db \in Dbs /\ c.mac \in Macs
    BY <1>3 DEF FindCalls
  <2>2. Before(c.mac) \in Macs
    BY <2>1, AtuAssumption DEF Before, Macs, Broadcast
  <2>3. RequestOf(c) = [op |-> "next", db |-> c.db, mac |-> Before(c.mac)]
    BY <2>1 DEF RequestOf
  <2>4. RequestOf(c) \in NextRequests /\ RequestOf(c).op = "next"
    BY <2>1, <2>2, <2>3 DEF NextRequests
  <2> QED BY <1>3, <2>1, <2>4 DEF AllRequests
<1> QED BY <1>1, <1>2, <1>3

(***************************************************************************)
(* The fields a request has.                                               *)
(***************************************************************************)
LEMMA RequestFields ==
  ASSUME NEW r \in AllRequests
  PROVE  /\ r.op \in {"load", "next", "flush"} /\ r.db \in Dbs
         /\ r.op = "load" => r \in LoadRequests /\ r.mac \in Macs
                             /\ r.entry \in Entries \cup {Invalid}
         /\ r.op = "next" => r \in NextRequests /\ r.mac \in Macs
         /\ r.op = "flush" => r \in FlushRequests /\ r.inDb \in BOOLEAN /\ r.static \in BOOLEAN
                              /\ r.from \in Ports \cup {NoPort} /\ r.to \in Ports \cup {NoPort}
BY DEF AllRequests, LoadRequests, NextRequests, FlushRequests

(***************************************************************************)
(* Every set of numbers has a smallest one.                                *)
(***************************************************************************)
LEMMA Smallest ==
  ASSUME NEW S \in SUBSET Nat, S # {}
  PROVE  \E m \in S : \A n \in S : m <= n
<1>1. IsWellFoundedOn(OpToRel(<, Nat), Nat)
  BY NatLessThanWellFounded
<1>2. PICK m \in S : \A n \in S : ~(<<n, m>> \in OpToRel(<, Nat))
  BY <1>1, WFMin
<1>3. \A n \in S : ~(n < m)
  BY <1>2 DEF OpToRel
<1>4. m \in S /\ \A n \in S : n \in Nat
  OBVIOUS
<1>5. \A n \in S : m <= n
  BY <1>3, <1>4
<1> QED BY <1>4, <1>5

(***************************************************************************)
(* The search for the next entry ends at an address, and the search from   *)
(* the address before one that has an entry ends at that address, the      *)
(* first and the broadcast address included.                               *)
(***************************************************************************)
LEMMA NextMacRange ==
  ASSUME NEW tab \in Tables, NEW d \in Dbs, NEW mac \in Macs
  PROVE  NextMac(tab, d, mac) \in Macs
<1> DEFINE after == {m \in Valid(tab, d) : m > mac \/ mac = Broadcast}
<1>1. after \in SUBSET Nat /\ after \subseteq Macs
  BY AtuAssumption DEF Valid, Macs
<1>2. CASE after = {}
  BY <1>2, AtuAssumption DEF NextMac, Broadcast, Macs
<1>3. CASE after # {}
  <2>1. \E m \in after : \A n \in after : m <= n
    BY <1>1, <1>3, Smallest
  <2>2. (CHOOSE m \in after : \A n \in after : m <= n) \in after
    BY <2>1
  <2>3. NextMac(tab, d, mac) \in after
    BY <1>3, <2>2 DEF NextMac
  <2> QED BY <1>1, <2>3
<1> QED BY <1>2, <1>3

(***************************************************************************)
(* The next entry of the address before one that is there is that one.     *)
(***************************************************************************)
LEMMA NextMacFinds ==
  ASSUME NEW tab \in Tables, NEW d \in Dbs, NEW mac \in Macs, tab[d][mac] # Invalid
  PROVE  NextMac(tab, d, Before(mac)) = mac
<1> DEFINE after == {m \in Valid(tab, d) : m > Before(mac) \/ Before(mac) = Broadcast}
<1>1. mac \in after /\ \A n \in after : n \in Int /\ mac <= n
  BY AtuAssumption DEF Valid, Macs, Before, Broadcast
<1>2. \A m \in after : (\A n \in after : m <= n) => m = mac
  BY <1>1
<1>3. (CHOOSE m \in after : \A n \in after : m <= n) = mac
  BY <1>1, <1>2
<1> QED BY <1>1, <1>3 DEF NextMac

(***************************************************************************)
(* An entry with another upper half is an entry.                           *)
(***************************************************************************)
LEMMA WithHighRange ==
  ASSUME NEW e \in Entries \cup {Invalid}, NEW high \in SUBSET HighPorts
  PROVE  WithHigh(e, high) \in Entries \cup {Invalid}
<1>1. CASE e = Invalid
  BY <1>1 DEF WithHigh
<1>2. CASE e \in Entries /\ e # Invalid
  <2>1. (e.vec \ HighPorts) \cup high \in SUBSET Ports
    BY <1>2, AtuAssumption DEF Entries
  <2> QED BY <1>2, <2>1 DEF WithHigh, Entries
<1> QED BY <1>1, <1>2

(***************************************************************************)
(* An operation makes a table of a table.                                  *)
(***************************************************************************)
LEMMA FlushedRange ==
  ASSUME NEW e \in Entries \cup {Invalid}, NEW r \in FlushRequests
  PROVE  Flushed(e, r) \in Entries \cup {Invalid}
<1>1. r.from \in Ports \cup {NoPort} /\ r.to \in Ports \cup {NoPort}
  BY DEF FlushRequests
<1>2. CASE e = Invalid
  BY <1>2 DEF Flushed
<1>3. CASE e \in Entries
  <2>1. (e.vec \ {r.from}) \cup ({r.to} \ {NoPort}) \in SUBSET Ports
    BY <1>1, <1>3 DEF Entries
  <2>2. Moved(e, r.from, r.to) \in Entries \cup {Invalid}
    BY <1>3, <2>1 DEF Moved, Entries
  <2> QED BY <1>3, <2>2 DEF Flushed
<1> QED BY <1>2, <1>3

(***************************************************************************)
(* So does every operation the driver asks for.                            *)
(***************************************************************************)
LEMMA EffectRange ==
  ASSUME NEW tab \in Tables, NEW r \in AllRequests
  PROVE  Effect(tab, r) \in Tables
<1>1. CASE r.op = "load"
  BY <1>1, RequestFields DEF Effect, Tables
<1>2. CASE r.op = "next"
  BY <1>2 DEF Effect
<1>3. CASE r.op = "flush"
  <2>1. r \in FlushRequests
    BY <1>3, RequestFields
  <2>2. ASSUME NEW d \in Dbs, NEW m \in Macs
        PROVE  Flushed(tab[d][m], r) \in Entries \cup {Invalid} /\ tab[d][m] \in Entries \cup {Invalid}
    BY <2>1, FlushedRange DEF Tables
  <2> QED BY <1>3, <2>2 DEF Effect, Tables
<1> QED BY <1>1, <1>2, <1>3, RequestFields

(***************************************************************************)
(* The operation in the registers is a request.                            *)
(***************************************************************************)
LEMMA PendingRange ==
  ASSUME TypeOK, Loadable, busy
  PROVE  /\ Pending \in AllRequests
         /\ opReg = "next" <=> Pending.op = "next"
<1>1. fidReg \in Dbs /\ macReg \in Macs /\ opReg \in Ops /\ dataReg \in DataWords
  BY DEF TypeOK
<1>2. CASE opReg = "next"
  <2>1. Pending = [op |-> "next", db |-> fidReg, mac |-> macReg]
    BY <1>2 DEF Pending
  <2> QED BY <1>1, <1>2, <2>1 DEF AllRequests, NextRequests
<1>3. CASE opReg = "load"
  <2>1. Pending = [op |-> "load", db |-> fidReg, mac |-> macReg, entry |-> dataReg]
    BY <1>3 DEF Pending
  <2>2. dataReg \in Entries \cup {Invalid}
    BY <1>3 DEF Loadable
  <2> QED BY <1>1, <1>3, <2>1, <2>2 DEF AllRequests, LoadRequests
<1>4. CASE opReg \notin {"next", "load"}
  <2> DEFINE from == IF dataReg \in Moves THEN dataReg.from ELSE NoPort
             to == IF dataReg \in Moves THEN dataReg.to ELSE NoPort
  <2>1. from \in Ports \cup {NoPort} /\ to \in Ports \cup {NoPort}
    BY DEF Moves
  <2>2. Pending = [op |-> "flush", db |-> fidReg,
                   inDb |-> opReg \in {"flushAllInDb", "flushNonStaticInDb"},
                   static |-> opReg \in {"flushAll", "flushAllInDb"},
                   from |-> from, to |-> to]
    BY <1>4 DEF Pending
  <2> HIDE DEF from, to
  <2>3. Pending \in FlushRequests /\ Pending.op = "flush"
    BY <1>1, <2>1, <2>2 DEF FlushRequests
  <2> QED BY <1>4, <2>3 DEF AllRequests
<1> QED BY <1>2, <1>3, <1>4

(***************************************************************************)
(* Every step keeps the variables in their ranges.                         *)
(***************************************************************************)
LEMMA TypeInit == Init => TypeOK
<1>1. SomeCall \in Calls
  BY SpruceAtuAssumption DEF SomeCall
<1>2. Untouched \in [mac : Macs, entry : DataWords] /\ Broadcast \in Macs /\ Invalid \in DataWords
  BY AtuAssumption, Words DEF Untouched, Macs, Broadcast, DataWords
<1>3. NoOut \in [ret : {"none", "MSD_OK", "MSD_FAIL", "MSD_NO_SUCH"}, found : BOOLEAN,
                 mac : Macs, entry : DataWords]
  BY <1>2 DEF NoOut
<1>4. ASSUME Init PROVE table \in Tables
  BY <1>4 DEF Init, Tables
<1> SUFFICES ASSUME Init PROVE TypeOK
  OBVIOUS
<1>5. table \in Tables
  BY <1>4
<1>6. /\ out \in [Threads -> [ret : {"none", "MSD_OK", "MSD_FAIL", "MSD_NO_SUCH"},
                            found : BOOLEAN, mac : Macs, entry : DataWords]]
      /\ entry \in [Threads -> [mac : Macs, entry : DataWords]]
  BY <1>2, <1>3 DEF Init
<1> QED
  BY <1>1, <1>2, <1>5, <1>6 DEF Init, TypeOK, Ops

(***************************************************************************)
(* The same for the steps.                                                 *)
(***************************************************************************)
LEMMA TypeStep ==
  ASSUME TypeOK, RegsInv, TornInv, Loadable, [Next]_vars
  PROVE  TypeOK'
<1>0. /\ \A t \in Threads : call[t] \in Calls /\ Req(t) \in AllRequests /\ ProcOf[t] \in Procs
      /\ Invalid \in DataWords /\ Broadcast \in Macs
      /\ Untouched \in [mac : Macs, entry : DataWords]
      /\ NoOut \in [ret : {"none", "MSD_OK", "MSD_FAIL", "MSD_NO_SUCH"}, found : BOOLEAN,
                    mac : Macs, entry : DataWords]
  BY CallIsRequest, SpruceAtuAssumption, AtuAssumption, Words
     DEF TypeOK, Req, DataWords, Untouched, NoOut, Macs, Broadcast
<1>1. ASSUME NEW t \in Threads, NEW c \in Calls, Call(t, c) PROVE TypeOK'
  BY <1>0, <1>1 DEF Call, Goto, TypeOK, switch, regs
<1>2. ASSUME NEW t \in Threads, Take(t) \/ Ready(t) \/ Answered(t) PROVE TypeOK'
  <2>1. CASE Take(t)
    <3>1. holder' \in [Procs -> Threads \cup {NoThread}] /\ pc' = [pc EXCEPT ![t] = "ready"]
      BY <2>1 DEF Take, Goto, TypeOK
    <3> QED BY <2>1, <3>1 DEF Take, TypeOK, switch, regs
  <2>2. CASE Ready(t) \/ Answered(t)
    <3>1. /\ \E to \in {"mac", "data", "fetch"} : pc' = [pc EXCEPT ![t] = to]
          /\ UNCHANGED <<call, entry, status, out, holder, switch, torn, there>>
      BY <2>2 DEF Ready, Answered, FirstWrite, Goto
    <3> QED BY <3>1 DEF TypeOK, switch, regs
  <2> QED BY <1>2, <2>1, <2>2
<1>3. \A t \in Threads : Req(t).op # "next" => DataWord(Req(t)) \in DataWords
  <2> SUFFICES ASSUME NEW t \in Threads, Req(t).op # "next"
               PROVE  DataWord(Req(t)) \in DataWords
    OBVIOUS
  <2>1. \/ Req(t).op = "load" /\ Req(t).entry \in Entries \cup {Invalid}
        \/ Req(t).op = "flush" /\ Req(t).from \in Ports \cup {NoPort}
                               /\ Req(t).to \in Ports \cup {NoPort}
    BY <1>0, RequestFields
  <2> QED BY <2>1, Words DEF DataWord, DataWords, Moves
<1>15. ASSUME NEW t \in Threads, Req(t).op = "load" PROVE DataTorn(Req(t)) \subseteq DataWords
  <2>1. Req(t).entry \in Entries \cup {Invalid}
    BY <1>0, <1>15, RequestFields
  <2> QED BY <2>1, WithHighRange, Words DEF DataTorn, DataWords
<1>4. ASSUME NEW t \in Threads, WriteData(t) \/ WriteHalfData(t) PROVE TypeOK'
  <2>1. CASE WriteData(t)
    <3>1. DataWord(Req(t)) \in DataWords
      BY <1>3, <2>1 DEF WriteData, Goto, RegsInv, Operands
    <3> QED BY <2>1, <3>1 DEF WriteData, Goto, TypeOK
  <2>2. CASE WriteHalfData(t)
    <3>1. dataReg' \in DataWords
      BY <1>15, <2>2 DEF WriteHalfData
    <3> QED BY <2>2, <3>1 DEF WriteHalfData, Goto, TypeOK
  <2> QED BY <1>4, <2>1, <2>2
<1>5. ASSUME NEW t \in Threads, WriteMac(t) PROVE TypeOK'
  <2>1. Req(t).mac \in Macs
    BY <1>0, <1>5, RequestFields DEF WriteMac, Goto, RegsInv, Operands
  <2> QED BY <1>5, <2>1 DEF WriteMac, Goto, TypeOK
<1>6. ASSUME NEW t \in Threads, WriteFid(t) PROVE TypeOK'
  <2>1. Req(t).db \in Dbs
    BY <1>0, RequestFields
  <2> QED BY <1>6, <2>1 DEF WriteFid, Goto, TypeOK
<1>7. \A t \in Threads : OpOf(Req(t)) \in Ops
  BY <1>0, RequestFields DEF OpOf, Ops
<1>8. ASSUME NEW t \in Threads, WriteCmd(t) PROVE TypeOK'
  BY <1>7, <1>8 DEF WriteCmd, Command, Goto, TypeOK
<1>9. ASSUME NEW t \in Threads, Fetch(t) \/ FetchHalf(t) PROVE TypeOK'
  <2>1. HalfEntries \subseteq DataWords
    BY DEF DataWords
  <2>2. CASE Fetch(t)
    BY <2>2 DEF Fetch, Goto, TypeOK, switch, regs
  <2>3. CASE FetchHalf(t)
    <3>1. PICK e \in HalfEntries : entry' = [entry EXCEPT ![t] = [mac |-> macReg, entry |-> e]]
      BY <2>3 DEF FetchHalf
    <3>2. entry' \in [Threads -> [mac : Macs, entry : DataWords]]
      BY <2>1, <3>1 DEF TypeOK
    <3> QED BY <2>3, <3>2 DEF FetchHalf, Goto, TypeOK, switch, regs
  <2> QED BY <1>9, <2>2, <2>3
<1>10. ASSUME NEW t \in Threads, IoError(t) PROVE TypeOK'
  <2>1. dataReg' \in DataWords
    BY <1>3, <1>10, <1>15 DEF IoError, regs, TypeOK, RegsInv, Operands
  <2>2. macReg' \in Macs
    BY <1>0, <1>10, RequestFields DEF IoError, regs, TypeOK, RegsInv, Operands
  <2>3. fidReg' \in Dbs
    BY <1>0, <1>10, RequestFields DEF IoError, regs, TypeOK
  <2>4. opReg' \in Ops /\ busy' \in BOOLEAN
    BY <1>7, <1>10 DEF IoError, regs, Command, TypeOK
  <2> QED BY <1>10, <2>1, <2>2, <2>3, <2>4 DEF IoError, TypeOK
<1>11. ASSUME NEW t \in Threads, Give(t) PROVE TypeOK'
  <2>1. out' \in [Threads -> [ret : {"none", "MSD_OK", "MSD_FAIL", "MSD_NO_SUCH"},
                              found : BOOLEAN, mac : Macs, entry : DataWords]]
    <3>1. entry[t].mac \in Macs /\ entry[t].entry \in DataWords
          /\ status[t] \in {"MSD_OK", "MSD_FAIL"} /\ Entries \subseteq DataWords
      BY DEF TypeOK, DataWords
    <3> DEFINE Outs == [ret : {"none", "MSD_OK", "MSD_FAIL", "MSD_NO_SUCH"},
                        found : BOOLEAN, mac : Macs, entry : DataWords]
    <3> DEFINE Rec(ret, found, mac, e) ==
                 [ret |-> ret, found |-> found, mac |-> mac, entry |-> e]
    <3>0. ASSUME NEW rec \in Outs, out' = [out EXCEPT ![t] = rec]
          PROVE  out' \in [Threads -> Outs]
      BY <3>0 DEF TypeOK
    <3> SUFFICES out' \in [Threads -> Outs]
      OBVIOUS
    <3>2. CASE ReturnOther(t)
      <4>1. Rec(status[t], FALSE, Broadcast, Invalid) \in Outs
        BY <1>0, <3>1
      <4>2. out' = [out EXCEPT ![t] = Rec(status[t], FALSE, Broadcast, Invalid)]
        BY <3>2 DEF ReturnOther, Out
      <4> HIDE DEF Outs, Rec
      <4> QED BY <3>0, <4>1, <4>2
    <3>3. CASE ReturnNext(t)
      <4>1. call[t].mac \in Macs
        BY <1>0, <3>3, CallIsRequest, RequestFields DEF ReturnNext, Req
      <4>2. /\ Rec("MSD_NO_SUCH", FALSE, call[t].mac, Invalid) \in Outs
            /\ Rec("MSD_OK", FALSE, entry[t].mac, entry[t].entry) \in Outs
            /\ Rec("MSD_OK", FALSE, call[t].mac, Invalid) \in Outs
        BY <1>0, <3>1, <4>1
      <4>3. \/ out' = [out EXCEPT ![t] = Rec("MSD_NO_SUCH", FALSE, call[t].mac, Invalid)]
            \/ out' = [out EXCEPT ![t] = Rec("MSD_OK", FALSE, entry[t].mac, entry[t].entry)]
            \/ out' = [out EXCEPT ![t] = Rec("MSD_OK", FALSE, call[t].mac, Invalid)]
        BY <3>3, Zenon DEF ReturnNext, Out
      <4> HIDE DEF Outs, Rec
      <4> QED BY <3>0, <4>2, <4>3
    <3>4. CASE ReturnFind(t)
      <4>1. call[t].mac \in Macs
        BY <1>0, <3>4, CallIsRequest DEF ReturnFind, FindCalls
      <4>2. /\ Rec("MSD_OK", FALSE, call[t].mac, Invalid) \in Outs
            /\ \A e \in {entry[t].entry} \cup Entries :
                 Rec("MSD_OK", TRUE, call[t].mac, e) \in Outs
        BY <1>0, <3>1, <4>1
      <4>3. \/ out' = [out EXCEPT ![t] = Rec("MSD_OK", FALSE, call[t].mac, Invalid)]
            \/ \E e \in {entry[t].entry} \cup Entries :
                 out' = [out EXCEPT ![t] = Rec("MSD_OK", TRUE, call[t].mac, e)]
        BY <3>4, Zenon DEF ReturnFind, Out
      <4> HIDE DEF Outs, Rec
      <4> QED BY <3>0, <4>2, <4>3
    <3> QED BY <1>11, <3>2, <3>3, <3>4 DEF Give
  <2> QED BY <1>0, <1>11, <2>1 DEF Give, Goto, TypeOK, switch, regs
<1>12. ASSUME Execute PROVE TypeOK'
  <2>1. Pending \in AllRequests /\ (opReg = "next" => Pending.op = "next")
    BY <1>12, PendingRange DEF Execute
  <2>2. table' \in Tables
    BY <1>12, <2>1, EffectRange DEF Execute, TypeOK
  <2>3. macReg' \in Macs /\ dataReg' \in DataWords
    <3>1. CASE opReg # "next"
      BY <1>12, <3>1 DEF Execute, TypeOK
    <3>2. CASE opReg = "next"
      <4>1. Pending.db \in Dbs /\ Pending.mac \in Macs
        BY <2>1, <3>2, RequestFields
      <4>2. NextMac(table, Pending.db, Pending.mac) \in Macs
        BY <4>1, NextMacRange DEF TypeOK
      <4> QED BY <1>12, <3>2, <4>1, <4>2, Words DEF Execute, Found, TypeOK, Tables, DataWords
    <3> QED BY <3>1, <3>2
  <2>4. there' \in [Threads -> Entries \cup {Invalid}]
    <3>1. \A t \in Threads : call[t].op = "find" => call[t].db \in Dbs /\ call[t].mac \in Macs
      BY <1>0, CallIsRequest DEF FindCalls
    <3> QED BY <1>12, <3>1 DEF Execute, TypeOK, Tables
  <2> QED BY <1>12, <2>2, <2>3, <2>4 DEF Execute, TypeOK
<1>13. ASSUME Learn \/ Age PROVE TypeOK'
  <2>1. table' \in Tables
    <3>1. ASSUME NEW d \in Dbs, NEW m \in Macs, NEW e \in Entries \cup {Invalid},
                 table' = [table EXCEPT ![d][m] = e]
          PROVE  table' \in Tables
      BY <3>1 DEF Tables, TypeOK
    <3>2. \A p \in Ports : [state |-> "dynamic", vec |-> {p}] \in Entries
      BY DEF Entries
    <3> QED BY <1>13, <3>1, <3>2 DEF Learn, Age, Learnt
  <2> QED BY <1>13, <2>1 DEF Learn, Age, TypeOK, regs
<1>14. CASE UNCHANGED vars
  BY <1>14 DEF vars, switch, regs, TypeOK
<1> QED
  BY <1>1, <1>2, <1>4, <1>5, <1>6, <1>8, <1>9, <1>10, <1>11, <1>12, <1>13, <1>14 DEF Next, Step

-----------------------------------------------------------------------------
(***************************************************************************)
(* Only one thread is between taking and giving atuRegsSem.                *)
(***************************************************************************)
LEMMA Exclusive ==
  ASSUME OneProcess, Lock, NEW t \in Threads, NEW u \in Threads,
         pc[t] \in Holding, pc[u] \in Holding
  PROVE  t = u
BY DEF OneProcess, Lock

(***************************************************************************)
(* A thread that has it leaves what the others rely on alone.              *)
(***************************************************************************)
LEMMA AloneInside ==
  ASSUME OneProcess, AtuInv, NEW t \in Threads, pc[t] \in Holding,
         NEW to, pc' = [pc EXCEPT ![t] = to], NEW u \in Threads, u # t
  PROVE  Operands(u)' /\ Quiet(u)'
<1>1. pc[u] \notin Holding
  BY Exclusive DEF AtuInv
<1>2. pc'[u] = pc[u]
  BY DEF AtuInv, TypeOK
<1> QED BY <1>1, <1>2 DEF Operands, Quiet, Holding

(***************************************************************************)
(* atuRegsSem is held by the thread that is inside, also after an access   *)
(* that failed.                                                            *)
(***************************************************************************)
LEMMA LockStep ==
  ASSUME OneProcess, AtuInv, [Next]_vars
  PROVE  Lock'
<1> USE DEF AtuInv, Lock, Holding
<1>0. /\ pc \in [Threads -> {"idle", "take", "ready", "data", "mac", "fid", "cmd",
                             "busy", "fetch", "give"}]
      /\ holder \in [Procs -> Threads \cup {NoThread}]
      /\ \A t \in Threads : ProcOf[t] \in Procs /\ t # NoThread
      /\ \A t, u \in Threads : ProcOf[t] = ProcOf[u]
  BY SpruceAtuAssumption DEF TypeOK, OneProcess
<1>1. ASSUME NEW t \in Threads, NEW from, NEW to, Goto(t, from, to), UNCHANGED holder,
             from \in Holding <=> to \in Holding
      PROVE  Lock'
  BY <1>0, <1>1 DEF Goto
<1>2. ASSUME NEW t \in Threads, NEW c \in Calls, Call(t, c) PROVE Lock'
  BY <1>1, <1>2 DEF Call
<1>3. ASSUME NEW t \in Threads, Take(t) PROVE Lock'
  BY <1>0, <1>3 DEF Take, Goto
<1>4. ASSUME NEW t \in Threads, Ready(t) \/ Answered(t) PROVE Lock'
  BY <1>1, <1>4 DEF Ready, Answered, FirstWrite
<1>5. ASSUME NEW t \in Threads, WriteData(t) \/ WriteHalfData(t) \/ WriteMac(t) \/ WriteFid(t)
      PROVE  Lock'
  BY <1>1, <1>5 DEF WriteData, WriteHalfData, WriteMac, WriteFid
<1>6. ASSUME NEW t \in Threads, WriteCmd(t) \/ Fetch(t) \/ FetchHalf(t) PROVE Lock'
  BY <1>1, <1>6 DEF WriteCmd, Fetch, FetchHalf
<1>7. ASSUME NEW t \in Threads, IoError(t) PROVE Lock'
  BY <1>0, <1>7 DEF IoError, Accessing
<1>8. ASSUME NEW t \in Threads, Give(t) PROVE Lock'
  BY <1>0, <1>8 DEF Give, Goto
<1>9. ASSUME UNCHANGED <<pc, holder>> PROVE Lock'
  BY <1>9
<1> QED
  BY <1>2, <1>3, <1>4, <1>5, <1>6, <1>7, <1>8, <1>9
     DEF Next, Step, Execute, Learn, Age, vars

(***************************************************************************)
(* A call begins whole, and is torn by a load's write of the data register *)
(* or by the last access.                                                  *)
(***************************************************************************)
LEMMA TornStep ==
  ASSUME AtuInv, [Next]_vars
  PROVE  TornInv'
<1>0. /\ pc \in [Threads -> {"idle", "take", "ready", "data", "mac", "fid", "cmd",
                             "busy", "fetch", "give"}]
      /\ call \in [Threads -> Calls] /\ torn \in [Threads -> BOOLEAN] /\ TornInv
  BY DEF AtuInv, TypeOK
<1>1. ASSUME NEW t \in Threads, NEW to, pc' = [pc EXCEPT ![t] = to], UNCHANGED <<call, torn>>,
             ~torn[t] \/ to \in {"mac", "fid", "cmd", "give", "idle"}, pc[t] \notin {"idle", "give"} \/ to = "idle"
      PROVE  TornInv'
  BY <1>0, <1>1 DEF TornInv, Req
<1>2. ASSUME NEW t \in Threads, NEW c \in Calls, Call(t, c) PROVE TornInv'
  <2>1. torn' = [torn EXCEPT ![t] = FALSE] /\ \A u \in Threads \ {t} : pc'[u] = pc[u] /\ call'[u] = call[u]
    BY <1>0, <1>2 DEF Call, Goto
  <2> QED BY <1>0, <2>1 DEF TornInv, Req
<1>3. ASSUME NEW t \in Threads, Take(t) \/ Ready(t) \/ WriteData(t) PROVE TornInv'
  <2>1. ~torn[t]
    BY <1>0, <1>3 DEF Take, Ready, WriteData, Goto, TornInv
  <2> QED BY <1>1, <1>3, <2>1 DEF Take, Ready, WriteData, Goto
<1>4. ASSUME NEW t \in Threads, WriteHalfData(t) PROVE TornInv'
  <2>1. pc' = [pc EXCEPT ![t] = "mac"] /\ torn' = [torn EXCEPT ![t] = TRUE] /\ Req(t).op = "load"
        /\ UNCHANGED call
    BY <1>4 DEF WriteHalfData, Goto
  <2> QED BY <1>0, <2>1 DEF TornInv, Req
<1>5. ASSUME NEW t \in Threads, WriteMac(t) \/ WriteFid(t) PROVE TornInv'
  BY <1>1, <1>5 DEF WriteMac, WriteFid, Goto
<1>6. ASSUME NEW t \in Threads, WriteCmd(t) PROVE TornInv'
  <2>1. ~torn[t] \/ Req(t).op # "next"
    BY <1>0, <1>6 DEF WriteCmd, Goto, TornInv
  <2> QED BY <1>1, <1>6, <2>1 DEF WriteCmd, Goto
<1>7. ASSUME NEW t \in Threads, Answered(t) PROVE TornInv'
  <2>1. ~torn[t]
    BY <1>0, <1>7 DEF Answered, Goto, TornInv
  <2> QED BY <1>1, <1>7, <2>1 DEF Answered, Goto
<1>8. ASSUME NEW t \in Threads, Fetch(t) \/ IoError(t) \/ Give(t) PROVE TornInv'
  BY <1>1, <1>8 DEF Fetch, IoError, Accessing, Give, Goto
<1>9. ASSUME NEW t \in Threads, FetchHalf(t) PROVE TornInv'
  <2>1. pc' = [pc EXCEPT ![t] = "give"] /\ torn' = [torn EXCEPT ![t] = TRUE] /\ UNCHANGED call
    BY <1>9 DEF FetchHalf, Goto
  <2> QED BY <1>0, <2>1 DEF TornInv, Req
<1>10. CASE Execute \/ Learn \/ Age \/ UNCHANGED vars
  BY <1>0, <1>10 DEF Execute, Learn, Age, vars, TornInv, Req
<1> QED
  BY <1>2, <1>3, <1>4, <1>5, <1>6, <1>7, <1>8, <1>9, <1>10 DEF Next, Step

(***************************************************************************)
(* The operands stay in the registers until the switch has used them, and  *)
(* a busy switch is busy with what was asked for.                          *)
(***************************************************************************)
LEMMA RegsStep ==
  ASSUME OneProcess, AtuInv, [Next]_vars
  PROVE  RegsInv' /\ Loadable'
<1>0. /\ pc \in [Threads -> {"idle", "take", "ready", "data", "mac", "fid", "cmd",
                             "busy", "fetch", "give"}]
      /\ call \in [Threads -> Calls] /\ RegsInv /\ Loadable
      /\ torn \in [Threads -> BOOLEAN] /\ TornInv
      /\ \A t \in Threads : Req(t) \in AllRequests
  BY CallIsRequest DEF AtuInv, TypeOK, Req
<1>1. ASSUME NEW t \in Threads, NEW c \in Calls, Call(t, c) PROVE RegsInv' /\ Loadable'
  <2>1. \A u \in Threads \ {t} : pc'[u] = pc[u] /\ call'[u] = call[u] /\ torn'[u] = torn[u]
    BY <1>0, <1>1 DEF Call, Goto
  <2>2. pc'[t] = "take"
    BY <1>0, <1>1 DEF Call, Goto
  <2> QED
    BY <1>0, <1>1, <2>1, <2>2
       DEF Call, switch, regs, RegsInv, Loadable, Operands, Written, Quiet, Req
<1>2. ASSUME NEW t \in Threads, Take(t) PROVE RegsInv' /\ Loadable'
  <2>1. pc'[t] = "ready" /\ \A u \in Threads \ {t} : pc'[u] = pc[u]
    BY <1>0, <1>2 DEF Take, Goto
  <2> QED
    BY <1>0, <1>2, <2>1 DEF Take, switch, regs, RegsInv, Loadable, Operands, Written, Quiet, Req
<1>3. ASSUME NEW t \in Threads, pc[t] \in Holding, NEW to, pc' = [pc EXCEPT ![t] = to],
             Operands(t)', Quiet(t)'
      PROVE  RegsInv'
  BY <1>3, AloneInside DEF RegsInv
<1>4. ASSUME NEW t \in Threads, Ready(t) PROVE RegsInv' /\ Loadable'
  <2>1. pc'[t] = FirstWrite(t) /\ pc[t] \in Holding
    BY <1>0, <1>4 DEF Ready, Goto, Holding
  <2>2. Operands(t)' /\ Quiet(t)'
    BY <1>4, <2>1 DEF Ready, FirstWrite, Operands, Quiet, switch, regs, Req
  <2> QED BY <1>0, <1>3, <1>4, <2>1, <2>2 DEF Ready, Goto, Loadable, switch, regs
<1>5. ASSUME NEW t \in Threads, WriteData(t) PROVE RegsInv' /\ Loadable'
  <2>1. pc[t] = "data" /\ pc'[t] = (IF Req(t).op = "load" THEN "mac" ELSE "fid") /\ ~busy
    BY <1>0, <1>5 DEF WriteData, Goto, RegsInv, Quiet
  <2>2. Req(t).op \in {"load", "next", "flush"} /\ Req(t)' = Req(t) /\ Req(t).op # "next"
    BY <1>0, <1>5, <2>1, RequestFields DEF WriteData, Req, RegsInv, Operands
  <2>3. ~torn[t] /\ UNCHANGED torn
    BY <1>0, <1>5, <2>1 DEF WriteData, TornInv
  <2>4. dataReg' \in Written(t)'
    BY <1>5, <2>2, <2>3 DEF WriteData, Written
  <2>5. Operands(t)' /\ Quiet(t)'
    BY <1>5, <2>1, <2>2, <2>4 DEF WriteData, Operands, Quiet
  <2> QED BY <1>0, <1>3, <1>5, <2>1, <2>5 DEF WriteData, Goto, Loadable, Holding
<1>17. ASSUME NEW t \in Threads, WriteHalfData(t) PROVE RegsInv' /\ Loadable'
  <2>1. pc[t] = "data" /\ pc'[t] = "mac" /\ ~busy /\ torn'[t] /\ Req(t)' = Req(t) /\ Req(t).op = "load"
    BY <1>0, <1>17 DEF WriteHalfData, Goto, RegsInv, Quiet, Req
  <2>2. dataReg' \in Written(t)'
    BY <1>17, <2>1 DEF WriteHalfData, Written
  <2>3. Operands(t)' /\ Quiet(t)'
    BY <1>17, <2>1, <2>2 DEF WriteHalfData, Operands, Quiet
  <2> QED BY <1>0, <1>3, <1>17, <2>1, <2>3 DEF WriteHalfData, Goto, Loadable, Holding
<1>6. ASSUME NEW t \in Threads, WriteMac(t) PROVE RegsInv' /\ Loadable'
  <2>1. pc[t] = "mac" /\ pc'[t] = "fid" /\ ~busy /\ Req(t)' = Req(t)
    BY <1>0, <1>6 DEF WriteMac, Goto, RegsInv, Quiet, Req
  <2>2. Operands(t)' /\ Quiet(t)'
    BY <1>0, <1>6, <2>1 DEF WriteMac, RegsInv, Operands, Written, Quiet
  <2> QED BY <1>0, <1>3, <1>6, <2>1, <2>2 DEF WriteMac, Goto, Loadable, Holding
<1>7. ASSUME NEW t \in Threads, WriteFid(t) PROVE RegsInv' /\ Loadable'
  <2>1. pc[t] = "fid" /\ pc'[t] = "cmd" /\ ~busy /\ Req(t)' = Req(t)
    BY <1>0, <1>7 DEF WriteFid, Goto, RegsInv, Quiet, Req
  <2>2. Operands(t)' /\ Quiet(t)'
    BY <1>0, <1>7, <2>1 DEF WriteFid, RegsInv, Operands, Written, Quiet
  <2> QED BY <1>0, <1>3, <1>7, <2>1, <2>2 DEF WriteFid, Goto, Loadable, Holding
<1>8. ASSUME NEW t \in Threads, pc[t] = "cmd", Command(t), UNCHANGED dataReg PROVE Loadable'
  <2>1. Req(t).op \in {"load", "next", "flush"}
    BY <1>0, RequestFields
  <2>2. opReg' = "load" => Req(t).op = "load"
    BY <1>8, <2>1 DEF Command, OpOf
  <2>3. Req(t).op = "load" => dataReg \in Entries \cup {Invalid}
    <3> SUFFICES ASSUME Req(t).op = "load" PROVE dataReg \in Entries \cup {Invalid}
      OBVIOUS
    <3>1. dataReg \in Written(t) /\ Req(t).entry \in Entries \cup {Invalid}
      BY <1>0, <1>8, RequestFields DEF RegsInv, Operands
    <3> QED BY <3>1, WithHighRange DEF Written, DataTorn, DataWord
  <2> QED BY <1>8, <2>2, <2>3 DEF Loadable
<1>9. ASSUME NEW t \in Threads, WriteCmd(t) PROVE RegsInv' /\ Loadable'
  <2>1. /\ pc[t] = "cmd" /\ pc'[t] = (IF Req(t).op = "next" THEN "busy" ELSE "give")
        /\ Req(t)' = Req(t)
    BY <1>0, <1>9 DEF WriteCmd, Goto, Req
  <2>2. Operands(t)' /\ Quiet(t)'
    BY <1>0, <1>9, <2>1 DEF WriteCmd, Command, OpOf, RegsInv, Operands, Quiet
  <2> QED BY <1>3, <1>8, <1>9, <2>1, <2>2 DEF WriteCmd, Goto, Holding
<1>10. ASSUME NEW t \in Threads, Answered(t) PROVE RegsInv' /\ Loadable'
  <2>1. pc[t] = "busy" /\ pc'[t] = "fetch" /\ ~busy /\ ~busy' /\ Req(t)' = Req(t)
    BY <1>0, <1>10 DEF Answered, Goto, Req, switch, regs
  <2>2. Operands(t)' /\ Quiet(t)'
    BY <1>0, <2>1 DEF RegsInv, Operands, Quiet
  <2> QED BY <1>0, <1>3, <1>10, <2>1, <2>2 DEF Answered, Goto, Loadable, Holding
<1>11. ASSUME NEW t \in Threads, pc[t] \in Holding, pc' = [pc EXCEPT ![t] = "give"]
       PROVE  RegsInv'
  <2>1. Operands(t)' /\ Quiet(t)'
    BY <1>0, <1>11 DEF Operands, Quiet
  <2> QED BY <1>3, <1>11, <2>1
<1>12. ASSUME NEW t \in Threads, Fetch(t) \/ FetchHalf(t) PROVE RegsInv' /\ Loadable'
  BY <1>0, <1>11, <1>12 DEF Fetch, FetchHalf, Goto, Holding, Loadable, switch, regs
<1>13. ASSUME NEW t \in Threads, IoError(t) PROVE RegsInv' /\ Loadable'
  <2>1. RegsInv'
    BY <1>11, <1>13 DEF IoError, Accessing, Holding
  <2>2. Loadable'
    <3>1. CASE UNCHANGED regs
      BY <1>0, <3>1 DEF regs, Loadable
    <3>2. CASE pc[t] \in {"data", "mac", "fid"} /\ UNCHANGED busy
      BY <1>0, <3>2 DEF RegsInv, Quiet, Loadable
    <3>3. CASE pc[t] = "cmd" /\ Command(t) /\ UNCHANGED dataReg
      BY <1>8, <3>3
    <3> QED BY <1>13, <3>1, <3>2, <3>3 DEF IoError
  <2> QED BY <2>1, <2>2
<1>14. ASSUME NEW t \in Threads, Give(t) PROVE RegsInv' /\ Loadable'
  <2>1. pc[t] = "give" /\ pc' = [pc EXCEPT ![t] = "idle"] /\ pc'[t] = "idle"
    BY <1>0, <1>14 DEF Give, Goto
  <2>2. Operands(t)' /\ Quiet(t)'
    BY <2>1 DEF Operands, Quiet
  <2> QED BY <1>0, <1>3, <1>14, <2>1, <2>2 DEF Give, Holding, Loadable, switch, regs
<1>15. CASE Execute
  <2>1. ASSUME NEW t \in Threads PROVE Operands(t)' /\ Quiet(t)'
    <3>1. pc[t] \notin {"data", "mac", "fid", "cmd", "fetch"}
      BY <1>0, <1>15 DEF Execute, RegsInv, Quiet
    <3> QED
      BY <1>0, <1>15, <3>1 DEF Execute, RegsInv, Operands, Quiet, Req
  <2> QED BY <1>15, <2>1 DEF Execute, RegsInv, Loadable
<1>16. CASE Learn \/ Age \/ UNCHANGED vars
  BY <1>0, <1>16
     DEF Learn, Age, vars, switch, regs, RegsInv, Loadable, Operands, Written, Quiet, Req
<1> QED
  BY <1>1, <1>2, <1>4, <1>5, <1>6, <1>7, <1>9, <1>10, <1>12, <1>13, <1>14, <1>15, <1>16,
     <1>17
     DEF Next, Step

(***************************************************************************)
(* The invariant of the locked operations holds.                           *)
(***************************************************************************)
LEMMA AtuInvHolds ==
  ASSUME OneProcess
  PROVE  Spec => []AtuInv
<1>1. Init => AtuInv
  <2>1. Init => Lock /\ TornInv /\ RegsInv /\ Loadable
    BY SpruceAtuAssumption
       DEF Init, Lock, Holding, TornInv, RegsInv, Operands, Quiet, Loadable
  <2> QED BY <2>1, TypeInit DEF AtuInv
<1>2. AtuInv /\ [Next]_vars => AtuInv'
  BY TypeStep, LockStep, TornStep, RegsStep DEF AtuInv
<1> QED BY <1>1, <1>2, PTL DEF Spec

(***************************************************************************)
(* Types, for the threads of one process.  Without that condition a load   *)
(* of one process could find in the data register what a flush of another  *)
(* one has written there (Spruce_msdBrgFdb.c:2126-2221).                   *)
(***************************************************************************)
THEOREM TypeCorrect ==
  ASSUME OneProcess
  PROVE  Spec => []TypeOK
<1>1. AtuInv => TypeOK
  BY DEF AtuInv
<1> QED BY <1>1, AtuInvHolds, PTL

-----------------------------------------------------------------------------
(***************************************************************************)
(* AtuTable speaks of the same address table unit.                         *)
(***************************************************************************)
LEMMA SameAtu ==
  /\ Table!Nothing = Untouched
  /\ \A tab, r : Table!Effect(tab, r) = Effect(tab, r)
  /\ \A tab, r : Table!Found(tab, r) = Found(tab, r)
  /\ \A tab, d, m, p : Table!Learnt(tab, d, m, p) = Learnt(tab, d, m, p)
  /\ \A e, high : Table!WithHigh(e, high) = WithHigh(e, high)
  /\ Table!Invalid = Invalid /\ Table!Macs = Macs /\ Table!HalfEntries = HalfEntries
<1>1. Table!Invalid = Invalid /\ Table!Macs = Macs /\ Table!Broadcast = Broadcast
  BY DEF Table!Invalid, Invalid, Table!Macs, Macs, Table!Broadcast, Broadcast
<1>2. \A e, r : Table!Flushed(e, r) = Flushed(e, r)
  BY <1>1 DEF Table!Flushed, Flushed, Table!Moved, Moved
<1>6. \A e, high : Table!WithHigh(e, high) = WithHigh(e, high)
  BY <1>1 DEF Table!WithHigh, WithHigh
<1>3. \A tab, r : Table!Effect(tab, r) = Effect(tab, r)
  BY <1>1, <1>2 DEF Table!Effect, Effect
<1>4. \A tab, d, m : Table!NextMac(tab, d, m) = NextMac(tab, d, m)
  BY <1>1 DEF Table!NextMac, NextMac, Table!Valid, Valid
<1>5. \A tab, r : Table!Found(tab, r) = Found(tab, r)
  BY <1>4 DEF Table!Found, Found
<1> QED
  BY <1>1, <1>3, <1>5, <1>6
     DEF Table!Nothing, Untouched, Table!Learnt, Learnt, Table!HalfEntries, HalfEntries

(***************************************************************************)
(* The operation in the registers does what was asked for, but for an      *)
(* upper half that was lost: what of the request does not reach the        *)
(* registers (the port to move to when no port is moved from) makes no     *)
(* difference.                                                             *)
(***************************************************************************)
LEMMA AskedFor ==
  ASSUME AtuInv, NEW t \in Threads, pc[t] = "cmd", Req(t).op # "next", Command(t),
         UNCHANGED <<fidReg, macReg, dataReg>>, NEW tab
  PROVE  \E s \in Table!AsDone(Req(t), torn[t]) : Effect(tab, Pending') = Effect(tab, s)
<1> DEFINE r == Req(t)
<1>1. /\ r \in AllRequests /\ fidReg' = r.db /\ dataReg' \in Written(t)
      /\ r.op # "flush" => macReg' = r.mac
  BY CallIsRequest DEF AtuInv, TypeOK, RegsInv, Operands, Req
<1>2. CASE r.op = "load"
  <2>1. opReg' = "load"
    BY <1>2 DEF Command, OpOf
  <2>2. Pending' = [op |-> "load", db |-> r.db, mac |-> r.mac, entry |-> dataReg']
    BY <1>1, <1>2, <2>1 DEF Pending
  <2>3. r = [op |-> "load", db |-> r.db, mac |-> r.mac, entry |-> r.entry]
    BY <1>1, <1>2, RequestFields DEF LoadRequests
  <2>4. CASE torn[t]
    <3>1. PICK high \in SUBSET HighPorts : dataReg' = WithHigh(r.entry, high)
      BY <1>1, <2>4 DEF Written, DataTorn
    <3>2. [r EXCEPT !.entry = Table!WithHigh(r.entry, high)] \in Table!AsDone(r, torn[t])
      BY <2>4 DEF Table!AsDone
    <3>3. [r EXCEPT !.entry = Table!WithHigh(r.entry, high)] = Pending'
      BY <2>2, <2>3, <3>1, SameAtu
    <3> QED BY <3>2, <3>3
  <2>5. CASE ~torn[t]
    <3>1. Pending' = r
      BY <1>1, <1>2, <2>2, <2>3, <2>5 DEF Written, DataWord
    <3> QED BY <2>5, <3>1 DEF Table!AsDone
  <2> QED BY <2>4, <2>5
<1>3. CASE r.op = "flush"
  <2> DEFINE s == Pending'
  <2>0. ~torn[t] /\ dataReg' = DataWord(r)
    BY <1>1, <1>3 DEF AtuInv, TornInv, Written
  <2>1. /\ r.inDb \in BOOLEAN /\ r.static \in BOOLEAN
        /\ r.from \in Ports \cup {NoPort} /\ r.to \in Ports \cup {NoPort}
    BY <1>1, <1>3, RequestFields
  <2>2. opReg' \notin {"next", "load"}
    BY <1>3 DEF Command, OpOf
  <2>3. /\ s.op = "flush" /\ s.db = r.db
        /\ s.inDb <=> opReg' \in {"flushAllInDb", "flushNonStaticInDb"}
        /\ s.static <=> opReg' \in {"flushAll", "flushAllInDb"}
        /\ s.from = IF dataReg' \in Moves THEN dataReg'.from ELSE NoPort
        /\ s.to = IF dataReg' \in Moves THEN dataReg'.to ELSE NoPort
    BY <1>1, <2>2 DEF Pending
  <2>4. (s.inDb <=> r.inDb) /\ (s.static <=> r.static)
    BY <1>3, <2>1, <2>3 DEF Command, OpOf
  <2>5. s.from = r.from /\ (r.from # NoPort => s.to = r.to)
    <3>1. CASE r.from = NoPort
      BY <1>3, <2>0, <2>3, <3>1, Words DEF DataWord
    <3>2. CASE r.from # NoPort
      <4>1. dataReg' = [state |-> "move", from |-> r.from, to |-> r.to]
        BY <1>3, <2>0, <3>2 DEF DataWord
      <4>2. dataReg' \in Moves
        BY <2>1, <3>2, <4>1 DEF Moves
      <4> QED BY <2>3, <4>1, <4>2
    <3> QED BY <3>1, <3>2
  <2>6. \A e : Flushed(e, s) = Flushed(e, r)
    BY <2>4, <2>5 DEF Flushed
  <2>7. Effect(tab, s) = Effect(tab, r)
    BY <1>3, <2>3, <2>4, <2>6 DEF Effect
  <2> QED BY <2>0, <2>7 DEF Table!AsDone
<1> QED BY <1>1, <1>2, <1>3, RequestFields

(***************************************************************************)
(* What the switch learns or ages while an operation is pending it could   *)
(* as well have learnt or aged after it, unless the operation removes or   *)
(* sets that entry.                                                        *)
(***************************************************************************)
LEMMA SameTable ==
  ASSUME NEW a \in Tables, NEW b \in Tables, \A d \in Dbs, m \in Macs : a[d][m] = b[d][m]
  PROVE  a = b
<1>1. ASSUME NEW d \in Dbs PROVE a[d] = b[d]
  <2>1. a[d] \in [Macs -> Entries \cup {Invalid}] /\ b[d] \in [Macs -> Entries \cup {Invalid}]
    BY DEF Tables
  <2> QED BY <2>1
<1> QED BY <1>1 DEF Tables

(***************************************************************************)
(* Two tables that agree everywhere are the same table.                    *)
(***************************************************************************)
LEMMA SameEntry ==
  ASSUME NEW tab \in Tables, NEW d \in Dbs, NEW m \in Macs
  PROVE  [tab EXCEPT ![d][m] = tab[d][m]] = tab
BY DEF Tables

\* An operation decides on each entry by itself.
EntryAfter(e, r, d, m) ==
  IF r.op = "load" THEN (IF d = r.db /\ m = r.mac THEN r.entry ELSE e)
  ELSE IF r.op = "flush" /\ ~(r.inDb /\ d # r.db) THEN Flushed(e, r)
  ELSE e

(***************************************************************************)
(* What an operation makes of an entry depends on no other entry.          *)
(***************************************************************************)
LEMMA EffectIsLocal ==
  ASSUME NEW tab \in Tables, NEW r \in AllRequests, NEW d \in Dbs, NEW m \in Macs
  PROVE  Effect(tab, r)[d][m] = EntryAfter(tab[d][m], r, d, m)
<1>1. CASE r.op = "load"
  BY <1>1, RequestFields DEF Effect, EntryAfter, Tables
<1>2. CASE r.op = "next"
  BY <1>2 DEF Effect, EntryAfter
<1>3. CASE r.op = "flush"
  BY <1>3, RequestFields DEF Effect, EntryAfter
<1> QED BY <1>1, <1>2, <1>3, RequestFields

(***************************************************************************)
(* A change of one entry and an operation can be done in either order, if  *)
(* the change of that entry can.                                           *)
(***************************************************************************)
LEMMA ChangeOfOne ==
  ASSUME NEW tab \in Tables, NEW r \in AllRequests, NEW d \in Dbs, NEW m \in Macs,
         NEW e \in Entries \cup {Invalid}
  PROVE  Effect([tab EXCEPT ![d][m] = e], r)
           = [Effect(tab, r) EXCEPT ![d][m] = EntryAfter(e, r, d, m)]
<1> DEFINE tab2 == [tab EXCEPT ![d][m] = e]
           b == [Effect(tab, r) EXCEPT ![d][m] = EntryAfter(e, r, d, m)]
<1>1. tab2 \in Tables /\ tab2[d][m] = e
      /\ \A d2 \in Dbs, m2 \in Macs : d2 # d \/ m2 # m => tab2[d2][m2] = tab[d2][m2]
  BY DEF Tables
<1> HIDE DEF tab2
<1>2. Effect(tab, r) \in Tables /\ Effect(tab2, r) \in Tables
  BY <1>1, EffectRange
<1>3. EntryAfter(e, r, d, m) = Effect(tab2, r)[d][m]
  BY <1>1, EffectIsLocal
<1>4. EntryAfter(e, r, d, m) \in Entries \cup {Invalid}
  BY <1>2, <1>3 DEF Tables
<1>5. b \in Tables /\ b[d][m] = EntryAfter(e, r, d, m)
      /\ \A d2 \in Dbs, m2 \in Macs : d2 # d \/ m2 # m => b[d2][m2] = Effect(tab, r)[d2][m2]
  BY <1>2, <1>4 DEF Tables
<1> HIDE DEF b
<1>6. ASSUME NEW d2 \in Dbs, NEW m2 \in Macs PROVE Effect(tab2, r)[d2][m2] = b[d2][m2]
  BY <1>1, <1>3, <1>5, EffectIsLocal
<1>7. Effect(tab2, r) = b
  BY <1>2, <1>5, <1>6, SameTable
<1> QED BY <1>7 DEF tab2, b

(***************************************************************************)
(* Learning after the operation has the same result as before it.          *)
(***************************************************************************)
LEMMA LearnAfter ==
  ASSUME NEW tab \in Tables, NEW r \in AllRequests, NEW d \in Dbs, NEW m \in Macs,
         NEW p \in Ports, tab[d][m] = Invalid
  PROVE  \/ Effect(Learnt(tab, d, m, p), r) = Effect(tab, r)
         \/ \E q \in Ports : /\ Effect(tab, r)[d][m] = Invalid
                             /\ Effect(Learnt(tab, d, m, p), r) = Learnt(Effect(tab, r), d, m, q)
<1> DEFINE e == [state |-> "dynamic", vec |-> {p}]
           after == EntryAfter(e, r, d, m)
<1>1. e \in Entries /\ Effect(tab, r) \in Tables
  BY EffectRange DEF Entries
<1>2. Effect(Learnt(tab, d, m, p), r) = [Effect(tab, r) EXCEPT ![d][m] = after]
  BY <1>1, ChangeOfOne DEF Learnt
<1>3. Effect(tab, r)[d][m] = EntryAfter(Invalid, r, d, m)
  BY EffectIsLocal
<1>4. \/ after = EntryAfter(Invalid, r, d, m)
      \/ /\ EntryAfter(Invalid, r, d, m) = Invalid
         /\ \E q \in Ports : after = [state |-> "dynamic", vec |-> {q}]
  <2>1. CASE r.op = "flush"
    <3>1. r.from \in Ports \cup {NoPort} /\ r.to \in Ports \cup {NoPort}
      BY <2>1, RequestFields
    <3>2. Flushed(Invalid, r) = Invalid
      BY DEF Flushed
    <3>3. Flushed(e, r) = Invalid
          \/ \E q \in Ports : Flushed(e, r) = [state |-> "dynamic", vec |-> {q}]
      <4>1. CASE p # r.from
        BY <4>1 DEF Flushed
      <4>2. CASE p = r.from /\ r.to # NoPort
        <5>1. Moved(e, r.from, r.to) = [state |-> "dynamic", vec |-> {r.to}]
          BY <4>2 DEF Moved
        <5> QED BY <3>1, <4>2, <5>1 DEF Flushed
      <4>3. CASE p = r.from /\ r.to = NoPort
        <5>1. Moved(e, r.from, r.to) = Invalid
          BY <4>3 DEF Moved
        <5> QED BY <5>1 DEF Flushed
      <4> QED BY <4>1, <4>2, <4>3
    <3> QED BY <2>1, <3>2, <3>3 DEF EntryAfter
  <2>2. CASE r.op # "flush"
    BY <2>2 DEF EntryAfter
  <2> QED BY <2>1, <2>2
<1> HIDE DEF after
<1>5. CASE after = EntryAfter(Invalid, r, d, m)
  BY <1>1, <1>2, <1>3, <1>5, SameEntry
<1>6. CASE /\ EntryAfter(Invalid, r, d, m) = Invalid
           /\ \E q \in Ports : after = [state |-> "dynamic", vec |-> {q}]
  BY <1>2, <1>3, <1>6 DEF Learnt
<1> QED BY <1>4, <1>5, <1>6

(***************************************************************************)
(* The same for ageing.                                                    *)
(***************************************************************************)
LEMMA AgeAfter ==
  ASSUME NEW tab \in Tables, NEW r \in AllRequests, NEW d \in Dbs, NEW m \in Macs,
         tab[d][m].state = "dynamic"
  PROVE  \/ Effect([tab EXCEPT ![d][m] = Invalid], r) = Effect(tab, r)
         \/ /\ Effect(tab, r)[d][m].state = "dynamic"
            /\ Effect([tab EXCEPT ![d][m] = Invalid], r)
                 = [Effect(tab, r) EXCEPT ![d][m] = Invalid]
<1> DEFINE e == tab[d][m]
           after == EntryAfter(Invalid, r, d, m)
<1>1. e \in Entries /\ Effect(tab, r) \in Tables
  BY EffectRange DEF Tables, Invalid
<1>2. Effect([tab EXCEPT ![d][m] = Invalid], r) = [Effect(tab, r) EXCEPT ![d][m] = after]
  BY ChangeOfOne
<1>3. Effect(tab, r)[d][m] = EntryAfter(e, r, d, m)
  BY EffectIsLocal
<1>4. after = EntryAfter(e, r, d, m) \/ (after = Invalid /\ EntryAfter(e, r, d, m).state = "dynamic")
  <2>1. CASE r.op = "flush"
    <3>1. Flushed(Invalid, r) = Invalid
      BY DEF Flushed
    <3>2. Flushed(e, r) = Invalid \/ Flushed(e, r).state = "dynamic"
      BY <1>1 DEF Flushed, Moved, Entries
    <3> QED BY <2>1, <3>1, <3>2 DEF EntryAfter
  <2>2. CASE r.op # "flush"
    BY <2>2 DEF EntryAfter
  <2> QED BY <2>1, <2>2
<1> HIDE DEF after, e
<1>5. CASE after = EntryAfter(e, r, d, m)
  BY <1>1, <1>2, <1>3, <1>5, SameEntry
<1>6. CASE after = Invalid /\ EntryAfter(e, r, d, m).state = "dynamic"
  BY <1>2, <1>3, <1>6
<1> QED BY <1>4, <1>5, <1>6

(***************************************************************************)
(* A step of the driver or of the switch is a step of AtuTable.            *)
(***************************************************************************)
LEMMA Others ==
  ASSUME OneProcess, AtuInv, NEW t \in Threads, NEW to, pc' = [pc EXCEPT ![t] = to],
         pc[t] \in Holding \/ UNCHANGED regs
  PROVE  \A u \in Threads \ {t} :
           Phase'[u] = Phase[u] /\ FoundSoFar'[u] = FoundSoFar[u]
<1> SUFFICES ASSUME NEW u \in Threads \ {t}
             PROVE  Phase'[u] = Phase[u] /\ FoundSoFar'[u] = FoundSoFar[u]
  OBVIOUS
<1>1. pc'[u] = pc[u]
  BY DEF AtuInv, TypeOK
<1>2. CASE pc[t] \in Holding
  <2>1. pc[u] \notin {"busy", "fetch"}
    BY <1>2, Exclusive DEF AtuInv, Holding
  <2> QED BY <1>1, <2>1 DEF Phase, FoundSoFar, Happened
<1>3. CASE UNCHANGED regs
  BY <1>1, <1>3 DEF Phase, FoundSoFar, Happened, regs
<1> QED BY <1>2, <1>3

(***************************************************************************)
(* The steps of one thread and of the switch, one by one.                  *)
(***************************************************************************)
LEMMA AtuRefinement ==
  ASSUME OneProcess, AtuInv, [Next]_vars
  PROVE  [Table!Next]_(Table!vars)
<1> DEFINE reqs == [t \in Threads |-> Req(t)]
<1>0. /\ pc \in [Threads -> {"idle", "take", "ready", "data", "mac", "fid", "cmd",
                             "busy", "fetch", "give"}]
      /\ call \in [Threads -> Calls] /\ table \in Tables
      /\ \A t \in Threads : Req(t) \in AllRequests
      /\ \A t \in Threads : Operands(t) /\ Quiet(t)
      /\ Phase = [t \in Threads |-> Phase[t]] /\ Phase' = [t \in Threads |-> Phase'[t]]
      /\ FoundSoFar = [t \in Threads |-> FoundSoFar[t]]
      /\ FoundSoFar' = [t \in Threads |-> FoundSoFar'[t]]
  BY CallIsRequest DEF AtuInv, TypeOK, RegsInv, Req, Phase, FoundSoFar
<1>1. ASSUME NEW t \in Threads, NEW to, pc' = [pc EXCEPT ![t] = to],
             pc[t] \in Holding \/ UNCHANGED regs
      PROVE  /\ Phase' = [Phase EXCEPT ![t] = Phase'[t]]
             /\ FoundSoFar' = [FoundSoFar EXCEPT ![t] = FoundSoFar'[t]]
             /\ Phase'[t] = Phase[t] => Phase' = Phase
             /\ FoundSoFar'[t] = FoundSoFar[t] => FoundSoFar' = FoundSoFar
  BY <1>0, <1>1, Others
<1>2. \A t \in Threads : pc[t] \notin {"busy", "fetch"} => FoundSoFar[t] = Untouched
  BY DEF FoundSoFar, Happened
<1>3. \A t \in Threads : pc'[t] \notin {"busy", "fetch"} => FoundSoFar'[t] = Untouched
  BY DEF FoundSoFar, Happened
<1>4. UNCHANGED call => UNCHANGED reqs
  BY DEF Req
<1>5. ~busy => Visible = table
  BY DEF Visible
<1>6. ASSUME NEW t \in Threads, NEW c \in Calls, Call(t, c)
      PROVE  Table!Call(t, RequestOf(c)) /\ RequestOf(c) \in Requests
  <2>1. /\ pc' = [pc EXCEPT ![t] = "take"] /\ pc[t] = "idle" /\ pc'[t] = "take"
        /\ UNCHANGED regs
    BY <1>0, <1>6 DEF Call, Goto, switch
  <2>2. Phase[t] = "idle" /\ Phase'[t] = "called"
    BY <2>1 DEF Phase, Happened
  <2>3. Phase' = [Phase EXCEPT ![t] = "called"] /\ FoundSoFar' = FoundSoFar
    BY <1>1, <1>2, <1>3, <2>1, <2>2
  <2>4. reqs' = [reqs EXCEPT ![t] = RequestOf(c)]
    BY <1>0, <1>6 DEF Call, Req
  <2>5. Visible' = Visible
    BY <1>6 DEF Call, switch, regs, Visible, Pending
  <2>6. RequestOf(c) \in Requests
    BY DEF Requests
  <2> QED
    BY <1>6, <2>2, <2>3, <2>4, <2>5, <2>6 DEF Call, Table!Call
<1>7. ASSUME NEW t \in Threads, Take(t) \/ Ready(t) \/ Answered(t)
      PROVE  UNCHANGED Table!vars
  <2>1. UNCHANGED Visible
    BY <1>7 DEF Take, Ready, Answered, switch, regs, Visible, Pending
  <2>2. Phase'[t] = Phase[t] /\ FoundSoFar'[t] = FoundSoFar[t]
    BY <1>0, <1>7
       DEF Take, Ready, Answered, FirstWrite, Goto, switch, regs, Phase, FoundSoFar, Happened
  <2>3. UNCHANGED <<Phase, FoundSoFar>>
    BY <1>1, <1>7, <2>2 DEF Take, Ready, Answered, Goto, Holding, switch, regs
  <2> QED
    BY <1>4, <1>7, <2>1, <2>3 DEF Take, Ready, Answered, Table!vars
<1>8. ASSUME NEW t \in Threads, WriteData(t) \/ WriteMac(t) \/ WriteFid(t)
      PROVE  UNCHANGED Table!vars
  <2>1. pc[t] \in {"data", "mac", "fid"} /\ pc'[t] \in {"mac", "fid", "cmd"}
        /\ pc[t] \in Holding /\ ~busy /\ ~busy'
    BY <1>0, <1>8 DEF WriteData, WriteMac, WriteFid, Goto, Holding, Quiet
  <2>2. UNCHANGED Visible
    BY <1>8, <2>1 DEF WriteData, WriteMac, WriteFid, Visible
  <2>3. Phase'[t] = Phase[t] /\ FoundSoFar'[t] = FoundSoFar[t]
    BY <2>1 DEF Phase, FoundSoFar, Happened
  <2>4. UNCHANGED <<Phase, FoundSoFar>>
    BY <1>1, <1>8, <2>1, <2>3 DEF WriteData, WriteMac, WriteFid, Goto
  <2> QED
    BY <1>4, <1>8, <2>2, <2>4 DEF WriteData, WriteMac, WriteFid, Table!vars
<1>23. ASSUME NEW t \in Threads, WriteHalfData(t) PROVE Table!Tear(t)
  <2>1. pc[t] = "data" /\ pc' = [pc EXCEPT ![t] = "mac"] /\ pc'[t] = "mac"
        /\ pc[t] \in Holding /\ ~busy /\ ~busy'
    BY <1>0, <1>23 DEF WriteHalfData, Goto, Holding, Quiet
  <2>2. UNCHANGED Visible
    BY <1>23, <2>1 DEF WriteHalfData, Visible
  <2>3. Phase[t] = "called" /\ Phase'[t] = Phase[t] /\ FoundSoFar'[t] = FoundSoFar[t]
    BY <2>1 DEF Phase, FoundSoFar, Happened
  <2>4. UNCHANGED <<Phase, FoundSoFar>>
    BY <1>1, <2>1, <2>3
  <2>5. reqs' = reqs /\ reqs[t] = Req(t)
    BY <1>4, <1>23 DEF WriteHalfData
  <2> QED
    BY <1>23, <2>2, <2>3, <2>4, <2>5 DEF WriteHalfData, Table!Tear
<1>9. ASSUME NEW t \in Threads, pc[t] = "cmd", Command(t), UNCHANGED <<fidReg, macReg, dataReg, table>>
      PROVE  /\ Visible = table
             /\ Req(t).op = "next" => Visible' = table
             /\ Req(t).op # "next" =>
                  \E s \in Table!AsDone(Req(t), torn[t]) : Visible' = Effect(table, s)
  <2>1. Visible = table
    BY <1>0, <1>5, <1>9 DEF Quiet
  <2>2. Req(t).op \in {"load", "next", "flush"}
    BY <1>0, RequestFields
  <2>3. opReg' = "next" <=> Req(t).op = "next"
    BY <1>9, <2>2 DEF Command, OpOf
  <2>4. Req(t).op # "next" =>
          \E s \in Table!AsDone(Req(t), torn[t]) : Effect(table, Pending') = Effect(table, s)
    BY <1>9, AskedFor
  <2> QED
    BY <1>9, <2>1, <2>3, <2>4 DEF Command, Visible
<1>10. ASSUME NEW t \in Threads, WriteCmd(t), Req(t).op = "next" PROVE UNCHANGED Table!vars
  <2>1. pc[t] = "cmd" /\ pc' = [pc EXCEPT ![t] = "busy"] /\ pc'[t] = "busy" /\ busy'
        /\ pc[t] \in Holding
    BY <1>0, <1>10 DEF WriteCmd, Goto, Command, Holding
  <2>2. Phase'[t] = Phase[t] /\ FoundSoFar'[t] = FoundSoFar[t]
    BY <2>1 DEF Phase, FoundSoFar, Happened
  <2>3. UNCHANGED <<Phase, FoundSoFar>>
    BY <1>1, <2>1, <2>2
  <2>4. UNCHANGED Visible
    BY <1>9, <1>10, <2>1 DEF WriteCmd
  <2> QED
    BY <1>4, <1>10, <2>3, <2>4 DEF WriteCmd, Table!vars
<1>11. ASSUME NEW t \in Threads, WriteCmd(t), Req(t).op # "next" PROVE Table!Change(t)
  <2>1. pc[t] = "cmd" /\ pc' = [pc EXCEPT ![t] = "give"] /\ pc'[t] = "give"
        /\ pc[t] \in Holding
    BY <1>0, <1>11 DEF WriteCmd, Goto, Holding
  <2>2. Phase[t] = "called" /\ Phase'[t] = "done"
    BY <2>1 DEF Phase, Happened
  <2>3. Phase' = [Phase EXCEPT ![t] = "done"] /\ FoundSoFar' = [FoundSoFar EXCEPT ![t] = Untouched]
    BY <1>1, <1>3, <2>1, <2>2
  <2>4. \E s \in Table!AsDone(Req(t), torn[t]) : Visible' = Effect(Visible, s)
    BY <1>9, <1>11, <2>1 DEF WriteCmd
  <2>5. reqs' = reqs /\ reqs[t] = Req(t)
    BY <1>4, <1>11 DEF WriteCmd
  <2> QED
    BY <1>11, <2>2, <2>3, <2>4, <2>5, SameAtu
       DEF WriteCmd, Table!Change, Table!Done
<1>12. ASSUME NEW t \in Threads, Fetch(t) PROVE Table!Answer(t)
  <2>1. pc[t] = "fetch" /\ pc' = [pc EXCEPT ![t] = "give"] /\ pc'[t] = "give"
        /\ pc[t] \in Holding
    BY <1>0, <1>12 DEF Fetch, Goto, Holding
  <2>2. Phase[t] = "happened" /\ Phase'[t] = "done"
    BY <2>1 DEF Phase, Happened
  <2>3. Phase' = [Phase EXCEPT ![t] = "done"] /\ FoundSoFar' = [FoundSoFar EXCEPT ![t] = Untouched]
    BY <1>1, <1>3, <2>1, <2>2
  <2>4. FoundSoFar[t] = [mac |-> macReg, entry |-> dataReg]
    BY <2>1 DEF FoundSoFar, Happened
  <2>5. UNCHANGED Visible
    BY <1>12 DEF Fetch, switch, regs, Visible, Pending
  <2> QED
    BY <1>4, <1>12, <2>2, <2>3, <2>4, <2>5, SameAtu DEF Fetch, Table!Answer, Table!Done
<1>24. ASSUME NEW t \in Threads, FetchHalf(t) PROVE Table!HalfAnswer(t)
  <2>1. pc[t] = "fetch" /\ pc' = [pc EXCEPT ![t] = "give"] /\ pc'[t] = "give"
        /\ pc[t] \in Holding
    BY <1>0, <1>24 DEF FetchHalf, Goto, Holding
  <2>2. Phase[t] = "happened" /\ Phase'[t] = "done"
    BY <2>1 DEF Phase, Happened
  <2>3. Phase' = [Phase EXCEPT ![t] = "done"] /\ FoundSoFar' = [FoundSoFar EXCEPT ![t] = Untouched]
    BY <1>1, <1>3, <2>1, <2>2
  <2>4. FoundSoFar[t].mac = macReg
    BY <2>1 DEF FoundSoFar, Happened
  <2>5. UNCHANGED Visible
    BY <1>24 DEF FetchHalf, switch, regs, Visible, Pending
  <2>6. \E e \in Table!HalfEntries :
          entry' = [entry EXCEPT ![t] = [mac |-> FoundSoFar[t].mac, entry |-> e]]
    BY <1>24, <2>4, SameAtu DEF FetchHalf
  <2> QED
    BY <1>4, <1>24, <2>2, <2>3, <2>5, <2>6, SameAtu DEF FetchHalf, Table!HalfAnswer, Table!Done
<1>13. ASSUME NEW t \in Threads, IoError(t) PROVE Table!GiveUp(t)
  <2>1. pc' = [pc EXCEPT ![t] = "give"] /\ pc'[t] = "give" /\ pc[t] \in Holding
        /\ pc[t] \notin {"idle", "give"}
    BY <1>0, <1>13 DEF IoError, Accessing, Holding
  <2>2. Phase[t] \in {"called", "happened"} /\ Phase'[t] = "done"
    BY <2>1 DEF Phase, Happened
  <2>3. Phase' = [Phase EXCEPT ![t] = "done"] /\ FoundSoFar' = [FoundSoFar EXCEPT ![t] = Untouched]
    BY <1>1, <1>3, <2>1, <2>2
  <2>4. \/ Visible' = Visible
        \/ /\ Phase[t] = "called"
           /\ \E s \in Table!AsDone(Req(t), torn[t]) : Visible' = Effect(Visible, s)
    <3>1. CASE UNCHANGED regs
      BY <1>13, <3>1 DEF IoError, regs, Visible, Pending
    <3>2. CASE pc[t] \in {"data", "mac", "fid"} /\ UNCHANGED busy
      BY <1>0, <1>13, <3>2 DEF IoError, Quiet, Visible
    <3>3. CASE pc[t] = "cmd" /\ Command(t) /\ UNCHANGED <<fidReg, macReg, dataReg>>
      <4>1. Phase[t] = "called"
        BY <3>3 DEF Phase, Happened
      <4>2. UNCHANGED table
        BY <1>13 DEF IoError
      <4> QED BY <1>9, <3>3, <4>1, <4>2
    <3> QED BY <1>13, <3>1, <3>2, <3>3 DEF IoError
  <2>5. reqs' = reqs /\ reqs[t] = Req(t)
    BY <1>4, <1>13 DEF IoError
  <2> QED
    BY <1>13, <2>2, <2>3, <2>4, <2>5, SameAtu DEF IoError, Table!GiveUp, Table!Done
<1>14. ASSUME NEW t \in Threads, Give(t) PROVE Table!Return(t)
  <2>1. pc[t] = "give" /\ pc' = [pc EXCEPT ![t] = "idle"] /\ pc'[t] = "idle"
        /\ pc[t] \in Holding
    BY <1>0, <1>14 DEF Give, Goto, Holding
  <2>2. Phase[t] = "done" /\ Phase'[t] = "idle"
    BY <2>1 DEF Phase, Happened
  <2>3. Phase' = [Phase EXCEPT ![t] = "idle"] /\ FoundSoFar' = FoundSoFar
    BY <1>1, <1>2, <1>3, <2>1, <2>2
  <2>4. UNCHANGED Visible
    BY <1>14 DEF Give, switch, regs, Visible, Pending
  <2> QED
    BY <1>4, <1>14, <2>2, <2>3, <2>4, SameAtu DEF Give, Table!Return
<1>15. \A t \in Threads : UNCHANGED pc /\ pc[t] \notin {"busy", "fetch"}
         => Phase'[t] = Phase[t] /\ FoundSoFar'[t] = FoundSoFar[t]
  BY DEF Phase, FoundSoFar, Happened
<1>16. ASSUME Execute, NEW t \in Threads, pc[t] = "busy" PROVE Table!Find(t)
  <2>1. busy /\ ~busy' /\ opReg = "next" /\ fidReg = Req(t).db /\ macReg = Req(t).mac
        /\ Req(t).op = "next" /\ UNCHANGED pc
    BY <1>0, <1>16 DEF Execute, Quiet, Operands
  <2>2. Pending = [op |-> "next", db |-> Req(t).db, mac |-> Req(t).mac]
    BY <2>1 DEF Pending
  <2>3. Found(table, Pending) = Found(table, Req(t)) /\ Effect(table, Pending) = table
    BY <2>2 DEF Found, Effect
  <2>4. Visible = table /\ Visible' = table
    BY <1>16, <2>1, <2>3 DEF Execute, Visible
  <2>5. Phase[t] = "called" /\ Phase'[t] = "happened"
    BY <1>16, <2>1 DEF Phase, Happened
  <2>6. FoundSoFar'[t] = [mac |-> macReg', entry |-> dataReg']
    BY <1>16, <2>1 DEF FoundSoFar, Happened
  <2>7. FoundSoFar'[t] = Found(table, Req(t))
    BY <1>16, <2>1, <2>3, <2>6 DEF Execute, Found
  <2>8. \A u \in Threads \ {t} : Phase'[u] = Phase[u] /\ FoundSoFar'[u] = FoundSoFar[u]
    BY <1>15, <1>16, <2>1, Exclusive DEF AtuInv, Holding
  <2>9. /\ Phase' = [Phase EXCEPT ![t] = "happened"]
        /\ FoundSoFar' = [FoundSoFar EXCEPT ![t] = Found(table, Req(t))]
    BY <1>0, <2>5, <2>7, <2>8
  <2>10. reqs' = reqs /\ reqs[t] = Req(t)
    BY <1>4, <1>16 DEF Execute
  <2> QED
    BY <1>16, <2>1, <2>4, <2>5, <2>9, <2>10, SameAtu DEF Execute, Table!Find
<1>17. ASSUME Execute, \A t \in Threads : pc[t] # "busy" PROVE UNCHANGED Table!vars
  <2>1. \A t \in Threads : pc[t] \notin {"busy", "fetch"}
    BY <1>0, <1>17 DEF Execute, Quiet
  <2>2. UNCHANGED <<Phase, FoundSoFar>>
    BY <1>0, <1>15, <1>17, <2>1 DEF Execute
  <2>3. UNCHANGED Visible
    <3>1. CASE opReg # "next"
      BY <1>17, <3>1 DEF Execute, Visible
    <3>2. CASE opReg = "next"
      <4>1. Effect(table, Pending) = table
        BY <3>2 DEF Pending, Effect
      <4> QED BY <1>17, <3>2, <4>1 DEF Execute, Visible
    <3> QED BY <3>1, <3>2
  <2> QED
    BY <1>4, <1>17, <2>2, <2>3 DEF Execute, Table!vars
<1>18. ASSUME Learn \/ Age PROVE UNCHANGED <<Phase, FoundSoFar, reqs, torn, status, entry, busy, opReg>>
                                 /\ Pending' = Pending
  BY <1>4, <1>18 DEF Learn, Age, regs, Phase, FoundSoFar, Happened, Pending
<1>19. busy /\ opReg # "next" => Pending \in AllRequests
  BY PendingRange DEF AtuInv
<1>20. ASSUME Learn PROVE Table!Learn \/ UNCHANGED Table!vars
  <2>1. PICK d \in Dbs, m \in Macs, p \in Ports :
          table[d][m] = Invalid /\ table' = Learnt(table, d, m, p)
    BY <1>20 DEF Learn
  <2>2. \/ UNCHANGED Visible
        \/ \E q \in Ports : Visible[d][m] = Invalid /\ Visible' = Learnt(Visible, d, m, q)
    <3>1. CASE busy /\ opReg # "next"
      BY <1>0, <1>18, <1>19, <1>20, <2>1, <3>1, LearnAfter DEF Visible
    <3>2. CASE ~(busy /\ opReg # "next")
      BY <1>18, <1>20, <2>1, <3>2 DEF Visible
    <3> QED BY <3>1, <3>2
  <2> QED
    BY <1>18, <1>20, <2>2, SameAtu DEF Table!Learn, Table!vars
<1>21. ASSUME Age PROVE Table!Age \/ UNCHANGED Table!vars
  <2>1. PICK d \in Dbs, m \in Macs :
          table[d][m].state = "dynamic" /\ table' = [table EXCEPT ![d][m] = Invalid]
    BY <1>21 DEF Age
  <2>2. \/ UNCHANGED Visible
        \/ Visible[d][m].state = "dynamic" /\ Visible' = [Visible EXCEPT ![d][m] = Invalid]
    <3>1. CASE busy /\ opReg # "next"
      <4>1. Visible = Effect(table, Pending)
            /\ Visible' = Effect([table EXCEPT ![d][m] = Invalid], Pending)
        BY <1>18, <1>21, <2>1, <3>1 DEF Visible
      <4>2. Pending \in AllRequests /\ table \in Tables /\ d \in Dbs /\ m \in Macs
            /\ table[d][m].state = "dynamic"
        BY <1>0, <1>19, <2>1, <3>1
      <4>3. \/ Effect([table EXCEPT ![d][m] = Invalid], Pending) = Effect(table, Pending)
            \/ /\ Effect(table, Pending)[d][m].state = "dynamic"
               /\ Effect([table EXCEPT ![d][m] = Invalid], Pending)
                    = [Effect(table, Pending) EXCEPT ![d][m] = Invalid]
        BY <4>2, AgeAfter
      <4> QED BY <4>1, <4>3
    <3>2. CASE ~(busy /\ opReg # "next")
      <4>1. Visible = table /\ Visible' = table'
        BY <1>18, <1>21, <3>2 DEF Visible
      <4> QED BY <2>1, <4>1
    <3> QED BY <3>1, <3>2
  <2> QED
    BY <1>18, <1>21, <2>2, SameAtu DEF Table!Age, Table!vars
<1>22. ASSUME UNCHANGED vars PROVE UNCHANGED Table!vars
  BY <1>4, <1>22
     DEF vars, switch, regs, Visible, Pending, Phase, FoundSoFar, Happened, Table!vars
<1> HIDE DEF reqs
<1> QED
  BY <1>6, <1>7, <1>8, <1>10, <1>11, <1>12, <1>13, <1>14, <1>16, <1>17, <1>20, <1>21, <1>22,
     <1>23, <1>24
     DEF Next, Step, Table!Next

(***************************************************************************)
(* For the threads of one process the address table operations are atomic  *)
(* (Spruce_msdBrgFdb.c:2069-2357): each register access of theirs, each    *)
(* failure of one and each step of the switch is a step of AtuTable or     *)
(* nothing that can be seen of the table.                                  *)
(***************************************************************************)
THEOREM TableIsAtomic ==
  ASSUME OneProcess
  PROVE  Spec => TableAtomic
<1>1. Spec => []AtuInv
  BY AtuInvHolds
<1>2. Init => Table!Init
  <2> SUFFICES ASSUME Init PROVE Table!Init
    OBVIOUS
  <2>1. \A t \in Threads : Req(t) \in Requests
    <3>1. SomeCall \in Calls
      BY SpruceAtuAssumption DEF SomeCall
    <3> QED BY <3>1 DEF Init, Req, Requests
  <2>2. Visible = [d \in Dbs |-> [m \in Macs |-> Invalid]]
    BY DEF Init, Visible
  <2>3. /\ Phase = [t \in Threads |-> "idle"]
        /\ FoundSoFar = [t \in Threads |-> Untouched]
    BY DEF Init, Phase, FoundSoFar, Happened
  <2> QED BY <2>1, <2>2, <2>3, SameAtu DEF Init, Table!Init
<1>3. AtuInv /\ [Next]_vars => [Table!Next]_(Table!vars)
  BY AtuRefinement
<1> QED
  BY <1>1, <1>2, <1>3, PTL DEF Spec, TableAtomic, Table!Spec

-----------------------------------------------------------------------------
(***************************************************************************)
(* What a find's operation has found stays what was there when the switch  *)
(* executed it, until the find returns it.                                 *)
(***************************************************************************)
LEMMA SeenStep ==
  ASSUME OneProcess, SeenInv, [Next]_vars
  PROVE  SeenInv'
<1>0. /\ pc \in [Threads -> {"idle", "take", "ready", "data", "mac", "fid", "cmd",
                             "busy", "fetch", "give"}]
      /\ call \in [Threads -> Calls] /\ table \in Tables
      /\ there \in [Threads -> Entries \cup {Invalid}]
      /\ status \in [Threads -> {"MSD_OK", "MSD_FAIL"}]
      /\ entry \in [Threads -> [mac : Macs, entry : DataWords]]
      /\ out \in [Threads -> [ret : {"none", "MSD_OK", "MSD_FAIL", "MSD_NO_SUCH"},
                              found : BOOLEAN, mac : Macs, entry : DataWords]]
      /\ \A t \in Threads : Operands(t) /\ Quiet(t)
      /\ torn \in [Threads -> BOOLEAN]
      /\ AtuInv /\ FindSees /\ \A t \in Threads : Seen(t)
  BY DEF SeenInv, AtuInv, TypeOK, RegsInv
<1>1. AtuInv'
  BY <1>0, TypeStep, LockStep, TornStep, RegsStep DEF AtuInv
<1> DEFINE Returned(t) ==
      pc[t] = "idle" /\ call[t].op = "find" /\ out[t].ret = "MSD_OK" /\ there[t] # Invalid =>
        /\ out[t].found \/ (torn[t] /\ call[t].mac = Broadcast)
        /\ call[t].mac # Broadcast /\ ~torn[t] => out[t].entry = there[t]
<1>2. FindSees <=> \A t \in Threads : Returned(t)
  BY DEF FindSees
<1>3. FindSees' <=> \A t \in Threads : Returned(t)'
  BY DEF FindSees
<1> SUFFICES ASSUME NEW u \in Threads PROVE Seen(u)' /\ Returned(u)'
  BY <1>1, <1>3 DEF SeenInv
<1>4. Seen(u) /\ Returned(u)
  BY <1>0, <1>2
<1> HIDE DEF Returned
<1>5. ASSUME pc'[u] = pc[u], call'[u] = call[u], there'[u] = there[u], out'[u] = out[u],
             torn'[u] = torn[u]
      PROVE  Returned(u)'
  BY <1>4, <1>5 DEF Returned
<1>6. ASSUME pc'[u] # "idle" PROVE Returned(u)'
  BY <1>6 DEF Returned
<1>7. ASSUME pc'[u] = pc[u], call'[u] = call[u], there'[u] = there[u],
             entry'[u] = entry[u], status'[u] = status[u], torn'[u] = torn[u],
             UNCHANGED <<busy, macReg, dataReg>> \/ pc[u] \notin {"busy", "fetch"}
      PROVE  Seen(u)'
  BY <1>4, <1>7 DEF Seen, Happened
<1>8. ASSUME pc'[u] \notin {"busy", "fetch", "give"} PROVE Seen(u)'
  BY <1>8 DEF Seen, Happened
<1>9. ASSUME NEW t \in Threads, NEW to, pc' = [pc EXCEPT ![t] = to], t # u,
             pc[t] \in Holding \/ UNCHANGED regs,
             call'[u] = call[u], there'[u] = there[u], out'[u] = out[u],
             entry'[u] = entry[u], status'[u] = status[u], torn'[u] = torn[u]
      PROVE  Seen(u)' /\ Returned(u)'
  <2>1. pc'[u] = pc[u]
    BY <1>0, <1>9
  <2>2. UNCHANGED <<busy, macReg, dataReg>> \/ pc[u] \notin {"busy", "fetch"}
    BY <1>0, <1>9, Exclusive DEF AtuInv, Holding, regs
  <2> QED BY <1>5, <1>7, <1>9, <2>1, <2>2
<1>10. ASSUME NEW t \in Threads, NEW c \in Calls, Call(t, c) PROVE Seen(u)' /\ Returned(u)'
  <2>1. CASE t = u
    <3>1. pc'[u] = "take"
      BY <1>0, <1>10, <2>1 DEF Call, Goto
    <3> QED BY <1>6, <1>8, <3>1
  <2>2. CASE t # u
    BY <1>0, <1>9, <1>10, <2>2 DEF Call, Goto, switch
  <2> QED BY <2>1, <2>2
<1>11. ASSUME NEW t \in Threads, Take(t) \/ Ready(t) PROVE Seen(u)' /\ Returned(u)'
  <2>1. CASE t = u
    <3>1. pc'[u] \in {"ready", "mac", "data"}
      BY <1>0, <1>11, <2>1 DEF Take, Ready, FirstWrite, Goto
    <3> QED BY <1>6, <1>8, <3>1
  <2>2. CASE t # u
    BY <1>9, <1>11, <2>2 DEF Take, Ready, Goto, switch
  <2> QED BY <2>1, <2>2
<1>12. ASSUME NEW t \in Threads, WriteData(t) \/ WriteHalfData(t) \/ WriteMac(t) \/ WriteFid(t)
       PROVE  Seen(u)' /\ Returned(u)'
  <2>1. CASE t = u
    <3>1. pc'[u] \in {"mac", "fid", "cmd"}
      BY <1>0, <1>12, <2>1 DEF WriteData, WriteHalfData, WriteMac, WriteFid, Goto
    <3> QED BY <1>6, <1>8, <3>1
  <2>2. CASE t # u
    BY <1>0, <1>9, <1>12, <2>2 DEF WriteData, WriteHalfData, WriteMac, WriteFid, Goto, Holding
  <2> QED BY <2>1, <2>2
<1>13. ASSUME NEW t \in Threads, WriteCmd(t) PROVE Seen(u)' /\ Returned(u)'
  <2>1. CASE t = u
    <3>1. CASE Req(t).op = "next"
      <4>1. pc'[u] = "busy" /\ busy'
        BY <1>0, <1>13, <2>1, <3>1 DEF WriteCmd, Goto, Command
      <4> QED BY <1>6, <4>1 DEF Seen, Happened
    <3>2. CASE Req(t).op # "next"
      <4>1. pc'[u] = "give" /\ call'[u] = call[u] /\ call[u].op # "find"
        BY <1>0, <1>13, <2>1, <3>2, CallIsRequest DEF WriteCmd, Goto, Req
      <4> QED BY <1>6, <4>1 DEF Seen
    <3> QED BY <3>1, <3>2
  <2>2. CASE t # u
    BY <1>0, <1>9, <1>13, <2>2 DEF WriteCmd, Goto, Holding
  <2> QED BY <2>1, <2>2
<1>14. ASSUME NEW t \in Threads, Answered(t) PROVE Seen(u)' /\ Returned(u)'
  <2>1. CASE t = u
    <3>1. pc'[u] = "fetch" /\ Happened(u)
      BY <1>0, <1>14, <2>1 DEF Answered, Goto, Happened
    <3>2. Seen(u)'
      BY <1>4, <1>14, <2>1, <3>1 DEF Answered, switch, regs, Seen
    <3> QED BY <1>6, <3>1, <3>2
  <2>2. CASE t # u
    BY <1>9, <1>14, <2>2 DEF Answered, Goto, Holding
  <2> QED BY <2>1, <2>2
<1>15. ASSUME NEW t \in Threads, Fetch(t) PROVE Seen(u)' /\ Returned(u)'
  <2>1. CASE t = u
    <3>1. pc'[u] = "give" /\ Happened(u) /\ entry'[u] = [mac |-> macReg, entry |-> dataReg]
      BY <1>0, <1>15, <2>1 DEF Fetch, Goto, Happened
    <3>2. Seen(u)'
      BY <1>4, <1>15, <3>1 DEF Fetch, Seen, Happened
    <3> QED BY <1>6, <3>1, <3>2
  <2>2. CASE t # u
    BY <1>0, <1>9, <1>15, <2>2 DEF Fetch, Goto, Holding
  <2> QED BY <2>1, <2>2
<1>20. ASSUME NEW t \in Threads, FetchHalf(t) PROVE Seen(u)' /\ Returned(u)'
  <2>1. CASE t = u
    <3>1. pc'[u] = "give" /\ Happened(u) /\ entry'[u].mac = macReg /\ torn'[u]
      BY <1>0, <1>20, <2>1 DEF FetchHalf, Goto, Happened
    <3>2. Seen(u)'
      BY <1>4, <1>20, <3>1 DEF FetchHalf, Seen, Happened
    <3> QED BY <1>6, <3>1, <3>2
  <2>2. CASE t # u
    BY <1>0, <1>9, <1>20, <2>2 DEF FetchHalf, Goto, Holding
  <2> QED BY <2>1, <2>2
<1>16. ASSUME NEW t \in Threads, IoError(t) PROVE Seen(u)' /\ Returned(u)'
  <2>1. CASE t = u
    <3>1. pc'[u] = "give" /\ status'[u] = "MSD_FAIL"
      BY <1>0, <1>16, <2>1 DEF IoError
    <3> QED BY <1>6, <3>1 DEF Seen, Happened
  <2>2. CASE t # u
    BY <1>0, <1>9, <1>16, <2>2 DEF IoError, Accessing, Holding
  <2> QED BY <2>1, <2>2
<1>17. ASSUME NEW t \in Threads, Give(t) PROVE Seen(u)' /\ Returned(u)'
  <2>1. CASE t = u
    <3>1. pc[u] = "give" /\ pc'[u] = "idle" /\ UNCHANGED <<call, torn, there>>
      BY <1>0, <1>17, <2>1 DEF Give, Goto
    <3>2. ASSUME call[u].op = "find", out'[u].ret = "MSD_OK", there[u] # Invalid
          PROVE  /\ out'[u].found \/ (torn[u] /\ call[u].mac = Broadcast)
                 /\ call[u].mac # Broadcast /\ ~torn[u] => out'[u].entry = there[u]
      <4>1. ~ReturnNext(u)
        BY <3>2 DEF ReturnNext
      <4>2. ~ReturnOther(u)
        BY <1>0, <3>2 DEF ReturnOther, Out
      <4>3. ReturnFind(u) /\ status[u] = "MSD_OK"
        BY <1>17, <2>1, <4>1, <4>2 DEF Give, ReturnFind
      <4>4. entry[u].mac = call[u].mac /\ (~torn[u] => entry[u].entry = there[u])
        BY <1>4, <3>1, <3>2, <4>3 DEF Seen
      <4>5. there[u].state # "invalid"
        BY <1>0, <3>2, Words
      <4>6. CASE torn[u] /\ call[u].mac = Broadcast
        BY <4>6
      <4>7. CASE ~(torn[u] /\ call[u].mac = Broadcast)
        <5>1. ~NoSuch(u) /\ (Copied(u) <=> call[u].mac # Broadcast)
          BY <4>4, <4>5, <4>7 DEF NoSuch, Copied
        <5>2. \E e \in IF Copied(u) THEN {entry[u].entry} ELSE Entries :
                Out(u, "MSD_OK", TRUE, call[u].mac, e)
          BY <4>3, <5>1 DEF ReturnFind
        <5> QED BY <1>0, <4>4, <5>1, <5>2 DEF Out
      <4> QED BY <4>6, <4>7
    <3> QED BY <1>8, <3>1, <3>2 DEF Returned
  <2>2. CASE t # u
    <3>1. out'[u] = out[u]
      BY <1>0, <1>17, <2>2 DEF Give, ReturnOther, ReturnNext, ReturnFind, Out
    <3> QED BY <1>0, <1>9, <1>17, <2>2, <3>1 DEF Give, Goto, Holding
  <2> QED BY <2>1, <2>2
<1>18. ASSUME Execute PROVE Seen(u)' /\ Returned(u)'
  <2>1. CASE pc[u] = "busy"
    <3>1. /\ busy /\ opReg = "next" /\ fidReg = Req(u).db /\ macReg = Req(u).mac
          /\ UNCHANGED <<pc, call>>
      BY <1>0, <1>18, <2>1 DEF Execute, Quiet
    <3>2. ASSUME call[u].op = "find", there'[u] # Invalid
          PROVE  macReg' = call[u].mac /\ dataReg' = there'[u]
      <4>1. call[u].db \in Dbs /\ call[u].mac \in Macs
            /\ Req(u) = [op |-> "next", db |-> call[u].db, mac |-> Before(call[u].mac)]
        <5>1. call[u] \in Calls
          BY <1>0
        <5>2. call[u] \in FindCalls
          BY <3>2, <5>1, CallIsRequest
        <5> QED BY <3>2, <5>2 DEF FindCalls, Req, RequestOf
      <4>2. there'[u] = table[call[u].db][call[u].mac]
        BY <1>18, <2>1, <3>2 DEF Execute
      <4>3. NextMac(table, call[u].db, Before(call[u].mac)) = call[u].mac
        BY <1>0, <3>2, <4>1, <4>2, NextMacFinds
      <4>4. Pending = [op |-> "next", db |-> call[u].db, mac |-> Before(call[u].mac)]
        BY <3>1, <4>1 DEF Pending
      <4> QED BY <1>18, <3>1, <4>2, <4>3, <4>4 DEF Execute, Found
    <3>3. Seen(u)'
      BY <2>1, <3>1, <3>2 DEF Seen
    <3> QED BY <1>6, <2>1, <3>1, <3>3
  <2>2. CASE pc[u] # "busy"
    <3>1. pc[u] # "fetch" /\ there'[u] = there[u]
      BY <1>0, <1>18, <2>2 DEF Execute, Quiet
    <3> QED BY <1>5, <1>7, <1>18, <2>2, <3>1 DEF Execute
  <2> QED BY <2>1, <2>2
<1>19. ASSUME Learn \/ Age \/ UNCHANGED vars PROVE Seen(u)' /\ Returned(u)'
  BY <1>5, <1>7, <1>19 DEF Learn, Age, vars, switch, regs
<1> QED
  BY <1>10, <1>11, <1>12, <1>13, <1>14, <1>15, <1>16, <1>17, <1>18, <1>19,
     <1>20
     DEF Next, Step

(***************************************************************************)
(* A find misses no entry (Spruce_msdBrgFdb.c:756-827): what it searches   *)
(* from is the address before, around the end of the address space, so     *)
(* that the entry comes first, and no other operation gets between.        *)
(***************************************************************************)
THEOREM FindMissesNothing ==
  ASSUME OneProcess
  PROVE  Spec => []FindSees
<1>1. Init => SeenInv
  <2> SUFFICES ASSUME Init PROVE SeenInv
    OBVIOUS
  <2>1. AtuInv
    BY TypeInit, SpruceAtuAssumption
       DEF AtuInv, Init, Lock, Holding, TornInv, RegsInv, Operands, Quiet, Loadable
  <2> QED BY <2>1 DEF SeenInv, FindSees, Seen, Init
<1>2. SeenInv /\ [Next]_vars => SeenInv'
  BY SeenStep
<1>3. SeenInv => FindSees
  BY DEF SeenInv
<1> QED BY <1>1, <1>2, <1>3, PTL DEF Spec
=============================================================================
