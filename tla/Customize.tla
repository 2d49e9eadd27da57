----------------------------- MODULE Customize ------------------------------
(***************************************************************************)
(* The port tools of the CLI, customize.c: the mode of a PHY is written    *)
(* and read through the switch's SMI PHY registers, and ports are bound in *)
(* pairs through their MapDA and VLAN registers, with accesses to extended *)
(* registers, of which each is two: bit 16 goes through a register of its  *)
(* own.  A client is a process; nothing locks a sequence of accesses.      *)
(***************************************************************************)
EXTENDS Integers, Sequences

CONSTANTS
  Clients,    \* CLI processes
  LastPort,   \* 11 in the 88Q6113: its VLAN bit is bit 16
  SerdesPort, \* 8: its PHY is PHY 0
  Calls,      \* the commands that are given
  Failing     \* the commands whose register accesses may fail

Ports == 0 .. LastPort
Phys == Ports

ASSUME CustomizeAssumption ==
  /\ LastPort \in Nat
  /\ Calls # {}
  /\ Calls \subseteq [api : {"set"}, phy : Phys, mode : {"master", "slave"}]
                \cup [api : {"get"}, phy : Phys]
                \cup [api : {"bind"}, a : Ports, b : Ports] \cup [api : {"reset"}]
  /\ Failing \subseteq {"set", "get", "bind", "reset"}

\* What the data register holds: register offsets and register values.
Words == {"0", "0x834", "0x200", "0x1000", "master", "slave"}
Mmds == {"pma", "an"}

VARIABLES
  pc,       \* where each client is: idle, or in the first or second half of an access
  call,     \* the command it runs
  at,       \* the access it is at
  got,      \* phyData, what checkPhyData has read
  out,      \* what the command returned
  hi,       \* G1 0x1B, 0x16: bit 16 of the access under way
  mapDA,    \* port registers 0x08
  vlan,     \* port registers 0x06
  phyData,  \* G2 0x19, SMI PHY data
  phyAddr,  \* the register offset each PHY has been given, in each MMD
  phyReg    \* the PHYs' registers

switch == <<hi, mapDA, vlan, phyData, phyAddr, phyReg>>
vars == <<pc, call, at, got, out, switch>>

Init ==
  /\ pc = [c \in Clients |-> "idle"]
  /\ \E first \in Calls : call = [c \in Clients |-> first]
  /\ at = [c \in Clients |-> 1]
  /\ got = [c \in Clients |-> "0"]
  /\ out = [c \in Clients |-> "none"]
  /\ hi = FALSE
  /\ mapDA = [p \in Ports |-> TRUE]
  /\ vlan = [p \in Ports |-> Ports \ {p}]
  /\ phyData = "0"
  /\ phyAddr = [p \in Phys |-> [m \in Mmds |-> "0"]]
  /\ \E mode \in [Phys -> {"master", "slave"}] :
       phyReg = [p \in Phys |-> [m \in Mmds |-> [w \in Words |->
                   IF m = "pma" /\ w = "0x834" THEN mode[p] ELSE "0"]]]

-----------------------------------------------------------------------------
(* The accesses each command makes *)

Data(word) == [to |-> "data", word |-> word]
Cmd(op, mmd, phy) == [to |-> "cmd", op |-> op, mmd |-> mmd, phy |-> phy]
MapDA(p, on) == [to |-> "mapDA", port |-> p, on |-> on]
PortVlan(p, members) == [to |-> "vlan", port |-> p, members |-> members]
ReadData == [to |-> "read"]

\* Mutant: the PHY is not put into the command that reads.
MutCheckPhyData(phy) ==
  <<Data("0x834"), Cmd("address", "pma", phy), Cmd("read", "pma", 0), ReadData>>

checkPhyData(phy) ==
  <<Data("0x834"), Cmd("address", "pma", phy), Cmd("read", "pma", phy), ReadData>>

setMasterOrSlave(phy, mode) ==
  <<Data("0x834"), Cmd("address", "pma", phy), Data(mode), Cmd("write", "pma", phy)>>
    \o checkPhyData(phy)

AutoNegotiation(p) ==
  LET phy == IF p = SerdesPort THEN 0 ELSE p
  IN <<Data("0x200"), Cmd("address", "an", phy), Data("0x1000"), Cmd("write", "an", phy)>>

setDQAVlan(a, b) ==
  <<MapDA(a, FALSE), MapDA(b, FALSE), PortVlan(a, {b}), PortVlan(b, {a})>>
    \o AutoNegotiation(a) \o AutoNegotiation(b)

resetPortBasedVlan ==
  [i \in 1 .. 2 * (LastPort + 1) |->
     LET p == (i - 1) \div 2
     IN IF i % 2 = 1 THEN MapDA(p, TRUE) ELSE PortVlan(p, Ports \ {p})]

Accesses(cmd) ==
  CASE cmd.api = "set"   -> setMasterOrSlave(cmd.phy, cmd.mode)
    [] cmd.api = "get"   -> checkPhyData(cmd.phy)
    [] cmd.api = "bind"  -> setDQAVlan(cmd.a, cmd.b)
    [] cmd.api = "reset" -> resetPortBasedVlan

\* Mutant: set goes on after an access that failed.
MutStopsAtError(cmd) == cmd.api = "get"

\* bind and reset overwrite the result of each access with that of the next.
StopsAtError(cmd) == cmd.api \in {"set", "get"}

Result(cmd, word) ==
  CASE cmd.api = "set"  -> IF word = cmd.mode THEN "0" ELSE "1"
    [] cmd.api = "get"  -> IF word = "master" THEN "Master"
                           ELSE IF word = "slave" THEN "Slave" ELSE "Unknown"
    [] OTHER            -> "0"

ErrorResult(cmd) == IF cmd.api = "set" THEN "1" ELSE "Unknown"

TypeOK ==
  /\ pc \in [Clients -> {"idle", "first", "second"}]
  /\ call \in [Clients -> Calls]
  /\ \A c \in Clients : at[c] \in 1 .. Len(Accesses(call[c]))
  /\ got \in [Clients -> Words]
  /\ out \in [Clients -> {"none", "0", "1", "Master", "Slave", "Unknown"}]
  /\ hi \in BOOLEAN
  /\ mapDA \in [Ports -> BOOLEAN]
  /\ vlan \in [Ports -> SUBSET Ports]
  /\ phyData \in Words
  /\ phyAddr \in [Phys -> [Mmds -> Words]]
  /\ phyReg \in [Phys -> [Mmds -> [Words -> Words]]]

-----------------------------------------------------------------------------
(* msdSetAnyExtendedReg, msdGetAnyExtendedReg *)

Access(c) == Accesses(call[c])[at[c]]
Reading(c) == Access(c) = ReadData

Call(c, cmd) ==
  /\ pc[c] = "idle"
  /\ pc' = [pc EXCEPT ![c] = "first"]
  /\ call' = [call EXCEPT ![c] = cmd]
  /\ UNCHANGED <<at, got, out, switch>>

Return(c, result) ==
  /\ pc' = [pc EXCEPT ![c] = "idle"]
  /\ at' = [at EXCEPT ![c] = 1]
  /\ got' = [got EXCEPT ![c] = "0"]
  /\ out' = [out EXCEPT ![c] = result]

\* Mutant: one access too many.
MutAdvance(c, word) ==
  IF at[c] <= Len(Accesses(call[c]))
  THEN /\ pc' = [pc EXCEPT ![c] = "first"]
       /\ at' = [at EXCEPT ![c] = @ + 1]
       /\ UNCHANGED <<got, out>>
  ELSE Return(c, Result(call[c], word))

\* The next access, or the end of the command.
Advance(c, word) ==
  IF at[c] < Len(Accesses(call[c]))
  THEN /\ pc' = [pc EXCEPT ![c] = "first"]
       /\ at' = [at EXCEPT ![c] = @ + 1]
       /\ UNCHANGED <<got, out>>
  ELSE Return(c, Result(call[c], word))

HighBit(a) == a.to = "vlan" /\ LastPort \in a.members

\* Mutant: a value is written without its high half.
MutFirst(c) ==
  /\ pc[c] = "first"
  /\ pc' = [pc EXCEPT ![c] = "second"]
  /\ IF Reading(c)
     THEN got' = [got EXCEPT ![c] = phyData] /\ hi' = FALSE
     ELSE UNCHANGED <<got, hi>>
  /\ UNCHANGED <<call, at, out, mapDA, vlan, phyData, phyAddr, phyReg>>

\* A write starts with the high half.  A read starts with the low one, and the
\* switch keeps the high one for the second half.
First(c) ==
  /\ pc[c] = "first"
  /\ pc' = [pc EXCEPT ![c] = "second"]
  /\ IF Reading(c)
     THEN got' = [got EXCEPT ![c] = phyData] /\ hi' = FALSE
     ELSE hi' = HighBit(Access(c)) /\ UNCHANGED got
  /\ UNCHANGED <<call, at, out, mapDA, vlan, phyData, phyAddr, phyReg>>

\* It fails, which nobody is told, and may have reached the switch.
FirstFails(c) ==
  /\ call[c].api \in Failing
  /\ pc[c] = "first"
  /\ pc' = [pc EXCEPT ![c] = "second"]
  /\ hi' \in {hi, ~Reading(c) /\ HighBit(Access(c))}
  /\ UNCHANGED <<call, at, got, out, mapDA, vlan, phyData, phyAddr, phyReg>>

\* The switch executes an SMI PHY command before it answers the next access.
Written(a) ==
  /\ phyData' = CASE a.to = "data" -> a.word
                  [] a.to = "cmd" /\ a.op = "read" ->
                       phyReg[a.phy][a.mmd][phyAddr[a.phy][a.mmd]]
                  [] OTHER -> phyData
  /\ phyAddr' = IF a.to = "cmd" /\ a.op = "address"
                THEN [phyAddr EXCEPT ![a.phy][a.mmd] = phyData] ELSE phyAddr
  /\ phyReg' = IF a.to = "cmd" /\ a.op = "write"
               THEN [phyReg EXCEPT ![a.phy][a.mmd][phyAddr[a.phy][a.mmd]] = phyData]
               ELSE phyReg
  /\ mapDA' = IF a.to = "mapDA" THEN [mapDA EXCEPT ![a.port] = a.on] ELSE mapDA
  /\ vlan' = IF a.to = "vlan"
             THEN [vlan EXCEPT ![a.port] =
                     (a.members \ {LastPort}) \cup (IF hi THEN {LastPort} ELSE {})]
             ELSE vlan
  /\ UNCHANGED hi

Second(c) ==
  /\ pc[c] = "second"
  /\ IF Reading(c) THEN UNCHANGED switch ELSE Written(Access(c))
  /\ Advance(c, IF hi THEN "0" ELSE got[c])
  /\ UNCHANGED call

SecondFails(c) ==
  /\ call[c].api \in Failing
  /\ pc[c] = "second"
  /\ \/ UNCHANGED switch
     \/ ~Reading(c) /\ Written(Access(c))
  /\ IF StopsAtError(call[c]) THEN Return(c, ErrorResult(call[c])) ELSE Advance(c, "0")
  /\ UNCHANGED call

Next ==
  \E c \in Clients :
    \/ \E cmd \in Calls : Call(c, cmd)
    \/ First(c) \/ FirstFails(c) \/ Second(c) \/ SecondFails(c)

Spec == Init /\ [][Next]_vars

-----------------------------------------------------------------------------
(* Properties *)

Finished(c, api) == pc[c] = "idle" /\ out[c] # "none" /\ call[c].api = api
ModeOf(phy) == phyReg[phy]["pma"]["0x834"]

(***************************************************************************)
(* What the commands say of a PHY is so when no mode is changed by another *)
(* client: getPhyMode shows the mode of the PHY (README.md: "see Port      *)
(* Slave/Master mode"), and setPhyMode that returns 0 has set it.          *)
(***************************************************************************)
ToldModeIsSet ==
  \A c \in Clients :
    /\ Finished(c, "get") /\ out[c] = "Master" => ModeOf(call[c].phy) = "master"
    /\ Finished(c, "get") /\ out[c] = "Slave" => ModeOf(call[c].phy) = "slave"
    /\ Finished(c, "set") /\ out[c] = "0" => ModeOf(call[c].phy) = call[c].mode

(***************************************************************************)
(* No command writes a PHY register other than the mode and the            *)
(* auto-negotiation control, nor a value that is not meant for it.         *)
(***************************************************************************)
NoStrayWrite ==
  \A p \in Phys, m \in Mmds, w \in Words :
    \/ phyReg[p][m][w] = "0"
    \/ m = "pma" /\ w = "0x834" /\ phyReg[p][m][w] \in {"master", "slave"}
    \/ m = "an" /\ w = "0x200" /\ phyReg[p][m][w] = "0x1000"

(***************************************************************************)
(* What is reported of port VLANs is so: after "VLAN for DQAC bind" each   *)
(* of the two ports sends to the other one only, and after "Reset Port     *)
(* Based Vlan Success" (customize.c:100) every port to all the others.     *)
(***************************************************************************)
VlanIsDone ==
  \A c \in Clients :
    /\ Finished(c, "bind") =>
         LET a == call[c].a
             b == call[c].b
         IN vlan[a] = {b} /\ vlan[b] = {a} /\ ~mapDA[a] /\ ~mapDA[b]
    /\ Finished(c, "reset") =>
         \A p \in Ports : vlan[p] = Ports \ {p} /\ mapDA[p]
=============================================================================
