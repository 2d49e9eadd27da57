---------------------------- MODULE SpruceUnits -----------------------------
(***************************************************************************)
(* The operations of the Spruce API on units of the switch, as programs    *)
(* for RegisterUnit: the order in which each C function takes the          *)
(* semaphore, waits, writes operands, writes the command, reads the answer *)
(* and returns.                                                            *)
(***************************************************************************)
EXTENDS UnitPrograms

-----------------------------------------------------------------------------
(* VLAN and STU tables: one command register, in which the VTU mode is      *)
(* kept, under vtuRegsSem.                                                  *)

vtuOperationPerform(operands, uses, answer) ==
  <<take, wait>> \o operands
    \o <<read({"mode"}), cmd("mode" :> "saved", own(uses))>>
    \o answer \o <<give>>

(* The members, in registers ms, are written and read as the family does it.*)
vtuLoadOf(members, ms) ==
  vtuOperationPerform(members \o <<set("vid"), set("sid"), set("fid")>>,
                      ms \union {"vid", "sid", "fid"}, <<>>)
vtuPurgeOf(members) == vtuOperationPerform(members \o <<set("vid")>>, {"vid"}, <<>>)
vtuGetNextOf(answer) ==
  vtuOperationPerform(<<set("vid")>>, {"vid"}, <<wait, get, stop>> \o answer)

\* The ports 0 to 7 and 11 are in an extended register.
Members == {"data1", "data1High", "data2"}
setMembers == setWide("data1", "data1High") \o <<set("data2")>>
getMembers == getWide("data1")
vtuLoad == vtuLoadOf(setMembers, Members)
vtuPurge == vtuPurgeOf(setMembers)
vtuFlush == vtuOperationPerform(<<>>, {}, <<>>)
vtuGetNext == vtuGetNextOf(getMembers)
vtuService == vtuOperationPerform(<<>>, {}, <<wait, get>>)

gvtuGetViolation == <<LookOnly, stop>> \o vtuService \o <<get>>
gvtuSetMode == <<take, wait>> \o setField("mode", "own", {"mode"}) \o <<give>>
gvtuGetMode == <<take, wait, LookOnly, give>>

(* The STU's command is written without the bits read before.               *)
stuOperationPerform(operands, uses, answer) ==
  <<take, wait>> \o operands
    \o <<set("sid"), cmd("mode" :> "reset", own(uses \union {"sid"}))>>
    \o answer \o <<give>>

stuLoadOf(data, ds) == stuOperationPerform(data \o <<set("vid")>>, ds \union {"vid"}, <<>>)
stuGetNextOf(answer) == stuOperationPerform(<<>>, {}, <<wait, get, stop>> \o answer)

stuLoad == stuLoadOf(setMembers, Members)
stuPurge == stuOperationPerform(<<set("vid")>>, {"vid"}, <<>>)
stuGetNext == stuGetNextOf(getMembers)

Vtu == [vtuLoad |-> vtuLoad, vtuPurge |-> vtuPurge, vtuFlush |-> vtuFlush,
        vtuGetNext |-> vtuGetNext, gvtuGetViolation |-> gvtuGetViolation,
        gvtuSetMode |-> gvtuSetMode, gvtuGetMode |-> gvtuGetMode,
        stuLoad |-> stuLoad, stuPurge |-> stuPurge, stuGetNext |-> stuGetNext]

-----------------------------------------------------------------------------
(* Address and E-CID tables, under atuRegsSem.  Bit 15 of the FID register  *)
(* says whether the ATU is split between the two, bit 14 which of them an   *)
(* operation is about, the others hold the operand.                         *)

FidRegister == {"fid", "table", "split"}

(* splitAtu: bit 15 was read as 1. *)
atuOperationPerform(splitAtu, operands, uses, answer) ==
  <<take, read({"split"})>>
    \o (IF splitAtu THEN setField("table", "atu", FidRegister) ELSE <<>>)
    \o <<wait>> \o operands \o setField("fid", "own", FidRegister)
    \o <<LookOnly,
         run(own(uses \union {"fid"}) @@ (IF splitAtu THEN "table" :> "atu" ELSE <<>>))>>
    \o answer \o <<give>>

(* The data of an entry are in an extended register; those of a flush are   *)
(* written without the high half.                                           *)
setData == setWide("data", "dataHigh")
atuLoad(split) == atuOperationPerform(split, setData \o <<set("mac")>>,
                                      {"data", "dataHigh", "mac"}, <<>>)
atuGetNext(split) ==
  atuOperationPerform(split, <<set("mac")>>, {"mac"}, <<wait, get>> \o getWide("data"))
atuFlush(split) == atuOperationPerform(split, <<set("data")>>, {"data"}, <<>>)
atuService(split) == atuOperationPerform(split, <<>>, {}, <<wait, get, stop, get>>)

ecidOperationPerform(operands, uses, answer) ==
  <<read({"split"}), stop, take, wait>> \o setField("table", "ecid", FidRegister)
    \o operands \o <<LookOnly, run(own(uses) @@ "table" :> "ecid")>> \o answer \o <<give>>

ecidLoad == ecidOperationPerform(<<set("mac")>> \o setData
                                   \o setField("fid", "own", FidRegister),
                                 {"mac", "data", "dataHigh", "fid"}, <<>>)
ecidGetNext ==
  ecidOperationPerform(<<set("mac")>>, {"mac"}, <<wait, get>> \o getWide("data"))
ecidFlush == ecidOperationPerform(setData, {"data", "dataHigh"}, <<>>)

gBpeEnableSet == <<take, wait>> \o setField("split", "own", FidRegister) \o <<give>>

(* Statistics: mode and bin are selected in a register of their own, and a  *)
(* search makes the unit count.  Only the search takes the semaphore.  One  *)
(* of the four or eight bins.                                               *)
selectBin == put(own({"bin", "count"}))
lookBin == look(own({"bin", "count"}))
atuBin(search) ==
  <<selectBin>> \o search \o setField("bin", "own", {"bin", "count"}) \o <<lookBin>>
atuGetStats(split) ==
  <<read({"split"})>>
    \o (IF split THEN setField("table", "atu", FidRegister) ELSE <<>>)
    \o atuBin(atuGetNext(split))

(* A failure to select the table also gives the semaphore, which the call   *)
(* has not taken; this is left out.                                         *)
ecidBin == <<selectBin, lookBin>>
gecidGetEntryCount ==
  <<read({"split"}), stop>> \o setField("table", "ecid", FidRegister)
    \o <<selectBin>> \o ecidGetNext \o ecidBin

Atu == [atuLoad |-> atuLoad(FALSE), atuGetNext |-> atuGetNext(FALSE),
        atuFlush |-> atuFlush(FALSE), atuService |-> atuService(FALSE),
        atuGetStats |-> atuGetStats(FALSE), gBpeEnableSet |-> gBpeEnableSet]

SplitAtu == [atuLoadSplit |-> atuLoad(TRUE), atuGetNextSplit |-> atuGetNext(TRUE),
             atuFlushSplit |-> atuFlush(TRUE), atuServiceSplit |-> atuService(TRUE),
             atuGetStatsSplit |-> atuGetStats(TRUE),
             ecidLoad |-> ecidLoad, ecidGetNext |-> ecidGetNext, ecidFlush |-> ecidFlush,
             gecidGetEntryCount |-> gecidGetEntryCount,
             bpeEnableSet |-> gBpeEnableSet]

-----------------------------------------------------------------------------
(* TCAM, ARP, range check and comparator tables: one command register under *)
(* tblRegsSem; an extension register selects the block of pages, and the    *)
(* port.  The tables other than the TCAM change the block back to 0, "in    *)
(* case other misoperation": TCAM operations rely on block 0.               *)

block(b) == put("block" :> b)
loadPage(b) == <<set("data"), run(own({"data"}) @@ "block" :> b), wait>>
readPage(b) == <<run("block" :> b), wait, get, wait>>
nextEntry(b) == <<run("block" :> b), wait, get, stop>>

tcamFlush == <<take, wait, run("block" :> "0"), give>>
tcamLoad == <<take, wait, block("0")>> \o loadPage("0") \o loadPage("0") \o loadPage("0")
              \o <<give>>
tcamFetch == readPage("0") \o readPage("0") \o <<block("0")>> \o readPage("0") \o <<give>>
tcamRead == <<take, wait>> \o tcamFetch
tcamGetNext == <<take, wait>> \o nextEntry("0") \o tcamFetch

(* The egress TCAM: block 0, and the port in the same register.             *)
tcamEgrFlush == <<take, wait, block("own"), run("block" :> "own"), block("0"), give>>
tcamEgrLoad == <<take, wait, block("own")>> \o loadPage("own") \o <<give>>
tcamEgrFetch == <<block("own")>> \o readPage("own") \o <<give>>
tcamEgrRead == <<take, wait>> \o tcamEgrFetch
tcamEgrGetNext == <<take, wait, block("own"), put(<<>>)>> \o nextEntry("own") \o tcamEgrFetch

arpBegin == <<take, wait, block("arp")>>
arpEnd == <<block("0"), wait, give>>
arpFlush == arpBegin \o <<run("block" :> "arp")>> \o arpEnd
arpLoad == arpBegin \o <<block("arp")>> \o loadPage("arp") \o arpEnd
arpFetch == <<run("block" :> "arp"), wait, block("arp"), get, wait>> \o arpEnd
arpRead == arpBegin \o arpFetch
arpGetNext == arpBegin \o nextEntry("arp") \o arpFetch

rcBegin == <<take, wait, block("rc")>>
rcEnd == <<block("0"), wait, give>>
rcFlushAll == rcBegin \o <<block("all"), run("block" :> "all")>> \o rcEnd
rcFlushEntry == rcBegin \o <<run("block" :> "rc")>> \o rcEnd
rcLoad == rcBegin \o <<block("rc")>> \o loadPage("rc") \o <<block("action")>>
            \o loadPage("action") \o rcEnd
(* Here the page is read without waiting for the command.                   *)
rcPage(b) == <<block(b), wait, run("block" :> b), get, wait>>
rcFetch == rcPage("rc") \o rcPage("action") \o rcEnd
rcRead == rcBegin \o rcFetch
rcGetNext == rcBegin \o nextEntry("rc") \o rcFetch

compBegin == <<take, wait, block("comp")>>
compEnd == <<block("0"), wait, give>>
compFlushAll == compBegin \o <<block("all"), run("block" :> "all")>> \o compEnd
compFlushPort == compBegin \o <<block("own"), run("block" :> "own")>> \o compEnd
compLoad == compBegin \o <<block("own")>> \o loadPage("own") \o compEnd
compRead == compBegin \o <<block("own")>> \o readPage("own") \o compEnd

Tcam == [tcamFlush |-> tcamFlush, tcamLoad |-> tcamLoad, tcamRead |-> tcamRead,
         tcamGetNext |-> tcamGetNext, tcamEgrFlush |-> tcamEgrFlush,
         tcamEgrLoad |-> tcamEgrLoad, tcamEgrRead |-> tcamEgrRead,
         tcamEgrGetNext |-> tcamEgrGetNext,
         arpFlush |-> arpFlush, arpLoad |-> arpLoad, arpRead |-> arpRead,
         arpGetNext |-> arpGetNext,
         rcFlushAll |-> rcFlushAll, rcFlushEntry |-> rcFlushEntry, rcLoad |-> rcLoad,
         rcRead |-> rcRead, rcGetNext |-> rcGetNext,
         compFlushAll |-> compFlushAll, compFlushPort |-> compFlushPort,
         compLoad |-> compLoad, compRead |-> compRead]

-----------------------------------------------------------------------------
(* Ingress rate limits (pirlRegsSem) and counters (statsRegsSem).           *)

pirlInit == <<take, wait, run(<<>>), wait, give>>
pirlWrite == <<take, wait, set("data"), run(own({"data"})), wait, give>>
pirlRead == <<take, wait, run(<<>>), wait, get, give>>
Pirl == [pirlInit |-> pirlInit, pirlWrite |-> pirlWrite, pirlRead |-> pirlRead]

statsReadCounter == <<wait, run(<<>>), wait, get>>
statsFlush == <<take, wait, LookOnly, run(<<>>), give>>
statsRead == <<take, wait, LookOnly>> \o statsReadCounter \o <<give>>
\* Two of the counters, one after the other.
statsReadAll == <<take, wait, LookOnly>> \o statsReadCounter \o statsReadCounter \o <<give>>
Rmon == [statsFlush |-> statsFlush, statsRead |-> statsRead, statsReadAll |-> statsReadAll]

(* EEPROM, under tblRegsSem.                                                *)
EEPROM_Write == <<take, wait, set("addr"), run(own({"addr"})), wait, give>>
EEPROM_Read == <<take, set("addr"), wait, run(own({"addr"})), wait, get, give>>
EEPROM_Chip_Select_Set == <<take, wait, run(<<>>), give>>
EEPROM_Chip_Select_Get == <<take, wait, run(<<>>), wait, get, give>>
Eeprom == [EEPROM_Write |-> EEPROM_Write, EEPROM_Read |-> EEPROM_Read,
           chipSelSet |-> EEPROM_Chip_Select_Set, chipSelGet |-> EEPROM_Chip_Select_Get]

-----------------------------------------------------------------------------
(* Registers with a pointer, under tblRegsSem: a write with the busy bit    *)
(* updates what the pointer selects, a read follows a write without it.     *)

PointerWrite == <<take, wait, run(<<>>), give>>
PointerRead == <<take, wait, set("ptr"), look(own({"ptr"})), give>>

LedCtrl_Write == PointerWrite
LedCtrl_Read == PointerRead
gprtSetIEEEPrioMap == PointerWrite
gprtGetIEEEPrioMap == PointerRead
gprtSetQueueCtrl == PointerWrite
gprtGetQueueCtrl == PointerRead
writeFlowCtrlReg == PointerWrite
readFlowCtrlReg == <<take, wait, set("ptr"), wait, look(own({"ptr"})), give>>
\* One entry of the weight table, and its length.
gsysSetQoSWeight == <<take, wait, run(<<>>), wait, run(<<>>), give>>
gsysGetQoSWeight == <<take, wait, set("ptr"), look(own({"ptr"})),
                      set("ptr"), look(own({"ptr"})), give>>

(* The bounded loop of the policy registers goes on when it gives up.       *)
gpolicySetMgmtCtrl == <<take, poll, run(<<>>), give>>
gpolicyGetMgmtCtrl == <<take, poll, set("ptr"), look(own({"ptr"})), give>>

Pointers == [LedCtrl_Write |-> LedCtrl_Write, LedCtrl_Read |-> LedCtrl_Read,
             setIEEEPrioMap |-> gprtSetIEEEPrioMap, getIEEEPrioMap |-> gprtGetIEEEPrioMap,
             setQueueCtrl |-> gprtSetQueueCtrl, getQueueCtrl |-> gprtGetQueueCtrl,
             setQoSWeight |-> gsysSetQoSWeight, getQoSWeight |-> gsysGetQoSWeight,
             writeFlowCtrl |-> writeFlowCtrlReg, readFlowCtrl |-> readFlowCtrlReg]
Policy == [gpolicySetMgmtCtrl |-> gpolicySetMgmtCtrl,
           gpolicyGetMgmtCtrl |-> gpolicyGetMgmtCtrl]

(* Extended port control: a command and a data register.                    *)
writeExtendedPortCtrlReg == <<take, wait, set("data"), run(own({"data"})), wait, give>>
readExtendedPortCtrlReg == <<take, wait, run(<<>>), wait, get, give>>
ExtPort == [extWrite |-> writeExtendedPortCtrlReg, extRead |-> readExtendedPortCtrlReg]

(* Trunk masks: the hash setting is a bit of the command register, which is *)
(* extended, as that of the routes is.  The hash is set without semaphore.  *)
hashKept == "hash" :> "saved"
setTrunkMaskTable(half, uses) ==
  <<take, wait, read({"hash"})>> \o half \o <<cmd(hashKept, own(uses)), give>>
getTrunkMaskTable(looks) ==
  <<take, wait, read({"hash"}), put(hashKept @@ own({"ptr"}))>> \o looks \o <<give>>
gsysSetTrunkMaskTable == setTrunkMaskTable(<<putHalf("high")>>, {"high"})
gsysGetTrunkMaskTable == getTrunkMaskTable(lookWide("mask", own({"ptr"})))
gsysSetHashTrunk == setField("hash", "own", {"hash", "ptr"})
gsysSetTrunkRouting ==
  <<take, wait, set("misc"), putHalf("high"), run(own({"misc", "high"})), give>>
gsysGetTrunkRouting ==
  <<take, wait, set("misc"), set("ptr")>> \o lookWide("route", own({"misc", "ptr"})) \o <<give>>
TrunkMask == [setMask |-> gsysSetTrunkMaskTable, getMask |-> gsysGetTrunkMaskTable,
              setHash |-> gsysSetHashTrunk]
TrunkRoute == [setRoute |-> gsysSetTrunkRouting, getRoute |-> gsysGetTrunkRouting]

-----------------------------------------------------------------------------
(* PTP, AVB (ptpRegsSem) and Qbv share a command and a data register; Qbv   *)
(* takes no semaphore.                                                      *)

ptpWrite == <<take, wait, set("data"), run(own({"data"})), wait, give>>
ptpRead == <<take, wait, run(<<>>), wait, get, wait, give>>
ptpReadMultiple == <<take, wait, run(<<>>), wait, get, get, wait, give>>
ptpReadTimestamp == <<take, wait, run(<<>>), wait, get, stop, get,
                      set("data"), run(own({"data"})), wait, give>>
qbvWrite == <<set("data"), wait, run(own({"data"}))>>
qbvRead == <<wait, run(<<>>), get>>
Ptp == [ptpWrite |-> ptpWrite, ptpRead |-> ptpRead, ptpReadMultiple |-> ptpReadMultiple,
        ptpReadTimestamp |-> ptpReadTimestamp, qbvWrite |-> qbvWrite, qbvRead |-> qbvRead]

(* The PTP global register with a pointer, under ptpModeSem.                *)
ptpPointDataSet == PointerWrite
ptpPointDataGet == <<take, set("ptr"), wait, look(own({"ptr"})), give>>
PtpPoint == [pointSet |-> ptpPointDataSet, pointGet |-> ptpPointDataGet]

(* Time of day arrays, under ptpTodSem, which is taken after the busy bit   *)
(* was found clear.                                                         *)
todStore == <<test, take, set("data"), run(own({"data"})), give>>
todCapture == <<test, take, LookOnly, run(<<>>), get, give>>
Tod == [todStore |-> todStore, todCapture |-> todCapture]

-----------------------------------------------------------------------------
(* SMI PHY registers: one data and one command register, no semaphore.      *)

phySet == <<wait, set("data"), run(own({"data"}))>>
phyGet == <<wait, run(<<>>), wait, get>>
c45Set == <<wait, set("addr"), run(own({"addr"})), wait, set("addr"), run(own({"addr"}))>>
\* The read is commanded without waiting for the address.
c45Get == <<wait, set("addr"), run(own({"addr"})), run(<<>>), wait, get>>
\* The page is selected by a write of its own.
pagedSet == phySet \o phySet
pagedGet == phySet \o phyGet
setSMISetup == <<set("data"), wait, run(own({"data"})), wait>>
getSMISetup == <<wait, run(<<>>), wait, get>>
Phy == [phySet |-> phySet, phyGet |-> phyGet, c45Set |-> c45Set, c45Get |-> c45Get,
        pagedSet |-> pagedSet, pagedGet |-> pagedGet,
        setSMISetup |-> setSMISetup, getSMISetup |-> getSMISetup]
=============================================================================
