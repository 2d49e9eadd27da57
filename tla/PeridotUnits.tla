---------------------------- MODULE PeridotUnits ----------------------------
(***************************************************************************)
(* The same for the Peridot API, whose functions Topaz, Agate and Pearl    *)
(* repeat, and for the functions that Topaz has instead.  "SP!" marks the   *)
(* ones that work in the same order as those of Spruce.                     *)
(***************************************************************************)
EXTENDS UnitPrograms

SP == INSTANCE SpruceUnits

-----------------------------------------------------------------------------
(* VLAN and STU tables. *)

setMembers == <<set("data1"), set("data2")>>
stuLoad == SP!stuLoadOf(setMembers, {"data1", "data2"})
stuGetNext == SP!stuGetNextOf(<<get>>)
Vtu == [vtuLoad |-> SP!vtuLoadOf(setMembers, {"data1", "data2"}),
        vtuPurge |-> SP!vtuPurgeOf(setMembers), vtuFlush |-> SP!vtuFlush,
        vtuGetNext |-> SP!vtuGetNextOf(<<get>>), gvtuGetViolation |-> SP!gvtuGetViolation,
        gvtuSetMode |-> SP!gvtuSetMode, gvtuGetMode |-> SP!gvtuGetMode,
        stuLoad |-> stuLoad, stuPurge |-> SP!stuPurge, stuGetNext |-> stuGetNext]

(* Topaz has no VTU mode, and writes the command without reading it first.  *)
topazVtuOperationPerform(operands, uses, answer) ==
  <<take, wait>> \o operands \o <<run(own(uses))>> \o answer \o <<give>>

topazMembers == <<set("data1"), set("data2"), set("data3")>>
topazVtuLoad ==
  topazVtuOperationPerform(topazMembers \o <<set("vid"), set("sid"), set("fid")>>,
                           {"data1", "data2", "data3", "vid", "sid", "fid"}, <<>>)
topazVtuPurge == topazVtuOperationPerform(topazMembers \o <<set("vid")>>, {"vid"}, <<>>)
topazVtuFlush == topazVtuOperationPerform(<<>>, {}, <<>>)
topazVtuGetNext == topazVtuOperationPerform(<<set("vid")>>, {"vid"}, <<wait, get, stop, get>>)
topazVtuService == topazVtuOperationPerform(<<>>, {}, <<wait, get, get>>)
topazGetViolation == <<LookOnly, stop>> \o topazVtuService \o <<get>>

TopazVtu == [vtuLoad |-> topazVtuLoad, vtuPurge |-> topazVtuPurge,
             vtuFlush |-> topazVtuFlush, vtuGetNext |-> topazVtuGetNext,
             gvtuGetViolation |-> topazGetViolation,
             stuLoad |-> stuLoad, stuPurge |-> SP!stuPurge, stuGetNext |-> stuGetNext]

-----------------------------------------------------------------------------
(* Address table: no E-CID table shares it, and the rest of the register    *)
(* with the FID is kept as it is.                                           *)

atuOperationPerform(operands, uses, answer) ==
  <<take, wait>> \o operands \o setField("fid", "own", {"fid"})
    \o <<LookOnly, run(own(uses \union {"fid"}))>> \o answer \o <<give>>

atuLoad == atuOperationPerform(<<set("data"), set("mac")>>, {"data", "mac"}, <<>>)
atuGetNext == atuOperationPerform(<<set("mac")>>, {"mac"}, <<wait, get>>)
atuFlush == atuOperationPerform(<<set("data")>>, {"data"}, <<>>)
atuService == atuOperationPerform(<<>>, {}, <<wait, get, stop, get>>)

(* One of the four bins. *)
atuGetStats == SP!atuBin(atuGetNext)

Atu == [atuLoad |-> atuLoad, atuGetNext |-> atuGetNext, atuFlush |-> atuFlush,
        atuService |-> atuService, atuGetStats |-> atuGetStats]

-----------------------------------------------------------------------------
(* TCAM without blocks; the port of the egress TCAM has its own register.   *)

loadPage == <<set("data"), run(own({"data"})), wait>>
readPage == <<run(<<>>), wait, get, wait>>
tcamFlush == <<take, wait, run(<<>>), give>>
tcamLoad == <<take, wait>> \o loadPage \o loadPage \o loadPage \o <<give>>
tcamFetch == readPage \o readPage \o readPage \o <<give>>
tcamRead == <<take, wait>> \o tcamFetch
tcamGetNext == <<take, wait, run(<<>>), wait, get, stop>> \o tcamFetch

port == set("port")
onPort(uses) == run(own(uses \union {"port"}))
tcamEgrFlush == <<take, wait, port, onPort({}), put("port" :> "0"), give>>
tcamEgrLoad == <<take, wait, port, set("data"), onPort({"data"}), wait, give>>
tcamEgrFetch == <<port, onPort({}), wait, get, wait, give>>
tcamEgrRead == <<take, wait>> \o tcamEgrFetch
tcamEgrGetNext == <<take, wait, port, put(<<>>), onPort({}), wait, get, stop>> \o tcamEgrFetch

Tcam == [tcamFlush |-> tcamFlush, tcamLoad |-> tcamLoad, tcamRead |-> tcamRead,
         tcamGetNext |-> tcamGetNext, tcamEgrFlush |-> tcamEgrFlush,
         tcamEgrLoad |-> tcamEgrLoad, tcamEgrRead |-> tcamEgrRead,
         tcamEgrGetNext |-> tcamEgrGetNext]

-----------------------------------------------------------------------------
(* Rate limits and counters. *)

Pirl == [pirlInit |-> SP!pirlInit, pirlWrite |-> SP!pirlWrite, pirlRead |-> SP!pirlRead]

statsReadCounter == SP!statsReadCounter
Rmon == [statsFlush |-> SP!statsFlush, statsRead |-> SP!statsRead,
         statsReadAll |-> SP!statsReadAll]

(* Topaz flushes the two banks of counters with two commands in a row.      *)
topazStatsFlush == <<take, wait, run(<<>>), run(<<>>), give>>
topazStatsRead == <<take, wait>> \o statsReadCounter \o <<give>>
topazStatsReadAll == <<take, wait>> \o statsReadCounter \o statsReadCounter \o <<give>>
TopazRmon == [statsFlush |-> topazStatsFlush, statsRead |-> topazStatsRead,
              statsReadAll |-> topazStatsReadAll]

-----------------------------------------------------------------------------
(* EEPROM and the integrated processor, under tblRegsSem.  A load stops the *)
(* processor, points it elsewhere and writes into the EEPROM.               *)

impToEEPROM(writes) == <<take>> \o writes \o <<give>>
EEPROM_WriteOnly == <<wait, set("addr"), run(own({"addr"}))>>
Eeprom == [EEPROM_Write |-> SP!EEPROM_Write, EEPROM_Read |-> SP!EEPROM_Read,
           impWriteEEPROM |-> impToEEPROM(EEPROM_WriteOnly),
           \* Two of the bytes.
           impLoadToEEPROM |-> impToEEPROM(EEPROM_WriteOnly \o EEPROM_WriteOnly \o <<wait>>)]

IMP_Write == run(<<>>)
IMP_Read == <<set("ptr"), look(own({"ptr"}))>>
IMP_Stop == <<IMP_Write, IMP_Write, IMP_Write, IMP_Write, IMP_Write>>
IMP_Point == <<IMP_Write, IMP_Write, IMP_Write>>
impRun == <<take>> \o IMP_Stop \o IMP_Point \o <<IMP_Write, give>>
impReset == <<take>> \o IMP_Stop \o <<IMP_Write>> \o IMP_Read \o <<IMP_Write, give>>
impPointEEPROM == <<take>> \o IMP_Stop \o <<IMP_Write, IMP_Write, give>>
\* One of the bytes.
impLoadToRAM == <<take>> \o IMP_Stop \o <<IMP_Write, IMP_Write>> \o IMP_Point
                  \o <<IMP_Write, IMP_Write, give>>
impStop == <<take>> \o IMP_Stop \o <<give>>
Imp == [impRun |-> impRun, impReset |-> impReset, impPointEEPROM |-> impPointEEPROM,
        impLoadToRAM |-> impLoadToRAM, impStop |-> impStop]

-----------------------------------------------------------------------------
(* Registers with a pointer.  Where Spruce goes on after polling in vain,   *)
(* Peridot fails.                                                           *)

gsysSetMonitorMgmtCtrl == SP!PointerWrite
gsysGetMonitorMgmtCtrl == SP!PointerRead
MonitorMgmt == [setMgmt |-> gsysSetMonitorMgmtCtrl, getMgmt |-> gsysGetMonitorMgmtCtrl]

LedCtrl_Write == SP!PointerWrite
LedCtrl_Read == SP!PointerRead
gprtSetIEEEPrioMap == SP!PointerWrite
gprtGetIEEEPrioMap == SP!PointerRead
gprtSetQueueCtrl == SP!PointerWrite
gprtGetQueueCtrl == SP!PointerRead
\* Topaz: of the entries the first and the last, and their number.
gsysSetQoSWeight == <<take, wait, run(<<>>), wait, run(<<>>), wait, run(<<>>), give>>
Pointers == [LedCtrl_Write |-> LedCtrl_Write, LedCtrl_Read |-> LedCtrl_Read,
             setIEEEPrioMap |-> gprtSetIEEEPrioMap, getIEEEPrioMap |-> gprtGetIEEEPrioMap,
             setQueueCtrl |-> gprtSetQueueCtrl, getQueueCtrl |-> gprtGetQueueCtrl,
             setQoSWeight |-> gsysSetQoSWeight, getQoSWeight |-> SP!gsysGetQoSWeight,
             writeFlowCtrl |-> SP!writeFlowCtrlReg, readFlowCtrl |-> SP!readFlowCtrlReg]

gsysSetTrunkMaskTable == SP!setTrunkMaskTable(<<>>, {})
gsysGetTrunkMaskTable == SP!getTrunkMaskTable(<<look(own({"ptr"}))>>)
TrunkMask == [setMask |-> gsysSetTrunkMaskTable, getMask |-> gsysGetTrunkMaskTable,
              setHash |-> SP!gsysSetHashTrunk]
topazSetTrunkRouting == SP!PointerWrite
topazGetTrunkRouting == SP!PointerRead
TrunkRoute == [setRoute |-> topazSetTrunkRouting, getRoute |-> topazGetTrunkRouting]

-----------------------------------------------------------------------------
(* PTP and AVB: Topaz has functions of its own for AVB.  Qbv uses the same  *)
(* registers without semaphore; when an access fails it gives one, but that *)
(* of another unit.                                                         *)

avbWrite == <<take, wait, set("data"), run(own({"data"})), wait, give>>
avbRead == <<take, wait, run(<<>>), wait, get, wait, give>>
avbReadMultiple == <<take, wait, run(<<>>), wait, get, get, wait, give>>
Ptp == [ptpWrite |-> SP!ptpWrite, ptpRead |-> SP!ptpRead,
        ptpReadMultiple |-> SP!ptpReadMultiple, ptpReadTimestamp |-> SP!ptpReadTimestamp,
        avbWrite |-> avbWrite, avbRead |-> avbRead, avbReadMultiple |-> avbReadMultiple,
        qbvWrite |-> SP!qbvWrite, qbvRead |-> SP!qbvRead]

-----------------------------------------------------------------------------
(* PHYs, under phyRegsSem.  Register 22 selects the page; a function reads  *)
(* it at first, selects page 0 for each access and puts the page back.      *)

getSMIPhyReg == <<wait, run(<<>>), wait, get>>
selectPage(p) == <<wait, set("data"), cmd("page" :> p, own({"data"}))>>
savePage == <<wait, run(<<>>), wait, get, read({"page"})>>
restorePage == getSMIPhyReg \o selectPage("found")

WritePagedPhyReg == selectPage("0") \o <<wait, set("data"), run("page" :> "0" @@ own({"data"}))>>
ReadPagedPhyReg == selectPage("0") \o <<wait, run("page" :> "0"), wait, get>>
\* The page is selected once for the read and the write.
SetPagedPhyRegField ==
  ReadPagedPhyReg \o <<wait, set("data"), run("page" :> "0" @@ own({"data"}))>>

(* The reset bit is read back until it is clear; a PHY that is powered     *)
(* down is not reset, and this is left out.                                 *)
PhyReset == ReadPagedPhyReg \o WritePagedPhyReg \o ReadPagedPhyReg
\* Two reads in a row and two writes in a row are one.
SetAutoMode == ReadPagedPhyReg \o WritePagedPhyReg \o ReadPagedPhyReg \o WritePagedPhyReg
                 \o PhyReset

gphy(accesses) == <<take>> \o savePage \o accesses \o restorePage \o <<give>>
gphyReset == gphy(SetAutoMode)
gphySetPortAutoMode == gphy(SetAutoMode)
gphySetPortLoopback == gphy(SetPagedPhyRegField)
gphyPortPowerDown == gphy(SetPagedPhyRegField)
gphySetPortSpeed == gphy(ReadPagedPhyReg \o <<stop>> \o PhyReset)
gphySetPortDuplexMode == gphy(ReadPagedPhyReg \o PhyReset)

(* These leave page 0 selected. *)
gphySetFlowControlEnable == <<take>> \o ReadPagedPhyReg \o WritePagedPhyReg
                              \o ReadPagedPhyReg \o WritePagedPhyReg \o <<give>>
gphySetIntEnable == <<take>> \o WritePagedPhyReg \o <<give>>
gphyGetIntEnable == <<take>> \o ReadPagedPhyReg \o <<give>>
gphyGetIntStatus == <<take>> \o ReadPagedPhyReg \o <<give>>

Gphy == [gphyReset |-> gphyReset, gphySetPortLoopback |-> gphySetPortLoopback,
         gphySetPortSpeed |-> gphySetPortSpeed,
         gphySetPortDuplexMode |-> gphySetPortDuplexMode,
         gphyPortPowerDown |-> gphyPortPowerDown,
         gphySetPortAutoMode |-> gphySetPortAutoMode,
         gphySetFlowControlEnable |-> gphySetFlowControlEnable,
         gphySetIntEnable |-> gphySetIntEnable, gphyGetIntEnable |-> gphyGetIntEnable,
         gphyGetIntStatus |-> gphyGetIntStatus]

(* The same registers accessed without the semaphore, as the driver offers  *)
(* it to its user.  Of the registers of a PHY that can be written, the one  *)
(* that matters most is register 22.  The Clause 45 accesses are those of   *)
(* Spruce.                                                                  *)
phySet == <<wait, set("data"), cmd(own({"page"}), own({"data"}))>>
PhyAccess == [phySet |-> phySet, phyGet |-> getSMIPhyReg]
=============================================================================
