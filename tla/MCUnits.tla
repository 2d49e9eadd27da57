------------------------------ MODULE MCUnits -------------------------------
(* The catalogues of two device families as an instance of RegisterUnit.    *)
EXTENDS RegisterUnit, UnitPrograms

S == INSTANCE SpruceUnits
P == INSTANCE PeridotUnits

(* Where functions without semaphore share a unit, its other operations are *)
(* here once more under the name of a family of their own, as in a program  *)
(* that does not call these functions; and the largest of these units are   *)
(* taken in pieces.                                                         *)
Without(c, ops) == [o \in DOMAIN c \ ops |-> c[o]]
Only(c, ops) == Without(c, DOMAIN c \ ops)
Qbv == {"qbvWrite", "qbvRead"}
EntryCounts == {"atuGetStatsSplit", "gecidGetEntryCount"}

AtuWithStats == {Without(S!Atu, {"gBpeEnableSet"}),
                 Only(S!Atu, {"gBpeEnableSet", "atuGetStats"})}
SplitWithCounts == {Only(S!SplitAtu, {o}) : o \in EntryCounts}
PhyPieces == {Only(S!Phy, {"phySet", "c45Get", "pagedGet"}),
              Only(S!Phy, {"phyGet", "c45Set", "setSMISetup"}),
              Only(S!Phy, {"pagedSet", "getSMISetup"})}
PhyAccesses == {"phySet", "phyGet"}
Interrupts == {"gphySetIntEnable", "gphyGetIntStatus"}
GphyWithAccess == {Only(P!PhyAccess @@ P!Gphy, ops) :
                     ops \in {{"gphySetIntEnable", "phyGet"}, {"gphyGetIntStatus", "phySet"}}}
AvbWithQbv == Only(P!Ptp, {"avbWrite", "avbRead", "avbReadMultiple"} \union Qbv)

Catalogues ==
  {Family("spruce", c) : c \in {S!Vtu, S!Tcam, S!Pirl, S!Rmon, S!Eeprom, S!Pointers,
                                S!Policy, S!ExtPort, S!TrunkMask, S!TrunkRoute, S!Ptp,
                                S!PtpPoint, S!Tod}
                          \union AtuWithStats \union SplitWithCounts \union PhyPieces}
    \union
  {Family("spruce locked", c) : c \in {Without(S!Atu, {"atuGetStats"}),
                                       Without(S!SplitAtu, EntryCounts),
                                       Without(S!TrunkMask, {"setHash"}),
                                       Without(S!Ptp, Qbv)}}
    \union
  {Family("peridot", c) : c \in {P!Vtu, P!Atu, P!Tcam, P!Pirl, P!Rmon,
                                 P!Eeprom, P!Imp, P!Pointers, P!MonitorMgmt, P!TrunkMask,
                                 AvbWithQbv} \union GphyWithAccess}
    \union
  {Family("peridot locked", c) : c \in {Without(P!TrunkMask, {"setHash"}),
                                        Without(P!Ptp, Qbv), P!Gphy}}
    \union
  {Family("topaz", c) : c \in {P!TopazVtu, P!TopazRmon, P!TrunkRoute}}

AllUnits == {DOMAIN c : c \in Catalogues}
Joined[cs \in SUBSET Catalogues] ==
  IF cs = {} THEN <<>>
  ELSE LET c == CHOOSE c \in cs : TRUE IN c @@ Joined[cs \ {c}]
AllPrograms == Joined[Catalogues]

(* The operations that do not keep the rules, and why.                      *)
WritesEarly ==                                         \* before they wait
  {"atuLoadSplit", "atuGetNextSplit", "atuFlushSplit", "atuServiceSplit",
   "EEPROM_Read", "setSMISetup", "pointGet", "todStore"}
CarelessIn(family) == CASE family = "spruce" ->
  WritesEarly
    \union {"stuLoad", "stuPurge", "stuGetNext"}       \* clear the VTU mode
    \union {"gvtuGetViolation"}                        \* reads after the give
    \union {"tcamEgrFlush", "arpFlush", "rcFlushAll", "rcFlushEntry",
            "compFlushAll", "compFlushPort"}           \* write after the command
    \union {"tcamFlush", "tcamRead", "tcamGetNext"}    \* rely on the block
    \union {"rcRead", "rcGetNext", "todCapture"}       \* read without a wait
    \union {"gpolicySetMgmtCtrl", "gpolicyGetMgmtCtrl"}  \* give up waiting and go on
    \union {"phySet", "phyGet", "c45Set", "c45Get", "pagedSet", "pagedGet", "getSMISetup",
            "atuGetStats", "setHash"} \union Qbv \union EntryCounts   \* take no semaphore
    \union {"setMask", "getMask", "ptpWrite", "ptpRead", "ptpReadMultiple",
            "ptpReadTimestamp"}                        \* disturbed by those that take none
  [] family = "spruce locked" -> WritesEarly
  [] family = "peridot locked" -> {}
  [] family = "peridot" ->
  {"stuLoad", "stuPurge", "stuGetNext"}
    \union {"gvtuGetViolation", "EEPROM_Read"}
    \union {"atuGetStats", "setHash"} \union Qbv \union PhyAccesses   \* take no semaphore
    \union Interrupts \union {"setMask", "getMask",
            "avbWrite", "avbRead", "avbReadMultiple"}  \* disturbed by those that take none
    \union {"tcamEgrFlush"}                            \* writes after the command
    \union {"impRun", "impReset", "impPointEEPROM", "impLoadToRAM",
            "impStop"}                                 \* never wait
  [] family = "topaz" ->
  {"stuLoad", "stuPurge", "stuGetNext", "gvtuGetViolation",
   "statsFlush"}                                       \* two commands in a row

AllCareful == {o \in UNION AllUnits : o[1] \notin CarelessIn(o[2])}

AllFields ==
  LET programs == UNION {{c[o] : o \in DOMAIN c} : c \in Catalogues}
      steps == UNION {{p[i] : i \in DOMAIN p} : p \in programs}
  IN UNION {DOMAIN s.writes \union DOMAIN s.need \union s.reads : s \in steps}
AllValues == {"past", "reset", "atu", "ecid", "0", "arp", "rc", "action", "comp", "all"}
AllReset == [f \in AllFields |-> IF f = "block" THEN "0" ELSE "past"]

(* TLC evaluates a definition once, but what a constant stands for whenever *)
(* the constant is used: each of these is only a name of what is evaluated  *)
(* once, and the LET keeps TLC from counting, for its statistics, every     *)
(* place in the catalogues anew at every use.                               *)
MCProgram == LET all == AllPrograms IN all
MCUnits == LET all == AllUnits IN all
MCCareful == LET all == AllCareful IN all
MCFields == LET all == AllFields IN all
MCReset == LET all == AllReset IN all
MCValues == LET all == AllValues IN all

(* The classification above is exact.                                       *)
ASSUME Classified ==
  /\ RulesHold
  /\ \A o \in Ops \ CarefulOps : ~(Careful(Program[o]) /\ Sheltered(o))
=============================================================================
