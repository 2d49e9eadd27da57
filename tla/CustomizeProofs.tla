-------------------------- MODULE CustomizeProofs ---------------------------
(***************************************************************************)
(* What the port tools guarantee to a client that is alone, for every      *)
(* number of ports, every choice of commands and every PHY.                *)
(***************************************************************************)
EXTENDS Customize, SequenceTheorems, TLAPS

-----------------------------------------------------------------------------
(* The accesses of each command, one by one. *)

AllAccesses ==
  [to : {"data"}, word : Words]
    \cup [to : {"cmd"}, op : {"address", "read", "write"}, mmd : Mmds, phy : Phys]
    \cup [to : {"mapDA"}, port : Ports, on : BOOLEAN]
    \cup [to : {"vlan"}, port : Ports, members : SUBSET Ports]
    \cup [to : {"read"}]

(***************************************************************************)
(* Four more accesses after a sequence of accesses.                        *)
(***************************************************************************)
LEMMA FourMore ==
  ASSUME NEW S, NEW x \in Seq(S),
         NEW y1 \in S, NEW y2 \in S, NEW y3 \in S, NEW y4 \in S
  PROVE  /\ x \o <<y1, y2, y3, y4>> \in Seq(S)
         /\ Len(x \o <<y1, y2, y3, y4>>) = Len(x) + 4
         /\ \A i \in 1 .. Len(x) : (x \o <<y1, y2, y3, y4>>)[i] = x[i]
         /\ (x \o <<y1, y2, y3, y4>>)[Len(x) + 1] = y1
         /\ (x \o <<y1, y2, y3, y4>>)[Len(x) + 2] = y2
         /\ (x \o <<y1, y2, y3, y4>>)[Len(x) + 3] = y3
         /\ (x \o <<y1, y2, y3, y4>>)[Len(x) + 4] = y4
<1> DEFINE y == <<y1, y2, y3, y4>>
<1>1. y \in Seq(S) /\ Len(y) = 4 /\ y[1] = y1 /\ y[2] = y2 /\ y[3] = y3 /\ y[4] = y4
  OBVIOUS
<1>2. Len(x) \in Nat
  OBVIOUS
<1> HIDE DEF y
<1>3. y \in Seq(S)
  BY <1>1
<1>4. /\ x \o y \in Seq(S) /\ Len(x \o y) = Len(x) + Len(y)
      /\ \A i \in 1 .. Len(x) + Len(y) : (x \o y)[i] =
           IF i <= Len(x) THEN x[i] ELSE y[i - Len(x)]
  BY <1>3, ConcatProperties, Zenon
<1> DEFINE s == x \o y
           n == Len(x)
<1>5. /\ s \in Seq(S) /\ Len(s) = n + 4
      /\ \A i \in 1 .. n : s[i] = x[i]
      /\ s[n + 1] = y1 /\ s[n + 2] = y2 /\ s[n + 3] = y3 /\ s[n + 4] = y4
  <2>1. \A i \in 1 .. n + 4 : s[i] = IF i <= n THEN x[i] ELSE y[i - n]
    BY <1>1, <1>4
  <2>2. n \in Nat /\ s \in Seq(S) /\ Len(s) = n + 4
    BY <1>1, <1>2, <1>4
  <2> HIDE DEF s, n
  <2>3. n + 1 - n = 1 /\ n + 2 - n = 2 /\ n + 3 - n = 3 /\ n + 4 - n = 4
    BY <2>2
  <2>4. /\ s[n + 1] = y[n + 1 - n] /\ s[n + 2] = y[n + 2 - n] /\ s[n + 3] = y[n + 3 - n]
        /\ s[n + 4] = y[n + 4 - n]
    BY <2>1, <2>2
  <2>5. \A i \in 1 .. n : s[i] = x[i]
    BY <2>1, <2>2
  <2> QED BY <1>1, <2>2, <2>3, <2>4, <2>5
<1> QED BY <1>5 DEF y

(***************************************************************************)
(* The accesses of checkPhyData (customize.c:38-86).                       *)
(***************************************************************************)
LEMMA CheckAccesses ==
  ASSUME NEW p
  PROVE  LET s == checkPhyData(p) IN
         /\ Len(s) = 4
         /\ s[1] = Data("0x834") /\ s[2] = Cmd("address", "pma", p)
         /\ s[3] = Cmd("read", "pma", p) /\ s[4] = ReadData
BY DEF checkPhyData

(***************************************************************************)
(* Those of setMasterOrSlave, with the check after it                      *)
(* (customize.c:143-204).                                                  *)
(***************************************************************************)
LEMMA SetAccesses ==
  ASSUME NEW p, NEW m
  PROVE  LET s == setMasterOrSlave(p, m) IN
         /\ Len(s) = 8
         /\ s[1] = Data("0x834") /\ s[2] = Cmd("address", "pma", p)
         /\ s[3] = Data(m) /\ s[4] = Cmd("write", "pma", p)
         /\ s[5] = Data("0x834") /\ s[6] = Cmd("address", "pma", p)
         /\ s[7] = Cmd("read", "pma", p) /\ s[8] = ReadData
<1> DEFINE a == <<Data("0x834"), Cmd("address", "pma", p), Data(m), Cmd("write", "pma", p)>>
           S == {Data("0x834"), Cmd("address", "pma", p), Data(m), Cmd("write", "pma", p),
                 Cmd("read", "pma", p), ReadData}
<1>1. /\ a \in Seq(S) /\ Len(a) = 4
      /\ a[1] = Data("0x834") /\ a[2] = Cmd("address", "pma", p)
      /\ a[3] = Data(m) /\ a[4] = Cmd("write", "pma", p)
  OBVIOUS
<1>2. /\ Data("0x834") \in S /\ Cmd("address", "pma", p) \in S
      /\ Cmd("read", "pma", p) \in S /\ ReadData \in S
  OBVIOUS
<1>3. setMasterOrSlave(p, m) =
        a \o <<Data("0x834"), Cmd("address", "pma", p), Cmd("read", "pma", p), ReadData>>
  BY DEF setMasterOrSlave, checkPhyData
<1> DEFINE b1 == Data("0x834") b2 == Cmd("address", "pma", p)
           b3 == Cmd("read", "pma", p) b4 == ReadData
           s == a \o <<b1, b2, b3, b4>>
<1> HIDE DEF a, S, b1, b2, b3, b4
<1>4. /\ Len(s) = Len(a) + 4 /\ \A i \in 1 .. Len(a) : s[i] = a[i]
      /\ s[Len(a) + 1] = b1 /\ s[Len(a) + 2] = b2 /\ s[Len(a) + 3] = b3 /\ s[Len(a) + 4] = b4
  <2>1. a \in Seq(S) /\ b1 \in S /\ b2 \in S /\ b3 \in S /\ b4 \in S
    BY <1>1, <1>2 DEF b1, b2, b3, b4
  <2> QED BY <2>1, FourMore, SMTT(30)
<1>5. setMasterOrSlave(p, m) = s
  BY <1>3 DEF b1, b2, b3, b4
<1> HIDE DEF s
<1>6. /\ Len(s) = 8
      /\ s[1] = a[1] /\ s[2] = a[2] /\ s[3] = a[3] /\ s[4] = a[4]
      /\ s[5] = b1 /\ s[6] = b2 /\ s[7] = b3 /\ s[8] = b4
  BY <1>1, <1>4
<1> QED BY <1>1, <1>5, <1>6 DEF b1, b2, b3, b4

\* The PHY of a port.
PhyOf(p) == IF p = SerdesPort THEN 0 ELSE p

\* s is the sequence of accesses that binds a and b.
Binds(s, a, b) ==
  /\ Len(s) = 12
  /\ s[1] = MapDA(a, FALSE) /\ s[2] = MapDA(b, FALSE)
  /\ s[3] = PortVlan(a, {b}) /\ s[4] = PortVlan(b, {a})
  /\ s[5] = Data("0x200") /\ s[6] = Cmd("address", "an", PhyOf(a))
  /\ s[7] = Data("0x1000") /\ s[8] = Cmd("write", "an", PhyOf(a))
  /\ s[9] = Data("0x200") /\ s[10] = Cmd("address", "an", PhyOf(b))
  /\ s[11] = Data("0x1000") /\ s[12] = Cmd("write", "an", PhyOf(b))

(***************************************************************************)
(* Those of setDQAVlan, with two PHYs to set (customize.c:104-141).        *)
(***************************************************************************)
LEMMA BindAccesses ==
  ASSUME NEW a, NEW b
  PROVE  Binds(setDQAVlan(a, b), a, b)
<1> DEFINE pa == PhyOf(a)
           pb == PhyOf(b)
           x == <<MapDA(a, FALSE), MapDA(b, FALSE), PortVlan(a, {b}), PortVlan(b, {a})>>
           y == x \o <<Data("0x200"), Cmd("address", "an", pa),
                       Data("0x1000"), Cmd("write", "an", pa)>>
           S == {MapDA(a, FALSE), MapDA(b, FALSE), PortVlan(a, {b}), PortVlan(b, {a}),
                 Data("0x200"), Cmd("address", "an", pa), Data("0x1000"), Cmd("write", "an", pa),
                 Cmd("address", "an", pb), Cmd("write", "an", pb)}
<1>1. /\ x \in Seq(S) /\ Len(x) = 4
      /\ x[1] = MapDA(a, FALSE) /\ x[2] = MapDA(b, FALSE)
      /\ x[3] = PortVlan(a, {b}) /\ x[4] = PortVlan(b, {a})
  <2> HIDE DEF pa, pb
  <2> QED OBVIOUS
<1>2. /\ Data("0x200") \in S /\ Cmd("address", "an", pa) \in S
      /\ Data("0x1000") \in S /\ Cmd("write", "an", pa) \in S
      /\ Cmd("address", "an", pb) \in S /\ Cmd("write", "an", pb) \in S
  <2> HIDE DEF pa, pb
  <2> QED OBVIOUS
<1>3. setDQAVlan(a, b) =
        y \o <<Data("0x200"), Cmd("address", "an", pb), Data("0x1000"), Cmd("write", "an", pb)>>
  BY Zenon DEF setDQAVlan, AutoNegotiation, PhyOf
<1> DEFINE b1 == Data("0x200") b2 == Cmd("address", "an", pa)
           b3 == Data("0x1000") b4 == Cmd("write", "an", pa)
           c2 == Cmd("address", "an", pb) c4 == Cmd("write", "an", pb)
           z == y \o <<b1, c2, b3, c4>>
<1>4. b1 \in S /\ b2 \in S /\ b3 \in S /\ b4 \in S /\ c2 \in S /\ c4 \in S
  BY <1>2
<1>5. setDQAVlan(a, b) = z
  BY <1>3
<1>6. y = x \o <<b1, b2, b3, b4>>
  OBVIOUS
<1> HIDE DEF x, y, S, b1, b2, b3, b4, c2, c4, pa, pb
<1>7. x \in Seq(S) /\ Len(x) = 4
  BY <1>1
<1>8. /\ y \in Seq(S) /\ Len(y) = 8
      /\ y[1] = x[1] /\ y[2] = x[2] /\ y[3] = x[3] /\ y[4] = x[4]
      /\ y[5] = b1 /\ y[6] = b2 /\ y[7] = b3 /\ y[8] = b4
  <2> DEFINE w == x \o <<b1, b2, b3, b4>>
  <2>4. x \in Seq(S)
    BY <1>7
  <2>3. w \in Seq(S)
    BY <1>4, <2>4, FourMore, SMTT(30)
  <2>1. /\ Len(w) = Len(x) + 4 /\ \A i \in 1 .. Len(x) : w[i] = x[i]
        /\ w[Len(x) + 1] = b1 /\ w[Len(x) + 2] = b2 /\ w[Len(x) + 3] = b3 /\ w[Len(x) + 4] = b4
    BY <1>4, <2>4, FourMore, SMTT(30)
  <2>2. y = w
    BY <1>6
  <2> HIDE DEF w
  <2> QED BY <1>7, <2>1, <2>2, <2>3
<1>9. /\ Len(z) = 12
      /\ \A i \in 1 .. 8 : z[i] = y[i]
      /\ z[9] = b1 /\ z[10] = c2 /\ z[11] = b3 /\ z[12] = c4
  <2>1. y \in Seq(S)
    BY <1>8
  <2>2. /\ Len(z) = Len(y) + 4 /\ \A i \in 1 .. Len(y) : z[i] = y[i]
        /\ z[Len(y) + 1] = b1 /\ z[Len(y) + 2] = c2 /\ z[Len(y) + 3] = b3 /\ z[Len(y) + 4] = c4
    BY <1>4, <2>1, FourMore, SMTT(30)
  <2> HIDE DEF z
  <2> QED BY <1>8, <2>2
<1>10. /\ z[1] = x[1] /\ z[2] = x[2] /\ z[3] = x[3] /\ z[4] = x[4]
       /\ z[5] = b1 /\ z[6] = b2 /\ z[7] = b3 /\ z[8] = b4
  <2> HIDE DEF z
  <2> QED BY <1>8, <1>9
<1> HIDE DEF z
<1>11. Binds(z, a, b)
  BY <1>1, <1>9, <1>10 DEF Binds, b1, b2, b3, b4, c2, c4, pa, pb
<1> QED BY <1>5, <1>11

(***************************************************************************)
(* Those of resetPortBasedVlan, two for each port (customize.c:88-102).    *)
(***************************************************************************)
LEMMA ResetAccesses ==
  LET s == resetPortBasedVlan IN
  /\ Len(s) = 2 * (LastPort + 1)
  /\ \A p \in Ports :
       s[2 * p + 1] = MapDA(p, TRUE) /\ s[2 * p + 2] = PortVlan(p, Ports \ {p})
  /\ \A i \in 1 .. 2 * (LastPort + 1) :
       \E p \in Ports : i = 2 * p + 1 \/ i = 2 * p + 2
<1>0. LastPort \in Nat
  BY CustomizeAssumption
<1>1. Len(resetPortBasedVlan) = 2 * (LastPort + 1)
  BY <1>0 DEF resetPortBasedVlan
<1>2. ASSUME NEW p \in Ports
      PROVE  /\ resetPortBasedVlan[2 * p + 1] = MapDA(p, TRUE)
             /\ resetPortBasedVlan[2 * p + 2] = PortVlan(p, Ports \ {p})
  <2>1. /\ 2 * p + 1 \in 1 .. 2 * (LastPort + 1) /\ 2 * p + 2 \in 1 .. 2 * (LastPort + 1)
        /\ (2 * p + 1 - 1) \div 2 = p /\ (2 * p + 1) % 2 = 1
        /\ (2 * p + 2 - 1) \div 2 = p /\ (2 * p + 2) % 2 # 1
    BY <1>0 DEF Ports
  <2>2. \A i \in 1 .. 2 * (LastPort + 1) : resetPortBasedVlan[i] =
          LET q == (i - 1) \div 2
          IN IF i % 2 = 1 THEN MapDA(q, TRUE) ELSE PortVlan(q, Ports \ {q})
    BY DEF resetPortBasedVlan
  <2> DEFINE i == 2 * p + 1
             j == 2 * p + 2
  <2>3. /\ i \in 1 .. 2 * (LastPort + 1) /\ j \in 1 .. 2 * (LastPort + 1)
        /\ (i - 1) \div 2 = p /\ i % 2 = 1 /\ (j - 1) \div 2 = p /\ j % 2 # 1
    BY <2>1
  <2> HIDE DEF i, j
  <2>4. resetPortBasedVlan[i] = MapDA(p, TRUE) /\ resetPortBasedVlan[j] = PortVlan(p, Ports \ {p})
    BY <2>2, <2>3
  <2> QED BY <2>4 DEF i, j
<1>3. ASSUME NEW i \in 1 .. 2 * (LastPort + 1)
      PROVE  \E p \in Ports : i = 2 * p + 1 \/ i = 2 * p + 2
  <2>1. (i - 1) \div 2 \in Ports /\ (i = 2 * ((i - 1) \div 2) + 1 \/ i = 2 * ((i - 1) \div 2) + 2)
    BY <1>0 DEF Ports
  <2> QED BY <2>1
<1> QED BY <1>1, <1>2, <1>3
(***************************************************************************)
(* A command is given an access at a time, each of which is known.         *)
(***************************************************************************)
LEMMA CallKinds ==
  ASSUME NEW cmd \in Calls
  PROVE  /\ cmd.api \in {"set", "get", "bind", "reset"}
         /\ cmd.api = "set" => /\ cmd.phy \in Phys /\ cmd.mode \in {"master", "slave"}
                               /\ Accesses(cmd) = setMasterOrSlave(cmd.phy, cmd.mode)
         /\ cmd.api = "get" => cmd.phy \in Phys /\ Accesses(cmd) = checkPhyData(cmd.phy)
         /\ cmd.api = "bind" => /\ cmd.a \in Ports /\ cmd.b \in Ports
                                /\ Accesses(cmd) = setDQAVlan(cmd.a, cmd.b)
         /\ cmd.api = "reset" => Accesses(cmd) = resetPortBasedVlan
<1>1. \/ cmd \in [api : {"set"}, phy : Phys, mode : {"master", "slave"}]
      \/ cmd \in [api : {"get"}, phy : Phys]
      \/ cmd \in [api : {"bind"}, a : Ports, b : Ports]
      \/ cmd \in [api : {"reset"}]
  BY CustomizeAssumption
<1> QED BY <1>1 DEF Accesses

(***************************************************************************)
(* There are accesses, and the switch has registers for them.              *)
(***************************************************************************)
LEMMA AccessRange ==
  ASSUME NEW cmd \in Calls
  PROVE  /\ Len(Accesses(cmd)) \in Nat /\ 1 <= Len(Accesses(cmd))
         /\ \A i \in 1 .. Len(Accesses(cmd)) : Accesses(cmd)[i] \in AllAccesses
<1> LastPort \in Nat /\ 0 \in Phys
  BY CustomizeAssumption DEF Phys, Ports
<1>1. /\ \A w \in Words : Data(w) \in AllAccesses
      /\ \A op \in {"address", "read", "write"}, mmd \in Mmds, phy \in Phys :
           Cmd(op, mmd, phy) \in AllAccesses
      /\ \A p \in Ports, on \in BOOLEAN : MapDA(p, on) \in AllAccesses
      /\ \A p \in Ports, v \in SUBSET Ports : PortVlan(p, v) \in AllAccesses
      /\ ReadData \in AllAccesses
  BY DEF AllAccesses, Data, Cmd, MapDA, PortVlan, ReadData
<1>2. CASE cmd.api = "get"
  <2>1. \A i \in 1 .. 4 : i = 1 \/ i = 2 \/ i = 3 \/ i = 4
    OBVIOUS
  <2> QED BY <1>1, <1>2, <2>1, CallKinds, CheckAccesses DEF Words, Mmds
<1>3. CASE cmd.api = "set"
  <2>1. \A i \in 1 .. 8 : i = 1 \/ i = 2 \/ i = 3 \/ i = 4 \/ i = 5 \/ i = 6 \/ i = 7 \/ i = 8
    OBVIOUS
  <2>2. Data(cmd.mode) \in AllAccesses
    BY <1>1, <1>3, CallKinds DEF Words
  <2> DEFINE s == setMasterOrSlave(cmd.phy, cmd.mode)
  <2>3. cmd.phy \in Phys /\ Accesses(cmd) = s
    BY <1>3, CallKinds
  <2>4. /\ Data("0x834") \in AllAccesses /\ Cmd("address", "pma", cmd.phy) \in AllAccesses
        /\ Cmd("write", "pma", cmd.phy) \in AllAccesses
        /\ Cmd("read", "pma", cmd.phy) \in AllAccesses
    BY <1>1, <2>3 DEF Words, Mmds
  <2>5. /\ Len(s) = 8
        /\ s[1] \in AllAccesses /\ s[2] \in AllAccesses /\ s[3] \in AllAccesses
        /\ s[4] \in AllAccesses /\ s[5] \in AllAccesses /\ s[6] \in AllAccesses
        /\ s[7] \in AllAccesses /\ s[8] \in AllAccesses
    BY <1>1, <2>2, <2>4, SetAccesses
  <2> HIDE DEF s
  <2> QED BY <2>1, <2>3, <2>5
<1>4. CASE cmd.api = "bind"
  <2>1. \A i \in 1 .. 12 : \/ i = 1 \/ i = 2 \/ i = 3 \/ i = 4 \/ i = 5 \/ i = 6
                           \/ i = 7 \/ i = 8 \/ i = 9 \/ i = 10 \/ i = 11 \/ i = 12
    OBVIOUS
  <2>2. /\ cmd.a \in Ports /\ cmd.b \in Ports
        /\ {cmd.a} \in SUBSET Ports /\ {cmd.b} \in SUBSET Ports
        /\ PhyOf(cmd.a) \in Phys /\ PhyOf(cmd.b) \in Phys
    BY <1>4, CallKinds DEF Phys, PhyOf
  <2> DEFINE s == setDQAVlan(cmd.a, cmd.b)
             pa == PhyOf(cmd.a)
             pb == PhyOf(cmd.b)
  <2>3. Accesses(cmd) = s
    BY <1>4, CallKinds
  <2>4. /\ Data("0x200") \in AllAccesses /\ Data("0x1000") \in AllAccesses
        /\ Cmd("address", "an", pa) \in AllAccesses /\ Cmd("write", "an", pa) \in AllAccesses
        /\ Cmd("address", "an", pb) \in AllAccesses /\ Cmd("write", "an", pb) \in AllAccesses
    BY <1>1, <2>2 DEF Words, Mmds
  <2>5. /\ MapDA(cmd.a, FALSE) \in AllAccesses /\ MapDA(cmd.b, FALSE) \in AllAccesses
        /\ PortVlan(cmd.a, {cmd.b}) \in AllAccesses /\ PortVlan(cmd.b, {cmd.a}) \in AllAccesses
    BY <1>1, <2>2
  <2>6. /\ Len(s) = 12
        /\ s[1] \in AllAccesses /\ s[2] \in AllAccesses /\ s[3] \in AllAccesses
        /\ s[4] \in AllAccesses /\ s[5] \in AllAccesses /\ s[6] \in AllAccesses
        /\ s[7] \in AllAccesses /\ s[8] \in AllAccesses /\ s[9] \in AllAccesses
        /\ s[10] \in AllAccesses /\ s[11] \in AllAccesses /\ s[12] \in AllAccesses
    <3>1. /\ Len(s) = 12
          /\ s[1] = MapDA(cmd.a, FALSE) /\ s[2] = MapDA(cmd.b, FALSE)
          /\ s[3] = PortVlan(cmd.a, {cmd.b}) /\ s[4] = PortVlan(cmd.b, {cmd.a})
          /\ s[5] = Data("0x200") /\ s[6] = Cmd("address", "an", pa)
          /\ s[7] = Data("0x1000") /\ s[8] = Cmd("write", "an", pa)
          /\ s[9] = Data("0x200") /\ s[10] = Cmd("address", "an", pb)
          /\ s[11] = Data("0x1000") /\ s[12] = Cmd("write", "an", pb)
      <4>1. Binds(s, cmd.a, cmd.b)
        BY BindAccesses
      <4> HIDE DEF s
      <4> QED BY <4>1 DEF Binds
    <3> HIDE DEF s, pa, pb
    <3> QED BY <2>4, <2>5, <3>1
  <2> HIDE DEF s
  <2> QED BY <2>1, <2>3, <2>6
<1>5. CASE cmd.api = "reset"
  <2>1. \A p \in Ports : Ports \ {p} \in SUBSET Ports
    OBVIOUS
  <2> DEFINE s == resetPortBasedVlan
  <2>2. Accesses(cmd) = s
    BY <1>5, CallKinds
  <2>3. Len(s) = 2 * (LastPort + 1)
    BY ResetAccesses
  <2>4. ASSUME NEW i \in 1 .. 2 * (LastPort + 1) PROVE s[i] \in AllAccesses
    <3>1. PICK p \in Ports : i = 2 * p + 1 \/ i = 2 * p + 2
      BY ResetAccesses
    <3>2. s[2 * p + 1] = MapDA(p, TRUE) /\ s[2 * p + 2] = PortVlan(p, Ports \ {p})
      BY ResetAccesses
    <3>3. s[2 * p + 1] \in AllAccesses /\ s[2 * p + 2] \in AllAccesses
      BY <1>1, <2>1, <3>2
    <3> HIDE DEF s
    <3> QED BY <3>1, <3>3
  <2> HIDE DEF s
  <2> QED BY <2>2, <2>3, <2>4
<1> QED BY <1>2, <1>3, <1>4, <1>5, CallKinds

-----------------------------------------------------------------------------
(* A client that runs no command starts with the first access. *)
TypeInv ==
  /\ TypeOK
  /\ at \in [Clients -> Nat]
  /\ \A c \in Clients : pc[c] = "idle" => at[c] = 1

(***************************************************************************)
(* What an access writes is something its register can hold.               *)
(***************************************************************************)
LEMMA WrittenRange ==
  ASSUME TypeOK, NEW a \in AllAccesses, Written(a)
  PROVE  /\ hi' \in BOOLEAN
         /\ mapDA' \in [Ports -> BOOLEAN]
         /\ vlan' \in [Ports -> SUBSET Ports]
         /\ phyData' \in Words
         /\ phyAddr' \in [Phys -> [Mmds -> Words]]
         /\ phyReg' \in [Phys -> [Mmds -> [Words -> Words]]]
<1>0. LastPort \in Ports
  BY CustomizeAssumption DEF Ports
<1>1. CASE a \in [to : {"data"}, word : Words]
  BY <1>1 DEF TypeOK, Written
<1>2. CASE a \in [to : {"cmd"}, op : {"address", "read", "write"}, mmd : Mmds, phy : Phys]
  <2>1. /\ a.to = "cmd" /\ a.phy \in Phys /\ a.mmd \in Mmds
        /\ phyAddr[a.phy][a.mmd] \in Words
        /\ phyReg[a.phy][a.mmd][phyAddr[a.phy][a.mmd]] \in Words
    BY <1>2 DEF TypeOK
  <2>2. phyAddr' \in [Phys -> [Mmds -> Words]]
    BY <2>1 DEF TypeOK, Written
  <2>3. phyReg' \in [Phys -> [Mmds -> [Words -> Words]]]
    BY <2>1 DEF TypeOK, Written
  <2> QED BY <2>1, <2>2, <2>3 DEF TypeOK, Written
<1>3. CASE a \in [to : {"mapDA"}, port : Ports, on : BOOLEAN]
  BY <1>3 DEF TypeOK, Written
<1>4. CASE a \in [to : {"vlan"}, port : Ports, members : SUBSET Ports]
  BY <1>0, <1>4 DEF TypeOK, Written
<1>5. CASE a \in [to : {"read"}]
  BY <1>5 DEF TypeOK, Written
<1> QED BY <1>1, <1>2, <1>3, <1>4, <1>5 DEF AllAccesses

(***************************************************************************)
(* Types at the beginning.                                                 *)
(***************************************************************************)
LEMMA TypeInit == Init => TypeInv
<1> SUFFICES ASSUME Init PROVE TypeInv
  OBVIOUS
<1>1. \A cmd \in Calls : Len(Accesses(cmd)) \in Nat /\ 1 <= Len(Accesses(cmd))
  BY AccessRange
<1>2. phyReg \in [Phys -> [Mmds -> [Words -> Words]]]
  BY DEF Init, Words
<1>3. phyAddr \in [Phys -> [Mmds -> Words]]
  BY DEF Init, Words
<1>4. vlan \in [Ports -> SUBSET Ports] /\ mapDA \in [Ports -> BOOLEAN]
  BY DEF Init
<1>5. /\ call \in [Clients -> Calls] /\ pc \in [Clients -> {"idle", "first", "second"}]
      /\ at \in [Clients -> Nat] /\ got \in [Clients -> Words]
      /\ out \in [Clients -> {"none", "0", "1", "Master", "Slave", "Unknown"}]
      /\ hi \in BOOLEAN /\ phyData \in Words
      /\ \A c \in Clients : at[c] = 1
  BY DEF Init, Words
<1>6. ASSUME NEW c \in Clients PROVE at[c] \in 1 .. Len(Accesses(call[c]))
  <2>1. call[c] \in Calls /\ at[c] = 1
    BY <1>5
  <2>2. Len(Accesses(call[c])) \in Nat /\ 1 <= Len(Accesses(call[c]))
    BY <1>1, <2>1
  <2> QED BY <2>1, <2>2
<1> QED BY <1>2, <1>3, <1>4, <1>5, <1>6 DEF TypeInv, TypeOK

(***************************************************************************)
(* And after each step.                                                    *)
(***************************************************************************)
LEMMA TypeStep == TypeInv /\ [Next]_vars => TypeInv'
<1> SUFFICES ASSUME TypeInv, [Next]_vars PROVE TypeInv'
  OBVIOUS
<1> USE DEF TypeInv
<1>0. \A cmd \in Calls : Len(Accesses(cmd)) \in Nat /\ 1 <= Len(Accesses(cmd))
  BY AccessRange
<1>1. ASSUME NEW c \in Clients, NEW cmd \in Calls, Call(c, cmd) PROVE TypeInv'
  BY <1>0, <1>1 DEF Call, TypeOK, switch
<1>2. ASSUME NEW c \in Clients, First(c) PROVE TypeInv'
  <2>1. got' \in [Clients -> Words] /\ hi' \in BOOLEAN
    BY <1>2 DEF First, TypeOK, HighBit
  <2> QED BY <1>2, <2>1 DEF First, TypeOK
<1>3. ASSUME NEW c \in Clients, FirstFails(c) PROVE TypeInv'
  <2>1. hi' \in BOOLEAN
    BY <1>3 DEF FirstFails, TypeOK, HighBit
  <2> QED BY <1>3, <2>1 DEF FirstFails, TypeOK
<1>4. \A c \in Clients : Access(c) \in AllAccesses
  BY AccessRange DEF Access, TypeOK
<1>5. ASSUME NEW c \in Clients, UNCHANGED switch \/ Written(Access(c))
      PROVE  /\ hi' \in BOOLEAN
             /\ mapDA' \in [Ports -> BOOLEAN]
             /\ vlan' \in [Ports -> SUBSET Ports]
             /\ phyData' \in Words
             /\ phyAddr' \in [Phys -> [Mmds -> Words]]
             /\ phyReg' \in [Phys -> [Mmds -> [Words -> Words]]]
  BY <1>4, <1>5, WrittenRange DEF TypeOK, switch
<1>6. ASSUME NEW c \in Clients, NEW word, UNCHANGED call, Advance(c, word)
      PROVE  /\ pc' \in [Clients -> {"idle", "first", "second"}]
             /\ call' \in [Clients -> Calls]
             /\ at' \in [Clients -> Nat]
             /\ \A d \in Clients : at'[d] \in 1 .. Len(Accesses(call'[d]))
             /\ \A d \in Clients : pc'[d] = "idle" => at'[d] = 1
             /\ got' \in [Clients -> Words]
             /\ out' \in [Clients -> {"none", "0", "1", "Master", "Slave", "Unknown"}]
  <2>1. CASE at[c] < Len(Accesses(call[c]))
    <3>1. /\ pc' = [pc EXCEPT ![c] = "first"] /\ at' = [at EXCEPT ![c] = @ + 1]
          /\ UNCHANGED <<call, got, out>>
      BY <1>6, <2>1 DEF Advance
    <3>2. at[c] \in Nat /\ call[c] \in Calls /\ Len(Accesses(call[c])) \in Nat
      BY <1>0 DEF TypeOK
    <3>3. at'[c] \in 1 .. Len(Accesses(call'[c]))
      BY <2>1, <3>1, <3>2
    <3>4. \A d \in Clients : d # c => at'[d] = at[d] /\ call'[d] = call[d]
      BY <3>1
    <3>5. \A d \in Clients : at'[d] \in 1 .. Len(Accesses(call'[d]))
      BY <3>3, <3>4 DEF TypeOK
    <3> QED BY <3>1, <3>5 DEF TypeOK
  <2>2. CASE ~(at[c] < Len(Accesses(call[c])))
    <3>1. Result(call[c], word) \in {"none", "0", "1", "Master", "Slave", "Unknown"}
      BY CallKinds DEF Result, TypeOK
    <3>2. Return(c, Result(call[c], word))
      BY <1>6, <2>2 DEF Advance
    <3>3. /\ Len(Accesses(call[c])) \in Nat /\ 1 <= Len(Accesses(call[c])) /\ at'[c] = 1
          /\ call' = call
      BY <1>0, <1>6, <3>2 DEF Return, TypeOK
    <3>4. \A d \in Clients : d # c => at'[d] = at[d]
      BY <3>2 DEF Return
    <3>5. ASSUME NEW d \in Clients PROVE at'[d] \in 1 .. Len(Accesses(call'[d]))
      <4>1. CASE d = c
        BY <3>3, <4>1
      <4>2. CASE d # c
        BY <3>3, <3>4, <4>2 DEF TypeOK
      <4> QED BY <4>1, <4>2
    <3>6. at' \in [Clients -> Nat] /\ \A d \in Clients : pc'[d] = "idle" => at'[d] = 1
      BY <3>2 DEF Return, TypeOK
    <3> QED BY <1>6, <3>1, <3>2, <3>5, <3>6 DEF Return, TypeOK, Words
  <2> QED BY <2>1, <2>2
<1>7. ASSUME NEW c \in Clients, UNCHANGED call, Return(c, ErrorResult(call[c]))
      PROVE  /\ pc' \in [Clients -> {"idle", "first", "second"}]
             /\ call' \in [Clients -> Calls]
             /\ at' \in [Clients -> Nat]
             /\ \A d \in Clients : at'[d] \in 1 .. Len(Accesses(call'[d]))
             /\ \A d \in Clients : pc'[d] = "idle" => at'[d] = 1
             /\ got' \in [Clients -> Words]
             /\ out' \in [Clients -> {"none", "0", "1", "Master", "Slave", "Unknown"}]
  BY <1>0, <1>7 DEF Return, ErrorResult, TypeOK, Words
<1>8. ASSUME NEW c \in Clients, Second(c) \/ SecondFails(c) PROVE TypeInv'
  <2>1. UNCHANGED switch \/ Written(Access(c))
    BY <1>8 DEF Second, SecondFails
  <2>2. UNCHANGED call
    BY <1>8 DEF Second, SecondFails
  <2>3. Return(c, ErrorResult(call[c])) \/ \E word : Advance(c, word)
    BY <1>8 DEF Second, SecondFails
  <2> QED BY <1>5, <1>6, <1>7, <2>1, <2>2, <2>3 DEF TypeOK
<1>9. CASE UNCHANGED vars
  BY <1>9 DEF vars, switch, TypeOK
<1> QED BY <1>1, <1>2, <1>3, <1>8, <1>9 DEF Next

(***************************************************************************)
(* Types, for any number of clients: however their commands interleave,    *)
(* the switch keeps what it can keep and nobody runs past the end of a     *)
(* command.                                                                *)
(***************************************************************************)
THEOREM TypeCorrect == Spec => []TypeOK
<1>1. TypeInv => TypeOK
  BY DEF TypeInv
<1> QED BY <1>1, TypeInit, TypeStep, PTL DEF Spec

-----------------------------------------------------------------------------
(* One client, whose commands bind and reset find their accesses done: what *)
(* the code relies on, as it locks nothing and does not look at the results *)
(* of these accesses.                                                       *)
OneClient == \A c, d \in Clients : c = d
Heeded == Failing \subseteq {"set", "get"}

(* What is so when a command comes to access i, and has come to its end     *)
(* when i is one more than it has accesses.                                 *)
SetSoFar(phy, mode, i) ==
  /\ i \in {2, 6} => phyData = "0x834"
  /\ i \in {3, 4, 7, 8} => phyAddr[phy]["pma"] = "0x834"
  /\ i = 4 => phyData = mode
  /\ i >= 5 => ModeOf(phy) = mode

GetSoFar(phy, i) ==
  /\ i = 2 => phyData = "0x834"
  /\ i = 3 => phyAddr[phy]["pma"] = "0x834"
  /\ i >= 4 => phyData = ModeOf(phy)

BindSoFar(a, b, i) ==
  /\ i >= 2 => ~mapDA[a]
  /\ i >= 3 => ~mapDA[b]
  /\ i >= 4 => vlan[a] = {b}
  /\ i >= 5 => vlan[b] = {a}
  /\ i \in {6, 10} => phyData = "0x200"
  /\ i \in {7, 8} => phyAddr[PhyOf(a)]["an"] = "0x200"
  /\ i \in {11, 12} => phyAddr[PhyOf(b)]["an"] = "0x200"
  /\ i \in {8, 12} => phyData = "0x1000"

ResetSoFar(i) ==
  \A p \in Ports : /\ i > 2 * p + 1 => mapDA[p]
                   /\ i > 2 * p + 2 => vlan[p] = Ports \ {p}

SoFar(cmd, i) ==
  /\ cmd.api = "set" => SetSoFar(cmd.phy, cmd.mode, i)
  /\ cmd.api = "get" => GetSoFar(cmd.phy, i)
  /\ cmd.api = "bind" => BindSoFar(cmd.a, cmd.b, i)
  /\ cmd.api = "reset" => ResetSoFar(i)

(* Between the halves of an access: the high half is the access's own, or   *)
(* the low half has been read, or its reading has failed.                   *)
HighSet(cmd, i) ==
  cmd.api \in {"bind", "reset"} /\ Accesses(cmd)[i] # ReadData =>
    hi = HighBit(Accesses(cmd)[i])
Halfway(c) ==
  /\ pc[c] = "second" => HighSet(call[c], at[c])
  /\ got[c] # "0" => pc[c] = "second" /\ Reading(c) /\ got[c] = phyData

ClientInv(c) ==
  /\ pc[c] # "idle" => SoFar(call[c], at[c])
  /\ Halfway(c)

ToolInv ==
  /\ TypeInv
  /\ \A c \in Clients : ClientInv(c)
  /\ NoStrayWrite /\ ToldModeIsSet /\ VlanIsDone

(* An access has been done. *)
AccessDone(cmd, i) ==
  IF Accesses(cmd)[i] = ReadData THEN UNCHANGED switch ELSE Written(Accesses(cmd)[i])

(***************************************************************************)
(* The only access that reads is the one that says so.                     *)
(***************************************************************************)
LEMMA NotReading ==
  /\ \A w \in Words : Data(w) # ReadData
  /\ \A op, mmd, phy : Cmd(op, mmd, phy) # ReadData
  /\ \A p, on : MapDA(p, on) # ReadData
  /\ \A p, v : PortVlan(p, v) # ReadData
<1>1. \A w : Data(w).to = "data"
  BY DEF Data
<1>2. \A op, mmd, phy : Cmd(op, mmd, phy).to = "cmd"
  BY DEF Cmd
<1>3. \A p, on : MapDA(p, on).to = "mapDA"
  BY DEF MapDA
<1>4. \A p, v : PortVlan(p, v).to = "vlan"
  BY DEF PortVlan
<1>5. ReadData.to = "read"
  BY DEF ReadData
<1> QED BY <1>1, <1>2, <1>3, <1>4, <1>5

(***************************************************************************)
(* What the switch does with each kind of access.                          *)
(***************************************************************************)
LEMMA DataWritten ==
  ASSUME NEW w \in Words, Written(Data(w))
  PROVE  phyData' = w /\ UNCHANGED <<hi, mapDA, vlan, phyAddr, phyReg>>
BY DEF Written, Data

(***************************************************************************)
(* A PHY is given an address in one of its MMDs.                           *)
(***************************************************************************)
LEMMA AddressWritten ==
  ASSUME TypeOK, NEW mmd \in Mmds, NEW phy \in Phys, Written(Cmd("address", mmd, phy))
  PROVE  /\ phyAddr'[phy][mmd] = phyData
         /\ UNCHANGED <<hi, mapDA, vlan, phyData, phyReg>>
BY DEF Written, Cmd, TypeOK

(***************************************************************************)
(* A PHY register is read into the data register.                          *)
(***************************************************************************)
LEMMA ReadWritten ==
  ASSUME TypeOK, NEW mmd \in Mmds, NEW phy \in Phys, Written(Cmd("read", mmd, phy))
  PROVE  /\ phyData' = phyReg[phy][mmd][phyAddr[phy][mmd]]
         /\ UNCHANGED <<hi, mapDA, vlan, phyAddr, phyReg>>
BY DEF Written, Cmd, TypeOK

(***************************************************************************)
(* A PHY register is written, and no other one.                            *)
(***************************************************************************)
LEMMA WriteWritten ==
  ASSUME TypeOK, NEW mmd \in Mmds, NEW phy \in Phys, Written(Cmd("write", mmd, phy))
  PROVE  /\ phyReg'[phy][mmd][phyAddr[phy][mmd]] = phyData
         /\ \A p \in Phys, m \in Mmds, w \in Words :
              <<p, m, w>> # <<phy, mmd, phyAddr[phy][mmd]>> => phyReg'[p][m][w] = phyReg[p][m][w]
         /\ UNCHANGED <<hi, mapDA, vlan, phyData, phyAddr>>
<1>1. phyReg' = [phyReg EXCEPT ![phy][mmd][phyAddr[phy][mmd]] = phyData]
  BY DEF Written, Cmd
<1>2. phyAddr[phy][mmd] \in Words
  BY DEF TypeOK
<1>3. phyReg'[phy][mmd][phyAddr[phy][mmd]] = phyData
  BY <1>1, <1>2 DEF TypeOK
<1>4. ASSUME NEW p \in Phys, NEW m \in Mmds, NEW w \in Words,
             <<p, m, w>> # <<phy, mmd, phyAddr[phy][mmd]>>
      PROVE  phyReg'[p][m][w] = phyReg[p][m][w]
  BY <1>1, <1>2, <1>4 DEF TypeOK
<1>5. UNCHANGED <<hi, mapDA, vlan, phyData, phyAddr>>
  BY DEF Written, Cmd
<1> QED BY <1>3, <1>4, <1>5

(***************************************************************************)
(* A port's MapDA is set.                                                  *)
(***************************************************************************)
LEMMA MapDAWritten ==
  ASSUME TypeOK, NEW p \in Ports, NEW on \in BOOLEAN, Written(MapDA(p, on))
  PROVE  /\ mapDA'[p] = on /\ \A q \in Ports : q # p => mapDA'[q] = mapDA[q]
         /\ UNCHANGED <<hi, vlan, phyData, phyAddr, phyReg>>
BY DEF Written, MapDA, TypeOK

(***************************************************************************)
(* A port's VLAN is set, the bit of the last port through the high half.   *)
(***************************************************************************)
LEMMA VlanWritten ==
  ASSUME TypeOK, NEW p \in Ports, NEW v \in SUBSET Ports, Written(PortVlan(p, v)),
         hi = HighBit(PortVlan(p, v))
  PROVE  /\ vlan'[p] = v /\ \A q \in Ports : q # p => vlan'[q] = vlan[q]
         /\ UNCHANGED <<hi, mapDA, phyData, phyAddr, phyReg>>
<1>1. vlan' = [vlan EXCEPT ![p] = (v \ {LastPort}) \cup (IF hi THEN {LastPort} ELSE {})]
  BY DEF Written, PortVlan
<1>2. hi <=> LastPort \in v
  BY DEF HighBit, PortVlan
<1>3. (v \ {LastPort}) \cup (IF hi THEN {LastPort} ELSE {}) = v
  BY <1>2
<1>4. vlan'[p] = v /\ \A q \in Ports : q # p => vlan'[q] = vlan[q]
  BY <1>1, <1>3 DEF TypeOK
<1> QED BY <1>4 DEF Written, PortVlan

(***************************************************************************)
(* setMasterOrSlave writes the mode to the register of the PHY it is meant *)
(* for, and there it stays.                                                *)
(***************************************************************************)
LEMMA SetDone ==
  ASSUME TypeOK, NoStrayWrite, NEW cmd \in Calls, cmd.api = "set",
         NEW phy, phy = cmd.phy, NEW mode, mode = cmd.mode,
         NEW i \in 1 .. 8, SetSoFar(phy, mode, i), AccessDone(cmd, i)
  PROVE  SetSoFar(phy, mode, i + 1)' /\ NoStrayWrite'
<1> DEFINE s == Accesses(cmd)
<1>1. /\ phy \in Phys /\ mode \in {"master", "slave"} /\ mode \in Words
      /\ "pma" \in Mmds /\ "0x834" \in Words
  BY CallKinds DEF Words, Mmds
<1>2. /\ s[1] = Data("0x834") /\ s[2] = Cmd("address", "pma", phy)
      /\ s[3] = Data(mode) /\ s[4] = Cmd("write", "pma", phy)
      /\ s[5] = Data("0x834") /\ s[6] = Cmd("address", "pma", phy)
      /\ s[7] = Cmd("read", "pma", phy) /\ s[8] = ReadData
  BY CallKinds, SetAccesses
<1>3. IF s[i] = ReadData THEN UNCHANGED switch ELSE Written(s[i])
  BY DEF AccessDone
<1>4. SetSoFar(phy, mode, i)
  OBVIOUS
<1> HIDE DEF s
<1>5. ASSUME UNCHANGED phyReg PROVE NoStrayWrite' /\ ModeOf(phy)' = ModeOf(phy)
  BY <1>5 DEF NoStrayWrite, ModeOf
<1>6. CASE i \in {1, 5}
  <2>1. phyData' = "0x834" /\ UNCHANGED <<phyAddr, phyReg>>
    BY <1>1, <1>2, <1>3, <1>6, NotReading, DataWritten
  <2> QED BY <1>4, <1>5, <1>6, <2>1 DEF SetSoFar
<1>7. CASE i \in {2, 6}
  <2>1. phyAddr'[phy]["pma"] = phyData /\ UNCHANGED <<phyData, phyReg>>
    BY <1>1, <1>2, <1>3, <1>7, NotReading, AddressWritten
  <2> QED BY <1>4, <1>5, <1>7, <2>1 DEF SetSoFar
<1>8. CASE i = 3
  <2>1. phyData' = mode /\ UNCHANGED <<phyAddr, phyReg>>
    BY <1>1, <1>2, <1>3, <1>8, NotReading, DataWritten
  <2> QED BY <1>4, <1>5, <1>8, <2>1 DEF SetSoFar
<1>9. CASE i = 4
  <2>1. phyAddr[phy]["pma"] = "0x834" /\ phyData = mode
    BY <1>4, <1>9 DEF SetSoFar
  <2>2. /\ phyReg'[phy]["pma"]["0x834"] = mode
        /\ \A p \in Phys, m \in Mmds, w \in Words :
             <<p, m, w>> # <<phy, "pma", "0x834">> => phyReg'[p][m][w] = phyReg[p][m][w]
    BY <1>1, <1>2, <1>3, <1>9, <2>1, NotReading, WriteWritten
  <2>3. ASSUME NEW p \in Phys, NEW m \in Mmds, NEW w \in Words
        PROVE  \/ phyReg'[p][m][w] = "0"
               \/ m = "pma" /\ w = "0x834" /\ phyReg'[p][m][w] \in {"master", "slave"}
               \/ m = "an" /\ w = "0x200" /\ phyReg'[p][m][w] = "0x1000"
    <3>1. CASE <<p, m, w>> = <<phy, "pma", "0x834">>
      BY <1>1, <2>2, <3>1
    <3>2. CASE <<p, m, w>> # <<phy, "pma", "0x834">>
      BY <2>2, <3>2 DEF NoStrayWrite
    <3> QED BY <3>1, <3>2
  <2>4. NoStrayWrite'
    BY <2>3 DEF NoStrayWrite
  <2> QED BY <1>9, <2>2, <2>4 DEF SetSoFar, ModeOf
<1>10. CASE i = 7
  <2>1. UNCHANGED <<phyAddr, phyReg>>
    BY <1>1, <1>2, <1>3, <1>10, NotReading, ReadWritten
  <2> QED BY <1>4, <1>5, <1>10, <2>1 DEF SetSoFar
<1>11. CASE i = 8
  <2>1. UNCHANGED <<phyAddr, phyReg>>
    BY <1>2, <1>3, <1>11 DEF switch
  <2> QED BY <1>4, <1>5, <1>11, <2>1 DEF SetSoFar
<1> QED BY <1>6, <1>7, <1>8, <1>9, <1>10, <1>11

(***************************************************************************)
(* checkPhyData reads the mode of the PHY it is asked for.                 *)
(***************************************************************************)
LEMMA GetDone ==
  ASSUME TypeOK, NoStrayWrite, NEW cmd \in Calls, cmd.api = "get", NEW phy, phy = cmd.phy,
         NEW i \in 1 .. 4, GetSoFar(phy, i), AccessDone(cmd, i)
  PROVE  GetSoFar(phy, i + 1)' /\ NoStrayWrite'
<1> DEFINE s == Accesses(cmd)
<1>1. phy \in Phys /\ "pma" \in Mmds /\ "0x834" \in Words
  BY CallKinds DEF Words, Mmds
<1>2. /\ s[1] = Data("0x834") /\ s[2] = Cmd("address", "pma", phy)
      /\ s[3] = Cmd("read", "pma", phy) /\ s[4] = ReadData
  BY CallKinds, CheckAccesses
<1>3. IF s[i] = ReadData THEN UNCHANGED switch ELSE Written(s[i])
  BY DEF AccessDone
<1>4. GetSoFar(phy, i)
  OBVIOUS
<1> HIDE DEF s
<1>5. ASSUME UNCHANGED phyReg PROVE NoStrayWrite' /\ ModeOf(phy)' = ModeOf(phy)
  BY <1>5 DEF NoStrayWrite, ModeOf
<1>6. CASE i = 1
  <2>1. phyData' = "0x834" /\ UNCHANGED <<phyAddr, phyReg>>
    BY <1>1, <1>2, <1>3, <1>6, NotReading, DataWritten
  <2> QED BY <1>5, <1>6, <2>1 DEF GetSoFar
<1>7. CASE i = 2
  <2>1. phyAddr'[phy]["pma"] = phyData /\ UNCHANGED <<phyData, phyReg>>
    BY <1>1, <1>2, <1>3, <1>7, NotReading, AddressWritten
  <2> QED BY <1>4, <1>5, <1>7, <2>1 DEF GetSoFar
<1>8. CASE i = 3
  <2>1. phyData' = phyReg[phy]["pma"]["0x834"] /\ UNCHANGED phyReg
    <3>1. phyAddr[phy]["pma"] = "0x834"
      BY <1>4, <1>8 DEF GetSoFar
    <3> QED BY <1>1, <1>2, <1>3, <1>8, <3>1, NotReading, ReadWritten
  <2> QED BY <1>5, <1>8, <2>1 DEF GetSoFar, ModeOf
<1>9. CASE i = 4
  <2>1. UNCHANGED <<phyData, phyReg>>
    BY <1>2, <1>3, <1>9 DEF switch
  <2> QED BY <1>4, <1>5, <1>9, <2>1 DEF GetSoFar
<1> QED BY <1>6, <1>7, <1>8, <1>9

(***************************************************************************)
(* setDQAVlan binds the two ports to each other, and then writes the       *)
(* auto-negotiation control of the PHYs it is meant for.                   *)
(***************************************************************************)
LEMMA BindDone ==
  ASSUME TypeOK, NoStrayWrite, NEW cmd \in Calls, cmd.api = "bind",
         NEW a, a = cmd.a, NEW b, b = cmd.b, NEW i \in 1 .. 12,
         BindSoFar(a, b, i), HighSet(cmd, i), AccessDone(cmd, i)
  PROVE  BindSoFar(a, b, i + 1)' /\ NoStrayWrite'
<1> DEFINE s == Accesses(cmd)
<1>1. /\ a \in Ports /\ b \in Ports /\ {a} \in SUBSET Ports /\ {b} \in SUBSET Ports
      /\ PhyOf(a) \in Phys /\ PhyOf(b) \in Phys
      /\ "an" \in Mmds /\ "0x200" \in Words /\ "0x1000" \in Words
  <2>1. 0 \in Phys
    BY CustomizeAssumption DEF Phys, Ports
  <2> QED BY <2>1, CallKinds DEF PhyOf, Phys, Words, Mmds
<1>2. Binds(s, a, b)
  BY CallKinds, BindAccesses
<1>3. /\ IF s[i] = ReadData THEN UNCHANGED switch ELSE Written(s[i])
      /\ s[i] # ReadData => hi = HighBit(s[i])
  BY DEF AccessDone, HighSet
<1> HIDE DEF s
<1>4. ASSUME UNCHANGED phyReg PROVE NoStrayWrite'
  BY <1>4 DEF NoStrayWrite
<1>5. ASSUME NEW p \in {PhyOf(a), PhyOf(b)}, s[i] = Cmd("write", "an", p),
             phyAddr[p]["an"] = "0x200", phyData = "0x1000"
      PROVE  NoStrayWrite' /\ UNCHANGED <<mapDA, vlan, phyData, phyAddr>>
  <2>1. p \in Phys
    BY <1>1
  <2>2. Written(Cmd("write", "an", p))
    BY <1>3, <1>5, NotReading
  <2>3. /\ phyReg'[p]["an"]["0x200"] = "0x1000"
        /\ \A q \in Phys, m \in Mmds, w \in Words :
             <<q, m, w>> # <<p, "an", "0x200">> => phyReg'[q][m][w] = phyReg[q][m][w]
        /\ UNCHANGED <<mapDA, vlan, phyData, phyAddr>>
    BY <1>1, <1>5, <2>1, <2>2, WriteWritten
  <2>4. ASSUME NEW q \in Phys, NEW m \in Mmds, NEW w \in Words
        PROVE  \/ phyReg'[q][m][w] = "0"
               \/ m = "pma" /\ w = "0x834" /\ phyReg'[q][m][w] \in {"master", "slave"}
               \/ m = "an" /\ w = "0x200" /\ phyReg'[q][m][w] = "0x1000"
    <3>1. CASE <<q, m, w>> = <<p, "an", "0x200">>
      BY <2>3, <3>1
    <3>2. CASE <<q, m, w>> # <<p, "an", "0x200">>
      BY <2>3, <3>2 DEF NoStrayWrite
    <3> QED BY <3>1, <3>2
  <2>5. NoStrayWrite'
    BY <2>4 DEF NoStrayWrite
  <2> QED BY <2>3, <2>5
<1>6. CASE i = 1
  <2>1. mapDA'[a] = FALSE /\ UNCHANGED phyReg
    <3>1. s[i] = MapDA(a, FALSE)
      BY <1>2, <1>6 DEF Binds
    <3> QED BY <1>1, <1>3, <3>1, NotReading, MapDAWritten
  <2> QED BY <1>4, <1>6, <2>1 DEF BindSoFar
<1>7. CASE i = 2
  <2>1. /\ mapDA'[b] = FALSE /\ \A q \in Ports : q # b => mapDA'[q] = mapDA[q]
        /\ UNCHANGED phyReg
    <3>1. s[i] = MapDA(b, FALSE)
      BY <1>2, <1>7 DEF Binds
    <3> QED BY <1>1, <1>3, <3>1, NotReading, MapDAWritten
  <2>2. ~mapDA'[a] /\ ~mapDA'[b]
    BY <1>1, <1>7, <2>1 DEF BindSoFar
  <2> QED BY <1>4, <1>7, <2>1, <2>2 DEF BindSoFar
<1>8. CASE i = 3
  <2>1. vlan'[a] = {b} /\ UNCHANGED <<mapDA, phyReg>>
    <3>1. s[i] = PortVlan(a, {b})
      BY <1>2, <1>8 DEF Binds
    <3> QED BY <1>1, <1>3, <3>1, NotReading, VlanWritten
  <2> QED BY <1>4, <1>8, <2>1 DEF BindSoFar
<1>9. CASE i = 4
  <2>1. /\ vlan'[b] = {a} /\ \A q \in Ports : q # b => vlan'[q] = vlan[q]
        /\ UNCHANGED <<mapDA, phyReg>>
    <3>1. s[i] = PortVlan(b, {a})
      BY <1>2, <1>9 DEF Binds
    <3> QED BY <1>1, <1>3, <3>1, NotReading, VlanWritten
  <2>2. vlan'[a] = {b}
    BY <1>1, <1>9, <2>1 DEF BindSoFar
  <2> QED BY <1>4, <1>9, <2>1, <2>2 DEF BindSoFar
<1>10. CASE i \in {5, 9}
  <2>1. phyData' = "0x200" /\ UNCHANGED <<mapDA, vlan, phyReg>>
    <3>1. s[i] = Data("0x200")
      BY <1>2, <1>10 DEF Binds
    <3> QED BY <1>1, <1>3, <3>1, NotReading, DataWritten
  <2> QED BY <1>4, <1>10, <2>1 DEF BindSoFar
<1>11. CASE i = 6
  <2>1. phyAddr'[PhyOf(a)]["an"] = phyData /\ UNCHANGED <<mapDA, vlan, phyReg>>
    <3>1. s[i] = Cmd("address", "an", PhyOf(a))
      BY <1>2, <1>11 DEF Binds
    <3> QED BY <1>1, <1>3, <3>1, NotReading, AddressWritten
  <2> QED BY <1>4, <1>11, <2>1 DEF BindSoFar
<1>12. CASE i = 10
  <2>1. phyAddr'[PhyOf(b)]["an"] = phyData /\ UNCHANGED <<mapDA, vlan, phyReg>>
    <3>1. s[i] = Cmd("address", "an", PhyOf(b))
      BY <1>2, <1>12 DEF Binds
    <3> QED BY <1>1, <1>3, <3>1, NotReading, AddressWritten
  <2> QED BY <1>4, <1>12, <2>1 DEF BindSoFar
<1>13. CASE i \in {7, 11}
  <2>1. phyData' = "0x1000" /\ UNCHANGED <<mapDA, vlan, phyAddr, phyReg>>
    <3>1. s[i] = Data("0x1000")
      BY <1>2, <1>13 DEF Binds
    <3> QED BY <1>1, <1>3, <3>1, NotReading, DataWritten
  <2> QED BY <1>4, <1>13, <2>1 DEF BindSoFar
<1>14. CASE i = 8
  <2>1. NoStrayWrite' /\ UNCHANGED <<mapDA, vlan>>
    <3>1. s[i] = Cmd("write", "an", PhyOf(a))
      BY <1>2, <1>14 DEF Binds
    <3>2. phyAddr[PhyOf(a)]["an"] = "0x200" /\ phyData = "0x1000"
      BY <1>14 DEF BindSoFar
    <3> QED BY <1>5, <3>1, <3>2
  <2> QED BY <1>14, <2>1 DEF BindSoFar
<1>15. CASE i = 12
  <2>1. NoStrayWrite' /\ UNCHANGED <<mapDA, vlan>>
    <3>1. s[i] = Cmd("write", "an", PhyOf(b))
      BY <1>2, <1>15 DEF Binds
    <3>2. phyAddr[PhyOf(b)]["an"] = "0x200" /\ phyData = "0x1000"
      BY <1>15 DEF BindSoFar
    <3> QED BY <1>5, <3>1, <3>2
  <2> QED BY <1>15, <2>1 DEF BindSoFar
<1> QED
  BY <1>6, <1>7, <1>8, <1>9, <1>10, <1>11, <1>12, <1>13, <1>14, <1>15

(***************************************************************************)
(* resetPortBasedVlan deals with the ports one after the other.            *)
(***************************************************************************)
LEMMA ResetDone ==
  ASSUME TypeOK, NoStrayWrite, NEW cmd \in Calls, cmd.api = "reset",
         NEW i \in 1 .. Len(Accesses(cmd)),
         ResetSoFar(i), HighSet(cmd, i), AccessDone(cmd, i)
  PROVE  ResetSoFar(i + 1)' /\ NoStrayWrite'
<1> DEFINE s == Accesses(cmd)
<1>0. LastPort \in Nat
  BY CustomizeAssumption
<1>1. s = resetPortBasedVlan
  BY CallKinds
<1>2. PICK p \in Ports : i = 2 * p + 1 \/ i = 2 * p + 2
  <2>1. Len(s) = 2 * (LastPort + 1)
    BY <1>1, ResetAccesses
  <2> QED BY <2>1, ResetAccesses
<1>3. s[2 * p + 1] = MapDA(p, TRUE) /\ s[2 * p + 2] = PortVlan(p, Ports \ {p})
  BY <1>1, ResetAccesses
<1>4. /\ IF s[i] = ReadData THEN UNCHANGED switch ELSE Written(s[i])
      /\ s[i] # ReadData => hi = HighBit(s[i])
  BY DEF AccessDone, HighSet
<1> HIDE DEF s
<1>5. ASSUME UNCHANGED phyReg PROVE NoStrayWrite'
  BY <1>5 DEF NoStrayWrite
<1>6. CASE i = 2 * p + 1
  <2>1. s[i] = MapDA(p, TRUE)
    BY <1>3, <1>6
  <2>2. /\ mapDA'[p] = TRUE /\ \A q \in Ports : q # p => mapDA'[q] = mapDA[q]
        /\ UNCHANGED <<vlan, phyReg>>
    BY <1>4, <2>1, NotReading, MapDAWritten
  <2>3. ASSUME NEW q \in Ports
        PROVE  /\ i + 1 > 2 * q + 1 => mapDA'[q]
               /\ i + 1 > 2 * q + 2 => vlan'[q] = Ports \ {q}
    <3>1. CASE q = p
      BY <1>0, <1>6, <2>2, <3>1 DEF Ports
    <3>2. CASE q # p
      BY <1>0, <1>6, <2>2, <3>2 DEF Ports, ResetSoFar
    <3> QED BY <3>1, <3>2
  <2> QED BY <1>5, <2>2, <2>3 DEF ResetSoFar
<1>7. CASE i = 2 * p + 2
  <2>1. s[i] = PortVlan(p, Ports \ {p})
    BY <1>3, <1>7
  <2>2. /\ vlan'[p] = Ports \ {p} /\ \A q \in Ports : q # p => vlan'[q] = vlan[q]
        /\ UNCHANGED <<mapDA, phyReg>>
    BY <1>4, <2>1, NotReading, VlanWritten
  <2>3. ASSUME NEW q \in Ports
        PROVE  /\ i + 1 > 2 * q + 1 => mapDA'[q]
               /\ i + 1 > 2 * q + 2 => vlan'[q] = Ports \ {q}
    <3>1. CASE q = p
      BY <1>0, <1>7, <2>2, <3>1 DEF Ports, ResetSoFar
    <3>2. CASE q # p
      BY <1>0, <1>7, <2>2, <3>2 DEF Ports, ResetSoFar
    <3> QED BY <3>1, <3>2
  <2> QED BY <1>5, <2>2, <2>3 DEF ResetSoFar
<1> QED BY <1>2, <1>6, <1>7

(***************************************************************************)
(* An access that is done, its high half written before, takes a command   *)
(* one access on, and no PHY register gets what is not meant for it.       *)
(***************************************************************************)
LEMMA Progress ==
  ASSUME TypeOK, NoStrayWrite, NEW cmd \in Calls, NEW i \in 1 .. Len(Accesses(cmd)),
         SoFar(cmd, i), HighSet(cmd, i), AccessDone(cmd, i)
  PROVE  SoFar(cmd, i + 1)' /\ NoStrayWrite'
<1>1. CASE cmd.api = "set"
  <2>1. Len(Accesses(cmd)) = 8
    BY <1>1, CallKinds, SetAccesses
  <2>2. SetSoFar(cmd.phy, cmd.mode, i)
    BY <1>1 DEF SoFar
  <2>3. SetSoFar(cmd.phy, cmd.mode, i + 1)' /\ NoStrayWrite'
    BY <1>1, <2>1, <2>2, SetDone
  <2> QED BY <1>1, <2>3 DEF SoFar
<1>2. CASE cmd.api = "get"
  <2>1. Len(Accesses(cmd)) = 4
    BY <1>2, CallKinds, CheckAccesses
  <2>2. GetSoFar(cmd.phy, i)
    BY <1>2 DEF SoFar
  <2>3. GetSoFar(cmd.phy, i + 1)' /\ NoStrayWrite'
    BY <1>2, <2>1, <2>2, GetDone
  <2> QED BY <1>2, <2>3 DEF SoFar
<1>3. CASE cmd.api = "bind"
  <2>1. Len(Accesses(cmd)) = 12
    <3>1. Binds(Accesses(cmd), cmd.a, cmd.b)
      BY <1>3, CallKinds, BindAccesses
    <3> QED BY <3>1 DEF Binds
  <2>2. BindSoFar(cmd.a, cmd.b, i)
    BY <1>3 DEF SoFar
  <2>3. BindSoFar(cmd.a, cmd.b, i + 1)' /\ NoStrayWrite'
    BY <1>3, <2>1, <2>2, BindDone
  <2> QED BY <1>3, <2>3 DEF SoFar
<1>4. CASE cmd.api = "reset"
  <2>1. ResetSoFar(i)
    BY <1>4 DEF SoFar
  <2>2. ResetSoFar(i + 1)' /\ NoStrayWrite'
    BY <1>4, <2>1, ResetDone
  <2> QED BY <1>4, <2>2 DEF SoFar
<1> QED BY <1>1, <1>2, <1>3, <1>4, CallKinds

(***************************************************************************)
(* No command has got anywhere before its first access.                    *)
(***************************************************************************)
LEMMA NothingYet == \A cmd : SoFar(cmd, 1)
<1>1. \A p \in Ports : ~(1 > 2 * p + 1) /\ ~(1 > 2 * p + 2)
  BY CustomizeAssumption DEF Ports
<1> QED BY <1>1 DEF SoFar, SetSoFar, GetSoFar, BindSoFar, ResetSoFar

(***************************************************************************)
(* What a command has got to does not depend on anything but the registers.*)
(***************************************************************************)
LEMMA SameRegisters ==
  ASSUME UNCHANGED <<mapDA, vlan, phyData, phyAddr, phyReg>>
  PROVE  /\ \A cmd, i : SoFar(cmd, i)' = SoFar(cmd, i)
         /\ NoStrayWrite' = NoStrayWrite
         /\ \A phy : ModeOf(phy)' = ModeOf(phy)
BY DEF SoFar, SetSoFar, GetSoFar, BindSoFar, ResetSoFar, NoStrayWrite, ModeOf

(***************************************************************************)
(* What is told when a command ends is what it has got to.                 *)
(***************************************************************************)
LEMMA Told ==
  ASSUME NEW cmd \in Calls, NEW i, i = Len(Accesses(cmd)), SoFar(cmd, i + 1)',
         NEW word, cmd.api = "get" => word = phyData' \/ word = "0",
         NEW told, told = Result(cmd, word)
  PROVE  /\ cmd.api = "get" /\ told = "Master" => ModeOf(cmd.phy)' = "master"
         /\ cmd.api = "get" /\ told = "Slave" => ModeOf(cmd.phy)' = "slave"
         /\ cmd.api = "set" => ModeOf(cmd.phy)' = cmd.mode
         /\ cmd.api = "bind" => /\ vlan'[cmd.a] = {cmd.b} /\ vlan'[cmd.b] = {cmd.a}
                                /\ ~mapDA'[cmd.a] /\ ~mapDA'[cmd.b]
         /\ cmd.api = "reset" => \A p \in Ports : vlan'[p] = Ports \ {p} /\ mapDA'[p]
<1>1. CASE cmd.api = "get"
  <2>1. i = 4
    BY <1>1, CallKinds, CheckAccesses
  <2>2. ModeOf(cmd.phy)' = phyData'
    BY <1>1, <2>1 DEF SoFar, GetSoFar, ModeOf
  <2>4. told \in {"Master", "Slave"} => word = phyData'
    BY <1>1 DEF Result
  <2>5. /\ told = "Master" => word = "master"
        /\ told = "Slave" => word = "slave"
    BY <1>1 DEF Result
  <2> QED BY <1>1, <2>2, <2>4, <2>5
<1>2. CASE cmd.api = "set"
  <2>1. i = 8
    <3>1. Accesses(cmd) = setMasterOrSlave(cmd.phy, cmd.mode)
      BY <1>2, CallKinds
    <3>2. Len(setMasterOrSlave(cmd.phy, cmd.mode)) = 8
      BY SetAccesses
    <3> QED BY <3>1, <3>2
  <2> QED BY <1>2, <2>1 DEF SoFar, SetSoFar, ModeOf
<1>3. CASE cmd.api = "bind"
  <2>1. i = 12
    <3>1. Binds(Accesses(cmd), cmd.a, cmd.b)
      BY <1>3, CallKinds, BindAccesses
    <3> QED BY <3>1 DEF Binds
  <2> QED BY <1>3, <2>1 DEF SoFar, BindSoFar
<1>4. CASE cmd.api = "reset"
  <2>1. i = 2 * (LastPort + 1)
    BY <1>4, CallKinds, ResetAccesses
  <2>2. ASSUME NEW p \in Ports PROVE i + 1 > 2 * p + 2
    BY <2>1, CustomizeAssumption DEF Ports
  <2>3. ResetSoFar(i + 1)'
    BY <1>4 DEF SoFar
  <2>4. ASSUME NEW p \in Ports PROVE vlan'[p] = Ports \ {p} /\ mapDA'[p]
    <3>1. i + 1 > 2 * p + 1
      BY <2>1, CustomizeAssumption DEF Ports
    <3> QED BY <2>2, <2>3, <3>1 DEF ResetSoFar
  <2> QED BY <1>4, <2>4
<1> QED BY <1>1, <1>2, <1>3, <1>4, CallKinds

(***************************************************************************)
(* A command reads at its end.                                             *)
(***************************************************************************)
LEMMA ReadIsLast ==
  ASSUME NEW cmd \in Calls, NEW i \in 1 .. Len(Accesses(cmd)), Accesses(cmd)[i] = ReadData
  PROVE  i = Len(Accesses(cmd))
<1> DEFINE s == Accesses(cmd)
<1>1. CASE cmd.api = "set"
  <2>1. /\ Len(s) = 8 /\ cmd.mode \in Words
        /\ s[1] = Data("0x834") /\ s[2] = Cmd("address", "pma", cmd.phy)
        /\ s[3] = Data(cmd.mode) /\ s[4] = Cmd("write", "pma", cmd.phy)
        /\ s[5] = Data("0x834") /\ s[6] = Cmd("address", "pma", cmd.phy)
        /\ s[7] = Cmd("read", "pma", cmd.phy)
    BY <1>1, CallKinds, SetAccesses DEF Words
  <2>2. /\ s[1] # ReadData /\ s[2] # ReadData /\ s[3] # ReadData /\ s[4] # ReadData
        /\ s[5] # ReadData /\ s[6] # ReadData /\ s[7] # ReadData
    BY <2>1, NotReading DEF Words
  <2> HIDE DEF s
  <2>3. i \in 1 .. 8 /\ s[i] = ReadData
    BY <2>1 DEF s
  <2> QED BY <2>1, <2>2, <2>3 DEF s
<1>2. CASE cmd.api = "get"
  <2>1. /\ Len(s) = 4
        /\ s[1] = Data("0x834") /\ s[2] = Cmd("address", "pma", cmd.phy)
        /\ s[3] = Cmd("read", "pma", cmd.phy)
    BY <1>2, CallKinds, CheckAccesses
  <2>2. s[1] # ReadData /\ s[2] # ReadData /\ s[3] # ReadData
    BY <2>1, NotReading DEF Words
  <2> HIDE DEF s
  <2>3. i \in 1 .. 4 /\ s[i] = ReadData
    BY <2>1 DEF s
  <2> QED BY <2>1, <2>2, <2>3 DEF s
<1>3. CASE cmd.api = "bind"
  <2>1. Binds(s, cmd.a, cmd.b)
    BY <1>3, CallKinds, BindAccesses
  <2> HIDE DEF s
  <2>2. /\ s[1] # ReadData /\ s[2] # ReadData /\ s[3] # ReadData /\ s[4] # ReadData
        /\ s[5] # ReadData /\ s[6] # ReadData /\ s[7] # ReadData /\ s[8] # ReadData
        /\ s[9] # ReadData /\ s[10] # ReadData /\ s[11] # ReadData /\ s[12] # ReadData
        /\ Len(s) = 12
    BY <2>1, NotReading DEF Binds, Words
  <2>3. i \in 1 .. 12 /\ s[i] = ReadData
    BY <2>2 DEF s
  <2> QED BY <2>2, <2>3
<1>4. CASE cmd.api = "reset"
  <2>1. s = resetPortBasedVlan /\ Len(s) = 2 * (LastPort + 1)
    BY <1>4, CallKinds, ResetAccesses
  <2>2. PICK p \in Ports : i = 2 * p + 1 \/ i = 2 * p + 2
    BY <2>1, ResetAccesses
  <2>3. /\ resetPortBasedVlan[2 * p + 1] = MapDA(p, TRUE)
        /\ resetPortBasedVlan[2 * p + 2] = PortVlan(p, Ports \ {p})
    BY ResetAccesses
  <2>4. s[2 * p + 1] # ReadData /\ s[2 * p + 2] # ReadData
    BY <2>1, <2>3, NotReading
  <2> QED BY <2>2, <2>4
<1> QED BY <1>1, <1>2, <1>3, <1>4, CallKinds

(***************************************************************************)
(* Where a client is after a step.                                         *)
(***************************************************************************)
LEMMA Then ==
  ASSUME NEW c, NEW cmd, NEW i, call'[c] = cmd, at'[c] = i
  PROVE  SoFar(call[c], at[c])' = SoFar(cmd, i)'
BY DEF SoFar, SetSoFar, GetSoFar, BindSoFar, ResetSoFar

(***************************************************************************)
(* The invariant holds at the beginning.                                   *)
(***************************************************************************)
LEMMA ToolInit == Init => ToolInv
<1> SUFFICES ASSUME Init PROVE ToolInv
  OBVIOUS
<1>1. TypeInv
  BY TypeInit
<1>2. NoStrayWrite
  BY DEF Init, NoStrayWrite
<1>3. ASSUME NEW c \in Clients PROVE ClientInv(c) /\ out[c] = "none"
  BY <1>3 DEF Init, ClientInv, Halfway
<1> QED BY <1>1, <1>2, <1>3 DEF ToolInv, ToldModeIsSet, VlanIsDone, Finished

(***************************************************************************)
(* A step of the one client keeps it.                                      *)
(***************************************************************************)
LEMMA ToolStep ==
  ASSUME OneClient, Heeded, ToolInv, [Next]_vars
  PROVE  ToolInv'
<1>1. TypeInv /\ TypeInv' /\ TypeOK
  BY TypeStep DEF ToolInv, TypeInv
<1>2. ASSUME NEW c \in Clients, pc'[c] # "idle"
      PROVE  ToldModeIsSet' /\ VlanIsDone'
  BY <1>2 DEF OneClient, ToldModeIsSet, VlanIsDone, Finished
<1>3. ASSUME NEW c \in Clients PROVE \A d \in Clients : d = c
  BY DEF OneClient
<1>4. ASSUME NEW c \in Clients, NEW cmd \in Calls, Call(c, cmd) PROVE ToolInv'
  <2>1. UNCHANGED switch /\ pc'[c] = "first" /\ call'[c] = cmd /\ at'[c] = 1 /\ got' = got
    BY <1>1, <1>4 DEF Call, TypeInv, TypeOK
  <2>2. got[c] = "0"
    BY <1>4 DEF Call, ToolInv, ClientInv, Halfway
  <2>3. SoFar(cmd, 1)' /\ NoStrayWrite'
    BY <2>1, NothingYet, SameRegisters DEF switch, ToolInv
  <2>4. SoFar(call[c], at[c])'
    BY <2>1, <2>3, Then
  <2>5. ClientInv(c)'
    BY <2>1, <2>2, <2>4 DEF ClientInv, Halfway
  <2> QED BY <1>1, <1>2, <1>3, <2>1, <2>3, <2>5 DEF ToolInv
<1>5. ASSUME NEW c \in Clients, First(c) \/ FirstFails(c) PROVE ToolInv'
  <2> DEFINE cmd == call[c]
             i == at[c]
  <2>1. /\ pc[c] = "first" /\ pc'[c] = "second" /\ call' = call /\ at' = at
        /\ UNCHANGED <<mapDA, vlan, phyData, phyAddr, phyReg>>
    BY <1>1, <1>5 DEF First, FirstFails, TypeOK
  <2>2. got[c] = "0" /\ SoFar(call[c], at[c])
    BY <2>1 DEF ToolInv, ClientInv, Halfway
  <2>3. SoFar(call[c], at[c])' /\ NoStrayWrite'
    BY <2>1, <2>2, SameRegisters, Then DEF ToolInv
  <2>4. Reading(c)' = Reading(c)
    BY <2>1 DEF Reading, Access
  <2>5. got'[c] # "0" => Reading(c) /\ got'[c] = phyData'
    BY <1>1, <1>5, <2>1, <2>2 DEF First, FirstFails, TypeOK
  <2>6. HighSet(call[c], at[c])'
    <3>1. CASE First(c)
      BY <2>1, <3>1 DEF First, HighSet, Reading, Access
    <3>2. CASE FirstFails(c)
      BY <2>1, <3>2 DEF FirstFails, HighSet, Heeded
    <3> QED BY <1>5, <3>1, <3>2
  <2>7. ClientInv(c)'
    BY <2>1, <2>3, <2>4, <2>5, <2>6 DEF ClientInv, Halfway
  <2> QED BY <1>1, <1>2, <1>3, <2>1, <2>3, <2>7 DEF ToolInv
<1>6. ASSUME NEW c \in Clients, pc[c] = "second", NEW word
      PROVE  /\ call[c] \in Calls /\ at[c] \in 1 .. Len(Accesses(call[c]))
             /\ SoFar(call[c], at[c]) /\ HighSet(call[c], at[c])
             /\ got[c] # "0" => Reading(c) /\ got[c] = phyData
  BY <1>1, <1>6 DEF ToolInv, ClientInv, Halfway, TypeOK
<1>7. ASSUME NEW c \in Clients, NEW cmd, cmd = call[c], NEW i, i = at[c],
             pc[c] = "second", AccessDone(cmd, i)
      PROVE  SoFar(cmd, i + 1)' /\ NoStrayWrite'
  BY <1>1, <1>6, <1>7, Progress DEF ToolInv
<1>8. ASSUME NEW c \in Clients, Second(c) PROVE ToolInv'
  <2>1. PICK cmd \in Calls : cmd = call[c]
    BY <1>1 DEF TypeOK
  <2>2. PICK i \in 1 .. Len(Accesses(cmd)) : i = at[c]
    BY <1>1, <2>1 DEF TypeOK
  <2>3. /\ pc[c] = "second" /\ call' = call /\ AccessDone(cmd, i)
        /\ Advance(c, IF hi THEN "0" ELSE got[c])
    BY <1>8, <2>1, <2>2 DEF Second, AccessDone, Reading, Access
  <2>4. SoFar(cmd, i + 1)' /\ NoStrayWrite'
    BY <1>7, <2>1, <2>2, <2>3
  <2>5. Len(Accesses(cmd)) \in Nat
    BY AccessRange
  <2>6. CASE i < Len(Accesses(cmd))
    <3>1. pc'[c] = "first" /\ at'[c] = i + 1 /\ got' = got
      BY <1>1, <2>1, <2>2, <2>3, <2>6 DEF Advance, TypeInv, TypeOK
    <3>2. ~Reading(c)
      BY <2>1, <2>2, <2>5, <2>6, ReadIsLast DEF Reading, Access
    <3>3. got'[c] = "0"
      BY <1>6, <2>3, <3>1, <3>2
    <3>4. SoFar(call[c], at[c])'
      BY <2>1, <2>3, <2>4, <3>1, Then
    <3>5. ClientInv(c)'
      BY <3>1, <3>3, <3>4 DEF ClientInv, Halfway
    <3> QED BY <1>1, <1>2, <1>3, <2>4, <3>1, <3>5 DEF ToolInv
  <2>7. CASE ~(i < Len(Accesses(cmd)))
    <3> DEFINE word == IF hi THEN "0" ELSE got[c]
    <3>1. /\ pc'[c] = "idle" /\ got'[c] = "0" /\ out'[c] = Result(cmd, word)
          /\ call'[c] = cmd /\ i = Len(Accesses(cmd))
      BY <1>1, <2>1, <2>2, <2>3, <2>5, <2>7 DEF Advance, Return, TypeOK
    <3>2. word = phyData' \/ word = "0"
      <4>1. CASE got[c] = "0"
        BY <4>1
      <4>2. CASE got[c] # "0"
        <5>1. Reading(c) /\ got[c] = phyData
          BY <1>6, <2>3, <4>2
        <5>2. UNCHANGED phyData
          BY <1>8, <5>1 DEF Second, switch
        <5> QED BY <5>1, <5>2
      <4> QED BY <4>1, <4>2
    <3> HIDE DEF word
    <3>3. PICK told : told = Result(cmd, word)
      OBVIOUS
    <3>4. /\ cmd.api = "get" /\ told = "Master" => ModeOf(cmd.phy)' = "master"
          /\ cmd.api = "get" /\ told = "Slave" => ModeOf(cmd.phy)' = "slave"
          /\ cmd.api = "set" => ModeOf(cmd.phy)' = cmd.mode
          /\ cmd.api = "bind" => /\ vlan'[cmd.a] = {cmd.b} /\ vlan'[cmd.b] = {cmd.a}
                                 /\ ~mapDA'[cmd.a] /\ ~mapDA'[cmd.b]
          /\ cmd.api = "reset" => \A p \in Ports : vlan'[p] = Ports \ {p} /\ mapDA'[p]
      BY <2>4, <3>1, <3>2, <3>3, Told
    <3>5. ToldModeIsSet' /\ VlanIsDone'
      BY <1>3, <3>1, <3>3, <3>4 DEF ToldModeIsSet, VlanIsDone, Finished, ModeOf
    <3>6. ClientInv(c)'
      BY <3>1 DEF ClientInv, Halfway
    <3> QED BY <1>1, <1>3, <2>4, <3>5, <3>6 DEF ToolInv
  <2> QED BY <2>6, <2>7
<1>9. ASSUME NEW c \in Clients, SecondFails(c) PROVE ToolInv'
  <2>1. PICK cmd \in Calls : cmd = call[c]
    BY <1>1 DEF TypeOK
  <2>2. PICK i \in 1 .. Len(Accesses(cmd)) : i = at[c]
    BY <1>1, <2>1 DEF TypeOK
  <2>3. cmd.api \in {"set", "get"}
    BY <1>9, <2>1 DEF SecondFails, Heeded
  <2>4. /\ pc[c] = "second" /\ call' = call
        /\ UNCHANGED switch \/ AccessDone(cmd, i)
        /\ Return(c, ErrorResult(cmd))
    BY <1>9, <2>1, <2>2, <2>3 DEF SecondFails, StopsAtError, AccessDone, Reading, Access
  <2>5. NoStrayWrite'
    <3>1. CASE UNCHANGED switch
      BY <3>1, SameRegisters DEF switch, ToolInv
    <3>2. CASE AccessDone(cmd, i)
      BY <1>7, <2>1, <2>2, <2>4, <3>2
    <3> QED BY <2>4, <3>1, <3>2
  <2>6. /\ pc'[c] = "idle" /\ got'[c] = "0" /\ call'[c] = cmd
        /\ out'[c] = ErrorResult(cmd)
    BY <1>1, <2>1, <2>4 DEF Return, TypeOK
  <2>7. ToldModeIsSet' /\ VlanIsDone'
    BY <1>3, <2>3, <2>6 DEF ToldModeIsSet, VlanIsDone, Finished, ErrorResult
  <2>8. ClientInv(c)'
    BY <2>6 DEF ClientInv, Halfway
  <2> QED BY <1>1, <1>3, <2>5, <2>7, <2>8 DEF ToolInv
<1>10. CASE UNCHANGED vars
  <2>1. NoStrayWrite' /\ ToldModeIsSet' /\ VlanIsDone'
    BY <1>10 DEF vars, switch, ToolInv, NoStrayWrite, ToldModeIsSet, VlanIsDone, Finished, ModeOf
  <2>2. ASSUME NEW c \in Clients PROVE ClientInv(c)'
    <3>1. SoFar(call[c], at[c])' = SoFar(call[c], at[c])
      BY <1>10, SameRegisters, Then DEF vars, switch
    <3>2. ClientInv(c)
      BY DEF ToolInv
    <3> QED BY <1>10, <3>1, <3>2 DEF vars, switch, ClientInv, Halfway, HighSet, Reading, Access
  <2> QED BY <1>1, <2>1, <2>2 DEF ToolInv
<1> QED BY <1>4, <1>5, <1>8, <1>9, <1>10 DEF Next

(***************************************************************************)
(* So it holds always.                                                     *)
(***************************************************************************)
LEMMA ToolInvHolds ==
  ASSUME OneClient, Heeded
  PROVE  Spec => []ToolInv
<1>1. ToolInv /\ [Next]_vars => ToolInv'
  BY ToolStep
<1> QED BY <1>1, ToolInit, PTL DEF Spec

(***************************************************************************)
(* What the CLI says of the mode of a PHY is so, for one client, any PHYs  *)
(* and any failures of the accesses to them (customize.c:38-86, 143-228).  *)
(***************************************************************************)
THEOREM WhatIsToldIsSo ==
  ASSUME OneClient, Heeded
  PROVE  Spec => []ToldModeIsSet
<1>1. ToolInv => ToldModeIsSet
  BY DEF ToolInv
<1> QED BY <1>1, ToolInvHolds, PTL

(***************************************************************************)
(* And no command writes what it should not: the address that a PHY was    *)
(* given is its client's own at each write (customize.c:57-79, 124-138).   *)
(***************************************************************************)
THEOREM WritesAreMeant ==
  ASSUME OneClient, Heeded
  PROVE  Spec => []NoStrayWrite
<1>1. ToolInv => NoStrayWrite
  BY DEF ToolInv
<1> QED BY <1>1, ToolInvHolds, PTL

(***************************************************************************)
(* Two ports that are bound send to each other only, and after a reset     *)
(* every port sends to all the others, the last one, with its bit in the   *)
(* high half, included (customize.c:88-141).                               *)
(***************************************************************************)
THEOREM VlansAreDone ==
  ASSUME OneClient, Heeded
  PROVE  Spec => []VlanIsDone
<1>1. ToolInv => VlanIsDone
  BY DEF ToolInv
<1> QED BY <1>1, ToolInvHolds, PTL
=============================================================================
