-------------------------------- MODULE Atu --------------------------------
(***************************************************************************)
(* What the switch's address translation unit does with the operations the *)
(* driver issues to it, on a table of MAC addresses per database.  A MAC   *)
(* address is a number; the greatest one is the broadcast address.         *)
(***************************************************************************)
EXTENDS Integers

CONSTANTS
  Dbs,      \* forwarding databases (FIDs)
  LastMac,  \* ff:ff:ff:ff:ff:ff
  Ports,
  HighPorts,\* those whose bits of a port vector are in the upper half of the data register
  NoPort    \* no port; also 0x1F, where entries move to in order to be removed

ASSUME AtuAssumption ==
  /\ LastMac \in Nat /\ LastMac > 0
  /\ HighPorts \subseteq Ports
  /\ NoPort \notin Ports

Macs == 0 .. LastMac
Broadcast == LastMac

Invalid == [state |-> "invalid", vec |-> {}]
Entries == [state : {"dynamic", "static"}, vec : SUBSET Ports]
Tables == [Dbs -> [Macs -> Entries \cup {Invalid}]]

\* The operation of a request: LOAD_PURGE with an entry (Invalid purges), GET_NEXT,
\* or FLUSH of all or the non-static entries, which moves them if from is a port.
LoadRequests == [op : {"load"}, db : Dbs, mac : Macs, entry : Entries \cup {Invalid}]
NextRequests == [op : {"next"}, db : Dbs, mac : Macs]
FlushRequests ==
  [op : {"flush"}, db : Dbs, inDb : BOOLEAN, static : BOOLEAN,
   from : Ports \cup {NoPort}, to : Ports \cup {NoPort}]
AllRequests == LoadRequests \cup NextRequests \cup FlushRequests

Learnt(table, d, m, p) == [table EXCEPT ![d][m] = [state |-> "dynamic", vec |-> {p}]]

\* An entry whose ports of the upper half are what that half of the register held before.
\* Loading one of state 0 removes the entry, whatever its ports are.
WithHigh(entry, high) ==
  IF entry = Invalid THEN Invalid ELSE [entry EXCEPT !.vec = (@ \ HighPorts) \cup high]

\* An entry of which only the upper half was read: its state, too, reads as 0.
HalfEntries == [state : {"invalid"}, vec : SUBSET HighPorts]

Valid(table, d) == {m \in Macs : table[d][m] # Invalid}

\* The entry after mac; the search wraps at the broadcast address, which is also
\* what an unsuccessful one ends at.
NextMac(table, d, mac) ==
  LET after == {m \in Valid(table, d) : m > mac \/ mac = Broadcast}
  IN IF after = {} THEN Broadcast ELSE CHOOSE m \in after : \A n \in after : m <= n

\* A move that leaves an entry without ports removes it.
Moved(entry, from, to) ==
  LET vec == (entry.vec \ {from}) \cup ({to} \ {NoPort})
  IN IF vec = {} THEN Invalid ELSE [entry EXCEPT !.vec = vec]

Flushed(entry, req) ==
  IF entry = Invalid \/ (entry.state = "static" /\ ~req.static) THEN entry
  ELSE IF req.from = NoPort THEN Invalid
  ELSE IF req.from \notin entry.vec THEN entry
  ELSE Moved(entry, req.from, req.to)

\* The table after an operation, and what GET_NEXT leaves in the registers.
Effect(table, req) ==
  CASE req.op = "load" -> [table EXCEPT ![req.db][req.mac] = req.entry]
    [] req.op = "next" -> table
    [] req.op = "flush" ->
         [d \in Dbs |-> [m \in Macs |->
            IF req.inDb /\ d # req.db THEN table[d][m] ELSE Flushed(table[d][m], req)]]

Found(table, req) ==
  LET m == NextMac(table, req.db, req.mac) IN [mac |-> m, entry |-> table[req.db][m]]
=============================================================================
