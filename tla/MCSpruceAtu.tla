---------------------------- MODULE MCSpruceAtu -----------------------------
(* Instances of SpruceAtu for TLC. *)
EXTENDS SpruceAtu, TLC

CONSTANTS t1, t2, p1, p2, lan1, lan2

OneProcess == [t \in Threads |-> p1]

Static(p) == [state |-> "static", vec |-> {p}]
Load(d, m, e) == [op |-> "load", db |-> d, mac |-> m, entry |-> e]
GetNext(d, m) == [op |-> "next", db |-> d, mac |-> m]
Find(d, m) == [op |-> "find", db |-> d, mac |-> m]
Flush(d, inDb, static, from, to) ==
  [op |-> "flush", db |-> d, inDb |-> inDb, static |-> static, from |-> from, to |-> to]

\* A load, searches and a flush, which use the same registers.
RaceCalls ==
  {Load(1, 0, Static(lan1)), GetNext(1, 0), Flush(1, TRUE, FALSE, NoPort, NoPort), Find(1, 0)}
\* Every find, over every table that loads, purges and moves make.
LookupCalls ==
  {Load(1, m, e) : m \in Macs, e \in {Static(lan1), Invalid}} \cup {Find(1, m) : m \in Macs}
   \cup {Flush(1, TRUE, TRUE, lan1, lan2)}
=============================================================================
