---------------------------- MODULE MCCustomize -----------------------------
(* Instances of Customize for TLC. *)
EXTENDS Customize

Get(phy) == [api |-> "get", phy |-> phy]
Set(phy, mode) == [api |-> "set", phy |-> phy, mode |-> mode]
Bind(a, b) == [api |-> "bind", a |-> a, b |-> b]

PhyCalls == UNION {{Get(p), Set(p, "master"), Set(p, "slave")} : p \in {0, LastPort}}
VlanCalls == {Bind(a, b) : a \in Ports, b \in Ports} \cup {[api |-> "reset"]}
AllCalls == PhyCalls \cup VlanCalls
=============================================================================
