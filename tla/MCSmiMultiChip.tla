--------------------------- MODULE MCSmiMultiChip ---------------------------
(* Instances of SmiMultiChip for TLC. *)
EXTENDS SmiMultiChip, TLC

CONSTANTS t1, t2, p1, p2

OneProcess == [t \in Threads |-> p1]
OneThreadEach == (t1 :> p1) @@ (t2 :> p2)
=============================================================================
