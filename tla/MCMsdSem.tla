------------------------------ MODULE MCMsdSem ------------------------------
(* Instances of MsdSem for TLC. *)
EXTENDS MsdSem, TLC

CONSTANTS t1, t2, p1, p2

OneProcess == [t \in Threads |-> p1]
OneThreadEach == (t1 :> p1) @@ (t2 :> p2)

AllSmi == [p \in Procs |-> "SMI"]
SmiAndRmu == (p1 :> "SMI") @@ (p2 :> "RMU")
=============================================================================
