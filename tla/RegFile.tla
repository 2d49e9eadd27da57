------------------------------ MODULE RegFile -------------------------------
(***************************************************************************)
(* What register access promises its callers: the switch is a file of      *)
(* registers, an access that returns MSD_OK has happened at one instant    *)
(* between its call and its return, and one that returns an error read     *)
(* nothing and wrote its value once or not at all.                         *)
(***************************************************************************)
CONSTANTS
  Threads,   \* callers
  Regs,      \* (device address, register address) pairs
  Vals,      \* register contents
  InitVal    \* what the registers hold at the start

Ops == [kind : {"read", "write"}, reg : Regs, val : Vals]

VARIABLES
  regs,      \* the registers
  op,        \* the access each thread has called last
  phase,     \* idle, called or done
  status,    \* what the access returned
  value      \* what it stored in *data

vars == <<regs, op, phase, status, value>>

TypeOK ==
  /\ regs \in [Regs -> Vals]
  /\ op \in [Threads -> Ops]
  /\ phase \in [Threads -> {"idle", "called", "done"}]
  /\ status \in [Threads -> {"MSD_OK", "MSD_FAIL"}]
  /\ value \in [Threads -> Vals]

Init ==
  /\ regs = [r \in Regs |-> InitVal]
  /\ op \in [Threads -> Ops]
  /\ phase = [t \in Threads |-> "idle"]
  /\ status = [t \in Threads |-> "MSD_OK"]
  /\ value = [t \in Threads |-> InitVal]

Call(t, o) ==
  /\ phase[t] = "idle"
  /\ phase' = [phase EXCEPT ![t] = "called"]
  /\ op' = [op EXCEPT ![t] = o]
  /\ UNCHANGED <<regs, status, value>>

Done(t, s) ==
  /\ phase[t] = "called"
  /\ phase' = [phase EXCEPT ![t] = "done"]
  /\ status' = [status EXCEPT ![t] = s]
  /\ UNCHANGED op

Store(t) == regs' = [regs EXCEPT ![op[t].reg] = op[t].val]

Read(t) ==
  /\ op[t].kind = "read"
  /\ Done(t, "MSD_OK")
  /\ value' = [value EXCEPT ![t] = regs[op[t].reg]]
  /\ UNCHANGED regs

Write(t) ==
  /\ op[t].kind = "write"
  /\ Done(t, "MSD_OK")
  /\ Store(t)
  /\ UNCHANGED value

Fail(t) ==
  /\ Done(t, "MSD_FAIL")
  /\ \/ UNCHANGED regs
     \/ op[t].kind = "write" /\ Store(t)
  /\ UNCHANGED value

\* The caller has the result; the parameters mean nothing until the next call.
Return(t) ==
  /\ phase[t] = "done"
  /\ phase' = [phase EXCEPT ![t] = "idle"]
  /\ \E o \in Ops : op' = [op EXCEPT ![t] = o]
  /\ status' = [status EXCEPT ![t] = "MSD_OK"]
  /\ value' = [value EXCEPT ![t] = InitVal]
  /\ UNCHANGED regs

Next ==
  \E t \in Threads :
    \/ \E o \in Ops : Call(t, o)
    \/ Read(t) \/ Write(t) \/ Fail(t) \/ Return(t)

Spec == Init /\ [][Next]_vars
=============================================================================
