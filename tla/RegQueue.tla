------------------------------ MODULE RegQueue ------------------------------
(***************************************************************************)
(* What register access over a network promises its only client: the       *)
(* switch executes the accesses in the order of their calls, none twice.   *)
(* One that returns MSD_OK was executed after all those before it.  One    *)
(* that returns an error was executed, is not executed at all, or comes    *)
(* late: after its return, but before any access the client makes then.    *)
(* The same goes for one that took a frame that answers nothing for its    *)
(* answer: it returns MSD_OK, and any value.                               *)
(***************************************************************************)
EXTENDS Sequences

CONSTANTS
  Regs,
  Vals,
  InitVal

Ops == [kind : {"read", "write"}, reg : Regs, val : Vals]

VARIABLES
  regs,    \* the registers
  late,    \* accesses that returned and are still to be executed
  op,      \* the present access
  phase,   \* idle, called, executed, lost (no answer will come) or done
  status,  \* what the access returned
  value,   \* what a read that succeeded stored in *value
  stray    \* the access returns what a frame that answers nothing holds

vars == <<regs, late, op, phase, status, value, stray>>

Init ==
  /\ regs = [r \in Regs |-> InitVal]
  /\ late = <<>>
  /\ op \in Ops
  /\ phase = "idle"
  /\ status = "MSD_OK"
  /\ value = InitVal
  /\ stray = FALSE

After(o) == IF o.kind = "write" THEN [regs EXCEPT ![o.reg] = o.val] ELSE regs

Call(o) ==
  /\ phase = "idle" /\ phase' = "called"
  /\ op' = o
  /\ UNCHANGED <<regs, late, status, value, stray>>

ExecuteLate ==
  /\ late # <<>>
  /\ regs' = After(Head(late))
  /\ late' = Tail(late)
  /\ UNCHANGED <<op, phase, status, value, stray>>

\* The answer is on its way, or it is lost.
Execute ==
  /\ late = <<>>
  /\ phase = "called" /\ phase' \in {"executed", "lost"}
  /\ regs' = After(op)
  /\ UNCHANGED <<late, op, status, value, stray>>

\* The request never reaches the switch.
Lose ==
  /\ phase = "called" /\ phase' = "lost"
  /\ UNCHANGED <<regs, late, op, status, value, stray>>

Succeed ==
  /\ phase = "executed" /\ phase' = "done"
  /\ status' = "MSD_OK"
  /\ value' = IF op.kind = "read" THEN regs[op.reg] ELSE value
  /\ UNCHANGED <<regs, late, op, stray>>

\* The access ends without the answer of the switch; its request may still be executed.
GiveUp ==
  /\ phase \in {"called", "executed", "lost"} /\ phase' = "done"
  /\ late' = late \/ (phase = "called" /\ late' = Append(late, op))
  /\ UNCHANGED <<regs, op>>

Fail ==
  /\ GiveUp
  /\ status' = "MSD_FAIL"
  /\ UNCHANGED <<value, stray>>

Stray ==
  /\ GiveUp
  /\ status' = "MSD_OK"
  /\ stray' = TRUE
  /\ value' \in IF op.kind = "read" THEN Vals ELSE {value}

\* The caller has the result; it and the parameters mean nothing until the next call.
Return ==
  /\ phase = "done" /\ phase' = "idle"
  /\ op' \in Ops
  /\ status' = "MSD_OK"
  /\ value' = InitVal
  /\ stray' = FALSE
  /\ UNCHANGED <<regs, late>>

Next ==
  \/ \E o \in Ops : Call(o)
  \/ ExecuteLate \/ Execute \/ Lose \/ Succeed \/ Fail \/ Stray \/ Return

Spec == Init /\ [][Next]_vars
=============================================================================
