---------------------------- MODULE UnitPrograms ----------------------------
(***************************************************************************)
(* Steps of operations on units of the switch, from which the catalogues   *)
(* of the device families build their programs for RegisterUnit.  Registers *)
(* that hold one operand and are written one after the other are one field, *)
(* and so are the registers of an answer.  A wait that follows another one *)
(* directly is left out.  The functions for the multi-chip bus             *)
(* (..._MultiChip) have the same order.                                    *)
(***************************************************************************)
EXTENDS Sequences, TLC

(* Steps.  "own" is the value the call is about, "saved" what it has read   *)
(* and keeps, "found" what it has read at first and puts back at last.      *)

step(kind) == [do |-> kind, writes |-> <<>>, need |-> <<>>, reads |-> {}]
own(fs) == [f \in fs |-> "own"]

take == step("take")     \* msdSemTake
give == step("give")     \* msdSemGive
wait == step("wait")     \* loop until the busy bit is clear; it may be bounded and fail
test == step("test")     \* the busy bit is read once, and ends the call
poll == step("poll")     \* loop that goes on when it has been round often enough
stop == step("stop")     \* return, or not, because of what was read
get == step("get")       \* read an answer
put(w) == [step("put") EXCEPT !.writes = w]
set(f) == put(own({f}))
read(fs) == [step("read") EXCEPT !.reads = fs]
cmd(w, need) == [step("cmd") EXCEPT !.writes = w, !.need = need]
look(need) == [step("look") EXCEPT !.need = need]

(* Extended registers, of which half is accessed through another register:  *)
(* of a write the high half comes first, of a read the low half, and the    *)
(* result of that access is overwritten with the second one's.              *)
putHalf(high) == [step("putHalf") EXCEPT !.writes = own({high})]
getHalf(low, need) == [step("getHalf") EXCEPT !.reads = {low}, !.need = need]
setWide(low, high) == <<putHalf(high), set(low)>>
getWide(low) == <<getHalf(low, <<>>), get>>
lookWide(low, need) == <<getHalf(low, need), look(need)>>

run(need) == cmd(<<>>, need)
LookOnly == look(<<>>)

(* A field of a register is set: the register is read and written back.     *)
setField(f, v, register) ==
  <<read(register \ {f}),
    put(f :> v @@ [g \in register \ {f} |-> "saved"])>>

-----------------------------------------------------------------------------
(* A catalogue under the name of its family.  (TLC evaluates what @@ gives  *)
(* once, and a function in brackets whenever it is applied.)                *)
Family(name, catalogue) == [o \in (DOMAIN catalogue) \X {name} |-> catalogue[o[1]]] @@ <<>>
=============================================================================
