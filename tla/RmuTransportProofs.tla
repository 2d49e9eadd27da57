------------------------- MODULE RmuTransportProofs -------------------------
(***************************************************************************)
(* What a client alone on its socket gets, for every number of sequence    *)
(* numbers, every length of the queues and whatever is lost or fails.      *)
(***************************************************************************)
EXTENDS RmuTransport, SequenceTheorems, TLAPS

(* The conditions of the theorems about answers: one client, and fewer      *)
(* accesses in a row that do not take their answer, be it that they are     *)
(* given up or take a foreign frame, than there are sequence numbers.       *)
OneClient == \A p, q \in Procs : p = q
FewGivenUp == MaxFails < SeqMod

(* The sequence number a places before s. *)
Back(s, a) == IF s >= a THEN s - a ELSE s - a + SeqMod

InAccess(p) == pc[p] \in {"send", "recv"}

(* Accesses since the last that took its answer, the present one included.  *)
Unanswered(p) == IF InAccess(p) THEN fails[p] + 1 ELSE fails[p]
Recent(p) == {Back(reqSeqNum[p], a) : a \in 1 .. Unanswered(p)}

(* A register holds what the client's access wrote there or read as v. *)
Holds(p, v) == regs[op[p].reg] = IF op[p].kind = "write" THEN op[p].val ELSE v

(* The access ends without the switch's answer: with an error, or with a    *)
(* foreign frame.                                                           *)
GivenUp(p) ==
  /\ pc' = [pc EXCEPT ![p] = "done"]
  /\ fails' = [fails EXCEPT ![p] = @ + 1]
  /\ ~Answered(p)'

Numbered == \A p \in Procs : InAccess(p) => seqNum[p] = Back(reqSeqNum[p], 1)

(* A request under way is that of an access not answered yet.  One with the *)
(* present sequence number is the present request, and the last one.        *)
NetInv ==
  \A p \in Procs, i \in 1 .. Len(net) :
    /\ net[i].seq \in Recent(p)
    /\ InAccess(p) /\ net[i].seq = seqNum[p] =>
         pc[p] = "recv" /\ i = Len(net) /\ net[i].op = op[p]

(* So is an answer in the socket.  With the present sequence number it is   *)
(* the present answer, nothing comes after it, and it is still true.        *)
RxInv ==
  \A p \in Procs, i \in 1 .. Len(rx) : ~rx[i].foreign =>
    /\ rx[i].seq \in Recent(p)
    /\ InAccess(p) /\ rx[i].seq = seqNum[p] =>
         /\ pc[p] = "recv" /\ net = <<>> /\ rx[i].op = op[p]
         /\ \A j \in 1 .. Len(rx) : i < j => rx[j].foreign
         /\ Holds(p, rx[i].val)

DoneInv ==
  \A p \in Procs : Answered(p) =>
    rsp[p].op = op[p] /\ Holds(p, value[p]) /\ fails[p] = 0

(* The count is below its limit until the access is over. *)
Bounded == \A p \in Procs : pc[p] # "done" => drop[p] <= Limit

RmuInv == TypeOK /\ Bounded /\ Numbered /\ NetInv /\ RxInv /\ DoneInv

-----------------------------------------------------------------------------
(***************************************************************************)
(* Sequence numbers: the ones before s are different ones, and all are one *)
(* place further back when s is advanced (msdHwAccess.c:1238).             *)
(***************************************************************************)
LEMMA Numbers ==
  ASSUME NEW s \in SeqNums
  PROVE  /\ (s + 1) % SeqMod \in SeqNums
         /\ Back((s + 1) % SeqMod, 1) = s
         /\ \A a \in 1 .. SeqMod - 1 :
              Back((s + 1) % SeqMod, a + 1) = Back(s, a) /\ Back(s, a) # s
         /\ \A a \in 2 .. SeqMod : Back(s, a) # Back(s, 1)
<1>1. (s + 1) % SeqMod = IF s + 1 = SeqMod THEN 0 ELSE s + 1
  BY RmuAssumption DEF SeqNums
<1> QED BY <1>1, RmuAssumption DEF SeqNums, Back

(***************************************************************************)
(* The element at the head of a queue that is taken, and the one that is   *)
(* put at its end.                                                         *)
(***************************************************************************)
LEMMA Taken ==
  ASSUME NEW S, NEW q \in Seq(S), q # <<>>
  PROVE  /\ Head(q) \in S /\ Head(q) = q[1] /\ Tail(q) \in Seq(S)
         /\ Len(q) \in Nat \ {0} /\ Len(Tail(q)) = Len(q) - 1
         /\ \A i \in 1 .. Len(q) - 1 : Tail(q)[i] = q[i + 1]
BY HeadTailProperties, EmptySeq

LEMMA Put ==
  ASSUME NEW S, NEW q \in Seq(S), NEW x \in S
  PROVE  /\ Append(q, x) \in Seq(S)
         /\ Len(q) \in Nat /\ Len(Append(q, x)) = Len(q) + 1
         /\ \A i \in 1 .. Len(q) : Append(q, x)[i] = q[i]
         /\ Append(q, x)[Len(q) + 1] = x
BY AppendProperties, LenProperties

LEMMA Constants ==
  FirstOp \in Ops /\ NoFrame \in Frames /\ \A f \in ForeignFrames : f \in Frames /\ f.foreign
<1>1. SomeReg \in Regs
  BY RmuAssumption DEF SomeReg
<1>2. FirstOp \in Ops
  BY <1>1 DEF FirstOp, Ops
<1> QED BY <1>2, RmuAssumption DEF NoFrame, ForeignFrames, Frames, SeqNums

LEMMA OpTypes == \A o \in Ops : o.kind \in {"read", "write"} /\ o.reg \in Regs /\ o.val \in Vals
BY RmuAssumption DEF Ops

(***************************************************************************)
(* A frame that reaches the socket is queued, or lost.                     *)
(***************************************************************************)
LEMMA DeliverType ==
  ASSUME TypeOK, NEW f \in Frames, Deliver(f)
  PROVE  rx' \in Seq(Frames) /\ Len(rx') <= RxCap
<1>1. CASE Len(rx) < RxCap /\ rx' = Append(rx, f)
  <2>1. rx' \in Seq(Frames) /\ Len(rx) \in Nat /\ Len(rx') = Len(rx) + 1
    BY <1>1, Put DEF TypeOK
  <2> QED BY <1>1, <2>1, RmuAssumption
<1>2. CASE rx' = rx
  BY <1>2 DEF TypeOK
<1> QED BY <1>1, <1>2 DEF Deliver

LEMMA AnswerType ==
  ASSUME TypeOK, net # <<>>, NEW full \in BOOLEAN
  PROVE  /\ Answer(full) \in Frames
         /\ ~Answer(full).foreign /\ Answer(full).seq = Head(net).seq
         /\ Answer(full).op = Head(net).op
         /\ Answer(full).val = IF Head(net).op.kind = "write" THEN Head(net).op.val
                               ELSE regs[Head(net).op.reg]
<1>1. Head(net) \in Requests
  BY Taken DEF TypeOK
<1>2. Head(net).op \in Ops /\ Head(net).seq \in SeqNums
  BY <1>1 DEF Requests
<1> QED BY <1>2, OpTypes DEF Answer, Frames, TypeOK

(***************************************************************************)
(* Every step of an access, of the switch and of the socket keeps the      *)
(* variables in their ranges.                                              *)
(***************************************************************************)
LEMMA FailType ==
  ASSUME TypeOK, NEW p \in Procs, Fail(p)
  PROVE  /\ pc' \in [Procs -> {"idle", "send", "recv", "done"}]
         /\ status' \in [Procs -> {"MSD_OK", "MSD_FAIL"}]
         /\ fails' \in [Procs -> 0 .. MaxFails] /\ value' = value
BY RmuAssumption DEF TypeOK, Fail, Goto

LEMMA TypeStep == TypeOK /\ Bounded /\ [Next]_vars => TypeOK'
<1> SUFFICES ASSUME TypeOK, Bounded, [Next]_vars PROVE TypeOK'
  OBVIOUS
<1>0. 0 \in SeqNums /\ 0 \in 0 .. Limit + 1 /\ FirstOp \in Ops /\ NoFrame \in Frames /\ InitVal \in Vals
  BY RmuAssumption, Constants DEF SeqNums
<1>1. ASSUME NEW p \in Procs, NEW o \in Ops, Call(p, o) PROVE TypeOK'
  <2>1. (reqSeqNum[p] + 1) % SeqMod \in SeqNums
    BY Numbers DEF TypeOK
  <2> QED BY <1>1, <2>1 DEF TypeOK, Call, Goto
<1>2. ASSUME NEW p \in Procs, Send(p) PROVE TypeOK'
  <2>1. net' \in Seq(Requests) /\ Len(net') <= NetCap
    <3>1. CASE Len(net) < NetCap /\ net' = Append(net, [seq |-> seqNum[p], op |-> op[p]])
      <4>1. [seq |-> seqNum[p], op |-> op[p]] \in Requests
        BY DEF TypeOK, Requests
      <4>2. net' \in Seq(Requests) /\ Len(net) \in Nat /\ Len(net') = Len(net) + 1
        BY <3>1, <4>1, Put DEF TypeOK
      <4> QED BY <3>1, <4>2, RmuAssumption
    <3>2. CASE net' = net
      BY <3>2 DEF TypeOK
    <3> QED BY <1>2, <3>1, <3>2 DEF Send
  <2> QED BY <1>2, <2>1 DEF TypeOK, Send, Goto
<1>3. ASSUME NEW p \in Procs, SendError(p) \/ RecvError(p) PROVE TypeOK'
  <2>1. Fail(p) /\ UNCHANGED <<op, reqSeqNum, seqNum, drop, rsp, net, rx, regs>>
    BY <1>3 DEF SendError, RecvError
  <2> QED BY <2>1, FailType DEF TypeOK
<1>4. ASSUME NEW p \in Procs, Recv(p) PROVE TypeOK'
  <2>1. Head(rx) \in Frames /\ rx' \in Seq(Frames) /\ Len(rx') <= RxCap
    <3>1. /\ rx # <<>> /\ rx' = Tail(rx) /\ rx \in Seq(Frames) /\ Len(rx) <= RxCap
      BY <1>4 DEF Recv, TypeOK
    <3>2. /\ Head(rx) \in Frames /\ rx' \in Seq(Frames) /\ Len(rx) \in Nat
          /\ Len(rx') = Len(rx) - 1
      BY <3>1, Taken
    <3> QED BY <3>1, <3>2, RmuAssumption
  <2>2. rsp' \in [Procs -> Frames]
    BY <1>4, <2>1 DEF Recv, TypeOK
  <2>3. /\ UNCHANGED <<op, reqSeqNum, seqNum, net, regs>>
        /\ drop' = [drop EXCEPT ![p] = @ + 1]
    BY <1>4 DEF Recv
  <2>4. drop' \in [Procs -> 0 .. Limit + 1]
    <3>1. drop[p] \in 0 .. Limit + 1 /\ drop[p] <= Limit
      BY <1>4 DEF Recv, TypeOK, Bounded
    <3>2. drop[p] + 1 \in 0 .. Limit + 1
      BY <3>1, RmuAssumption
    <3> QED BY <2>3, <3>2 DEF TypeOK
  <2>5. CASE Fail(p)
    BY <2>1, <2>2, <2>3, <2>4, <2>5, FailType DEF TypeOK
  <2>6. CASE Succeed(p, Head(rx))
    <3>1. pc' \in [Procs -> {"idle", "send", "recv", "done"}]
      BY <2>6 DEF TypeOK, Succeed, Goto
    <3>2. fails' \in [Procs -> 0 .. MaxFails]
      BY <2>6, RmuAssumption DEF TypeOK, Succeed
    <3>3. status' \in [Procs -> {"MSD_OK", "MSD_FAIL"}]
      BY <2>6 DEF TypeOK, Succeed
    <3>4. value' \in [Procs -> Vals]
      <4>1. Head(rx).val \in Vals
        BY <2>1 DEF Frames
      <4> QED BY <2>6, <4>1 DEF TypeOK, Succeed
    <3> QED BY <2>1, <2>2, <2>3, <2>4, <3>1, <3>2, <3>3, <3>4 DEF TypeOK
  <2>7. CASE UNCHANGED <<pc, status, value, fails>>
    BY <2>1, <2>2, <2>3, <2>4, <2>7 DEF TypeOK
  <2> QED BY <1>4, <2>5, <2>6, <2>7 DEF Recv
<1>5. ASSUME NEW p \in Procs, Return(p) PROVE TypeOK'
  BY <1>0, <1>5 DEF TypeOK, Return, Goto
<1>6. CASE Serve
  <2>1. net # <<>> /\ net \in Seq(Requests) /\ Len(net) <= NetCap
    BY <1>6 DEF Serve, TypeOK
  <2>2. /\ Head(net) \in Requests /\ Tail(net) \in Seq(Requests) /\ Len(net) \in Nat
        /\ Len(Tail(net)) = Len(net) - 1
    BY <2>1, Taken
  <2>3. Head(net).op \in Ops
    BY <2>2 DEF Requests
  <2>4. regs' \in [Regs -> Vals]
    BY <1>6, <2>3, OpTypes DEF Serve, TypeOK
  <2>5. rx' \in Seq(Frames) /\ Len(rx') <= RxCap
    <3>1. PICK full \in BOOLEAN : Deliver(Answer(full))
      BY <1>6 DEF Serve
    <3> QED BY <2>1, <3>1, AnswerType, DeliverType
  <2>6. net' \in Seq(Requests) /\ Len(net') <= NetCap
    BY <1>6, <2>1, <2>2, RmuAssumption DEF Serve
  <2> QED BY <1>6, <2>4, <2>5, <2>6 DEF Serve, TypeOK
<1>7. CASE ForeignTraffic
  <2>1. PICK f \in ForeignFrames : Deliver(f)
    BY <1>7 DEF ForeignTraffic
  <2>2. rx' \in Seq(Frames) /\ Len(rx') <= RxCap
    BY <2>1, Constants, DeliverType
  <2> QED BY <1>7, <2>2 DEF ForeignTraffic, TypeOK
<1>8. CASE UNCHANGED vars
  BY <1>8 DEF vars, TypeOK
<1> QED BY <1>1, <1>2, <1>3, <1>4, <1>5, <1>6, <1>7, <1>8 DEF Next, Step

LEMMA BoundedStep == TypeOK /\ Bounded /\ [Next]_vars => Bounded'
<1> SUFFICES ASSUME TypeOK, Bounded, [Next]_vars PROVE Bounded'
  OBVIOUS
<1> USE DEF TypeOK, Bounded, Goto, Fail
<1>1. ASSUME NEW p \in Procs, NEW o \in Ops, Call(p, o) PROVE Bounded'
  BY <1>1 DEF Call
<1>2. ASSUME NEW p \in Procs, Send(p) \/ SendError(p) \/ RecvError(p) PROVE Bounded'
  BY <1>2 DEF Send, SendError, RecvError
<1>3. ASSUME NEW p \in Procs, Recv(p) PROVE Bounded'
  BY <1>3 DEF Recv, Succeed
<1>4. ASSUME NEW p \in Procs, Return(p) PROVE Bounded'
  BY <1>4, RmuAssumption DEF Return
<1>5. CASE Serve \/ ForeignTraffic \/ UNCHANGED vars
  BY <1>5 DEF Serve, ForeignTraffic, vars
<1> QED BY <1>1, <1>2, <1>3, <1>4, <1>5 DEF Next, Step

-----------------------------------------------------------------------------
(***************************************************************************)
(* A new access does not have the number of a request or an answer that is *)
(* still under way: those are of accesses given up, fewer than there are   *)
(* sequence numbers.                                                       *)
(***************************************************************************)
LEMMA CallKeeps ==
  ASSUME OneClient, FewGivenUp, RmuInv, NEW p \in Procs, NEW o \in Ops, Call(p, o)
  PROVE  Numbered' /\ NetInv' /\ RxInv' /\ DoneInv'
<1>1. /\ pc[p] = "idle" /\ pc'[p] = "send" /\ seqNum'[p] = reqSeqNum[p]
      /\ reqSeqNum'[p] = (reqSeqNum[p] + 1) % SeqMod
      /\ UNCHANGED <<drop, rsp, status, value, fails, net, rx, regs>>
      /\ reqSeqNum[p] \in SeqNums /\ fails[p] \in Nat /\ fails[p] < SeqMod /\ SeqMod \in Nat
  BY RmuAssumption DEF Call, Goto, RmuInv, TypeOK, FewGivenUp
<1>2. \A q \in Procs : q = p
  BY DEF OneClient
<1>3. ASSUME NEW s \in Recent(p) PROVE s \in Recent(p)' /\ s # seqNum'[p]
  <2>1. PICK a \in 1 .. fails[p] : s = Back(reqSeqNum[p], a)
    BY <1>1, <1>3 DEF Recent, Unanswered, InAccess
  <2>2. a \in 1 .. SeqMod - 1 /\ a + 1 \in 1 .. fails[p] + 1
    BY <1>1
  <2>3. s = Back(reqSeqNum'[p], a + 1) /\ s # reqSeqNum[p]
    BY <1>1, <2>1, <2>2, Numbers
  <2> QED BY <1>1, <2>2, <2>3 DEF Recent, Unanswered, InAccess
<1>4. Numbered'
  BY <1>1, <1>2, Numbers DEF Numbered
<1>5. NetInv'
  BY <1>1, <1>2, <1>3 DEF RmuInv, NetInv
<1>6. RxInv'
  BY <1>1, <1>2, <1>3 DEF RmuInv, RxInv
<1>7. DoneInv'
  BY <1>1, <1>2 DEF DoneInv, Answered
<1> QED BY <1>4, <1>5, <1>6, <1>7

(***************************************************************************)
(* Steps that neither answer an access nor start one.                      *)
(***************************************************************************)
LEMMA FailGivesUp ==
  ASSUME TypeOK, NEW p \in Procs, Fail(p)
  PROVE  GivenUp(p)
BY DEF TypeOK, Fail, Goto, GivenUp, Answered

LEMMA EndKeeps ==
  ASSUME OneClient, RmuInv, NEW p \in Procs,
         InAccess(p) /\ GivenUp(p) /\ UNCHANGED <<op, reqSeqNum, seqNum, net, regs>>,
         rx' = rx \/ (rx # <<>> /\ rx' = Tail(rx))
  PROVE  Numbered' /\ NetInv' /\ RxInv' /\ DoneInv'
<1>1. pc'[p] = "done" /\ ~Answered(p)' /\ fails'[p] = fails[p] + 1 /\ ~InAccess(p)'
  BY DEF GivenUp, RmuInv, TypeOK, InAccess
<1>2. \A q \in Procs : q = p
  BY DEF OneClient
<1>3. Recent(p) \subseteq Recent(p)'
  BY <1>1 DEF Recent, Unanswered
<1>4. Numbered' /\ DoneInv'
  BY <1>1, <1>2 DEF Numbered, DoneInv
<1>5. NetInv'
  BY <1>1, <1>2, <1>3 DEF RmuInv, NetInv
<1>6. RxInv'
  <2>1. CASE rx' = rx
    BY <1>1, <1>2, <1>3, <2>1 DEF RmuInv, RxInv
  <2>2. CASE rx # <<>> /\ rx' = Tail(rx)
    <3>1. /\ Len(rx) \in Nat \ {0} /\ Len(rx') = Len(rx) - 1
          /\ \A i \in 1 .. Len(rx) - 1 : rx'[i] = rx[i + 1]
      BY <2>2, Taken DEF RmuInv, TypeOK
    <3> SUFFICES ASSUME NEW i \in 1 .. Len(rx'), ~rx'[i].foreign PROVE rx'[i].seq \in Recent(p)'
      BY <1>1, <1>2 DEF RxInv
    <3>2. i + 1 \in 1 .. Len(rx) /\ rx'[i] = rx[i + 1]
      BY <3>1
    <3> QED BY <1>3, <3>2 DEF RmuInv, RxInv
  <2> QED BY <2>1, <2>2
<1> QED BY <1>4, <1>5, <1>6

LEMMA ReturnKeeps ==
  ASSUME OneClient, RmuInv, NEW p \in Procs, Return(p)
  PROVE  Numbered' /\ NetInv' /\ RxInv' /\ DoneInv'
<1>1. /\ pc[p] = "done" /\ pc'[p] = "idle"
      /\ UNCHANGED <<reqSeqNum, seqNum, fails, net, rx, regs>>
      /\ ~InAccess(p) /\ ~InAccess(p)' /\ ~Answered(p)'
  BY DEF Return, Goto, RmuInv, TypeOK, InAccess, Answered
<1>2. \A q \in Procs : q = p
  BY DEF OneClient
<1>3. Recent(p) \subseteq Recent(p)'
  BY <1>1 DEF Recent, Unanswered
<1>4. Numbered' /\ DoneInv'
  BY <1>1, <1>2 DEF Numbered, DoneInv
<1>5. NetInv' /\ RxInv'
  BY <1>1, <1>2, <1>3 DEF RmuInv, NetInv, RxInv
<1> QED BY <1>4, <1>5

(***************************************************************************)
(* The request that is sent is the only one with its number, and the last. *)
(***************************************************************************)
LEMMA SendKeeps ==
  ASSUME OneClient, FewGivenUp, RmuInv, NEW p \in Procs, Send(p)
  PROVE  Numbered' /\ NetInv' /\ RxInv' /\ DoneInv'
<1>1. /\ pc[p] = "send" /\ pc'[p] = "recv"
      /\ UNCHANGED <<op, reqSeqNum, seqNum, drop, rsp, status, value, fails, rx, regs>>
      /\ InAccess(p) /\ InAccess(p)' /\ fails[p] \in Nat
  BY RmuAssumption DEF Send, Goto, RmuInv, TypeOK, InAccess
<1>2. \A q \in Procs : q = p
  BY DEF OneClient
<1>3. Recent(p) \subseteq Recent(p)'
  BY <1>1 DEF Recent, Unanswered
<1>4. Numbered' /\ DoneInv'
  BY <1>1, <1>2 DEF RmuInv, Numbered, DoneInv, Answered
<1>5. /\ \A i \in 1 .. Len(net) : net[i].seq \in Recent(p) /\ net[i].seq # seqNum[p]
      /\ \A i \in 1 .. Len(rx) : ~rx[i].foreign => rx[i].seq \in Recent(p) /\ rx[i].seq # seqNum[p]
  BY <1>1 DEF RmuInv, NetInv, RxInv
<1>6. NetInv'
  <2>1. CASE net' = net
    BY <1>1, <1>2, <1>3, <1>5, <2>1 DEF NetInv
  <2>2. CASE net' = Append(net, [seq |-> seqNum[p], op |-> op[p]])
    <3>1. [seq |-> seqNum[p], op |-> op[p]] \in Requests
      BY DEF RmuInv, TypeOK, Requests
    <3>2. /\ Len(net) \in Nat /\ Len(net') = Len(net) + 1
          /\ \A i \in 1 .. Len(net) : net'[i] = net[i]
          /\ net'[Len(net) + 1] = [seq |-> seqNum[p], op |-> op[p]]
      BY <2>2, <3>1, Put DEF RmuInv, TypeOK
    <3>3. seqNum[p] \in Recent(p)'
      <4>1. seqNum[p] = Back(reqSeqNum[p], 1) /\ 1 \in 1 .. fails[p] + 1
        BY <1>1 DEF RmuInv, Numbered
      <4> QED BY <1>1, <4>1 DEF Recent, Unanswered
    <3> SUFFICES ASSUME NEW i \in 1 .. Len(net')
                 PROVE  /\ net'[i].seq \in Recent(p)'
                        /\ net'[i].seq = seqNum[p] => i = Len(net') /\ net'[i].op = op[p]
      BY <1>1, <1>2 DEF NetInv
    <3>4. CASE i = Len(net) + 1
      BY <1>1, <3>2, <3>3, <3>4
    <3>5. CASE i \in 1 .. Len(net)
      BY <1>3, <1>5, <3>2, <3>5
    <3> QED BY <3>2, <3>4, <3>5
  <2> QED BY <2>1, <2>2 DEF Send
<1>7. RxInv'
  BY <1>1, <1>2, <1>3, <1>5 DEF RxInv
<1> QED BY <1>4, <1>6, <1>7

(***************************************************************************)
(* A frame that is dropped leaves the others as they were; the one that is *)
(* taken is foreign, or the present answer, and no other is left.          *)
(***************************************************************************)
LEMMA RecvKeeps ==
  ASSUME OneClient, RmuInv, NEW p \in Procs, Recv(p)
  PROVE  Numbered' /\ NetInv' /\ RxInv' /\ DoneInv'
<1>1. /\ pc[p] = "recv" /\ InAccess(p) /\ rx # <<>> /\ rx' = Tail(rx)
      /\ rsp'[p] = Head(rx) /\ UNCHANGED <<op, reqSeqNum, seqNum, net, regs>>
  BY DEF Recv, RmuInv, TypeOK, InAccess
<1>2. \A q \in Procs : q = p
  BY DEF OneClient
<1>3. /\ Head(rx) = rx[1] /\ Len(rx) \in Nat \ {0} /\ Len(rx') = Len(rx) - 1
      /\ \A i \in 1 .. Len(rx) - 1 : rx'[i] = rx[i + 1]
  BY <1>1, Taken DEF RmuInv, TypeOK
<1>4. \A i \in 1 .. Len(rx') : i + 1 \in 1 .. Len(rx) /\ rx'[i] = rx[i + 1]
  BY <1>3
<1>5. CASE Fail(p)
  BY <1>1, <1>5, FailGivesUp, EndKeeps DEF RmuInv
<1>6. CASE Mine(p, Head(rx)) /\ Succeed(p, Head(rx))
  <2>1. /\ pc'[p] = "done" /\ ~InAccess(p)' /\ status'[p] = "MSD_OK"
        /\ pc' = [pc EXCEPT ![p] = "done"]
        /\ fails' = [fails EXCEPT ![p] = IF rx[1].foreign THEN @ + 1 ELSE 0]
        /\ value'[p] = IF op[p].kind = "read" THEN rx[1].val ELSE value[p]
    BY <1>3, <1>6, RmuAssumption DEF Succeed, Goto, RmuInv, TypeOK, InAccess
  <2>2. CASE rx[1].foreign
    <3>1. GivenUp(p)
      BY <1>1, <1>3, <2>1, <2>2 DEF GivenUp, Answered
    <3> QED BY <1>1, <3>1, EndKeeps
  <2>3. CASE ~rx[1].foreign
    <3>1. /\ net = <<>> /\ rx[1].op = op[p] /\ Holds(p, rx[1].val)
          /\ \A j \in 1 .. Len(rx) : 1 < j => rx[j].foreign
      BY <1>1, <1>3, <1>6, <2>3 DEF RmuInv, RxInv, Mine
    <3>2. \A i \in 1 .. Len(rx') : rx'[i].foreign
      BY <1>3, <1>4, <3>1
    <3>3. Numbered' /\ NetInv' /\ RxInv'
      BY <1>1, <1>2, <2>1, <3>1, <3>2 DEF Numbered, NetInv, RxInv
    <3>4. DoneInv'
      <4>1. op[p].kind \in {"read", "write"}
        BY OpTypes DEF RmuInv, TypeOK
      <4>2. Holds(p, value[p])'
        BY <1>1, <2>1, <3>1, <4>1 DEF Holds
      <4>3. fails'[p] = 0
        BY <2>1, <2>3 DEF RmuInv, TypeOK
      <4> QED BY <1>1, <1>2, <1>3, <3>1, <4>2, <4>3 DEF DoneInv
    <3> QED BY <3>3, <3>4
  <2> QED BY <2>2, <2>3
<1>7. CASE ~Mine(p, Head(rx)) /\ UNCHANGED <<pc, status, value, fails>>
  <2>1. Numbered' /\ NetInv' /\ DoneInv'
    BY <1>1, <1>2, <1>7
       DEF RmuInv, Numbered, NetInv, DoneInv, Answered, InAccess, Recent, Unanswered
  <2>2. Recent(p)' = Recent(p) /\ InAccess(p)' = InAccess(p)
    BY <1>1, <1>7 DEF Recent, Unanswered, InAccess
  <2>3. RxInv'
    <3> SUFFICES ASSUME NEW i \in 1 .. Len(rx'), ~rx'[i].foreign
                 PROVE  /\ rx'[i].seq \in Recent(p)
                        /\ rx'[i].seq = seqNum[p] =>
                             /\ pc[p] = "recv" /\ net = <<>> /\ rx'[i].op = op[p]
                             /\ \A j \in 1 .. Len(rx') : i < j => rx'[j].foreign
                             /\ Holds(p, rx'[i].val)
      BY <1>1, <1>2, <1>7, <2>2 DEF RxInv, Holds
    <3>1. i + 1 \in 1 .. Len(rx) /\ ~rx[i + 1].foreign /\ rx'[i] = rx[i + 1]
      BY <1>4
    <3>2. /\ rx[i + 1].seq \in Recent(p)
          /\ rx[i + 1].seq = seqNum[p] =>
               /\ pc[p] = "recv" /\ net = <<>> /\ rx[i + 1].op = op[p]
               /\ \A j \in 1 .. Len(rx) : i + 1 < j => rx[j].foreign
               /\ Holds(p, rx[i + 1].val)
      BY <1>1, <3>1 DEF RmuInv, RxInv
    <3>3. (\A j \in 1 .. Len(rx) : i + 1 < j => rx[j].foreign)
            => \A j \in 1 .. Len(rx') : i < j => rx'[j].foreign
      <4> SUFFICES ASSUME \A j \in 1 .. Len(rx) : i + 1 < j => rx[j].foreign,
                          NEW j \in 1 .. Len(rx'), i < j
                   PROVE  rx'[j].foreign
        OBVIOUS
      <4>1. j + 1 \in 1 .. Len(rx) /\ rx'[j] = rx[j + 1] /\ i + 1 < j + 1
        BY <1>3, <1>4
      <4> QED BY <4>1
    <3> QED BY <3>1, <3>2, <3>3
  <2> QED BY <2>1, <2>3
<1> QED BY <1>5, <1>6, <1>7 DEF Recv

(***************************************************************************)
(* A frame at the end of the socket's queue: one that answers no access,   *)
(* or one that answers an access not answered yet and, if it answers the   *)
(* present one, comes when no request is under way any more.               *)
(***************************************************************************)
LEMMA DeliverKeeps ==
  ASSUME OneClient, RmuInv, NEW p \in Procs, NEW f \in Frames, Deliver(f),
         UNCHANGED <<pc, op, reqSeqNum, seqNum, fails>>,
         \A i \in 1 .. Len(rx) : InAccess(p) /\ ~rx[i].foreign /\ rx[i].seq = seqNum[p] =>
           net' = net /\ regs' = regs /\ f.foreign,
         ~f.foreign =>
           /\ f.seq \in Recent(p)
           /\ InAccess(p) /\ f.seq = seqNum[p] =>
                /\ pc[p] = "recv" /\ net' = <<>> /\ f.op = op[p]
                /\ regs'[op[p].reg] =
                     IF op[p].kind = "write" THEN op[p].val ELSE f.val
  PROVE  RxInv'
<1>1. \A q \in Procs : q = p
  BY DEF OneClient
<1>2. Recent(p)' = Recent(p) /\ InAccess(p)' = InAccess(p)
  BY DEF Recent, Unanswered, InAccess
<1>3. rx \in Seq(Frames) /\ Len(rx) \in Nat
  BY DEF RmuInv, TypeOK
<1>4. CASE rx' = rx
  BY <1>1, <1>2, <1>4 DEF RmuInv, RxInv, Holds
<1>5. CASE rx' = Append(rx, f)
  <2>1. /\ Len(rx') = Len(rx) + 1 /\ rx'[Len(rx) + 1] = f
        /\ \A i \in 1 .. Len(rx) : rx'[i] = rx[i]
    BY <1>3, <1>5, Put
  <2> SUFFICES ASSUME NEW i \in 1 .. Len(rx'), ~rx'[i].foreign
               PROVE  /\ rx'[i].seq \in Recent(p)
                      /\ InAccess(p) /\ rx'[i].seq = seqNum[p] =>
                           /\ pc[p] = "recv" /\ net' = <<>> /\ rx'[i].op = op[p]
                           /\ \A j \in 1 .. Len(rx') : i < j => rx'[j].foreign
                           /\ regs'[op[p].reg] =
                                IF op[p].kind = "write" THEN op[p].val ELSE rx'[i].val
    BY <1>1, <1>2 DEF RxInv, Holds
  <2>2. CASE i = Len(rx) + 1
    <3>1. ~\E j \in 1 .. Len(rx') : i < j
      BY <1>3, <2>1, <2>2
    <3>2. rx'[i] = f /\ ~f.foreign
      BY <2>1, <2>2
    <3> QED BY <3>1, <3>2
  <2>3. CASE i \in 1 .. Len(rx)
    <3>1. /\ ~rx[i].foreign /\ rx'[i] = rx[i] /\ rx[i].seq \in Recent(p)
          /\ InAccess(p) /\ rx[i].seq = seqNum[p] =>
               /\ pc[p] = "recv" /\ net = <<>> /\ rx[i].op = op[p]
               /\ \A j \in 1 .. Len(rx) : i < j => rx[j].foreign
               /\ Holds(p, rx[i].val)
      BY <2>1, <2>3 DEF RmuInv, RxInv
    <3> SUFFICES ASSUME InAccess(p), rx[i].seq = seqNum[p]
                 PROVE  /\ pc[p] = "recv" /\ net' = <<>> /\ rx[i].op = op[p]
                        /\ \A j \in 1 .. Len(rx') : i < j => rx'[j].foreign
                        /\ regs'[op[p].reg] =
                             IF op[p].kind = "write" THEN op[p].val ELSE rx[i].val
      BY <3>1
    <3>2. net' = net /\ regs' = regs /\ f.foreign
      BY <2>3, <3>1
    <3>3. \A j \in 1 .. Len(rx') : j \in 1 .. Len(rx) \/ j = Len(rx) + 1
      BY <1>3, <2>1
    <3> QED BY <2>1, <3>1, <3>2, <3>3 DEF Holds
  <2> QED BY <1>3, <2>1, <2>2, <2>3
<1> QED BY <1>4, <1>5 DEF Deliver

(***************************************************************************)
(* The switch executes the request that was sent first and answers it.     *)
(***************************************************************************)
LEMMA ServeKeeps ==
  ASSUME OneClient, RmuInv, NEW p \in Procs, Serve
  PROVE  Numbered' /\ NetInv' /\ RxInv' /\ DoneInv'
<1>1. /\ net # <<>> /\ net' = Tail(net)
      /\ UNCHANGED <<pc, op, reqSeqNum, seqNum, drop, rsp, status, value, fails>>
      /\ regs' = IF Head(net).op.kind = "write"
                 THEN [regs EXCEPT ![Head(net).op.reg] = Head(net).op.val] ELSE regs
  BY DEF Serve
<1>2. \A q \in Procs : q = p
  BY DEF OneClient
<1>3. /\ Head(net) \in Requests /\ Head(net) = net[1] /\ Len(net) \in Nat \ {0}
      /\ net' \in Seq(Requests) /\ Len(net') = Len(net) - 1
      /\ \A i \in 1 .. Len(net) - 1 : net'[i] = net[i + 1]
  BY <1>1, Taken DEF RmuInv, TypeOK
<1>4. Recent(p)' = Recent(p) /\ InAccess(p)' = InAccess(p)
  BY <1>1 DEF Recent, Unanswered, InAccess
<1>5. /\ net[1].seq \in Recent(p)
      /\ InAccess(p) /\ net[1].seq = seqNum[p] =>
           pc[p] = "recv" /\ Len(net) = 1 /\ net[1].op = op[p]
  BY <1>3 DEF RmuInv, NetInv
<1>6. Numbered'
  BY <1>1 DEF RmuInv, Numbered, InAccess
<1>7. NetInv'
  <2> SUFFICES ASSUME NEW i \in 1 .. Len(net')
               PROVE  /\ net'[i].seq \in Recent(p)
                      /\ InAccess(p) /\ net'[i].seq = seqNum[p] =>
                           pc[p] = "recv" /\ i = Len(net') /\ net'[i].op = op[p]
    BY <1>1, <1>2, <1>4 DEF NetInv
  <2>1. i + 1 \in 1 .. Len(net) /\ net'[i] = net[i + 1]
    BY <1>3
  <2> QED BY <1>3, <2>1 DEF RmuInv, NetInv
<1>8. RxInv'
  <2>1. PICK full \in BOOLEAN : Deliver(Answer(full))
    BY DEF Serve
  <2> DEFINE f == Answer(full)
  <2>2. /\ f \in Frames /\ ~f.foreign /\ f.seq = net[1].seq /\ f.op = net[1].op
        /\ f.val = IF net[1].op.kind = "write" THEN net[1].op.val ELSE regs[net[1].op.reg]
    BY <1>1, <1>3, AnswerType DEF RmuInv
  <2>3. \A i \in 1 .. Len(rx) : ~(InAccess(p) /\ ~rx[i].foreign /\ rx[i].seq = seqNum[p])
    BY <1>1 DEF RmuInv, RxInv
  <2>4. ASSUME InAccess(p), f.seq = seqNum[p]
        PROVE  pc[p] = "recv" /\ net' = <<>> /\ f.op = op[p]
               /\ regs'[op[p].reg] = IF op[p].kind = "write" THEN op[p].val ELSE f.val
    <3>1. pc[p] = "recv" /\ Len(net) = 1 /\ net[1].op = op[p]
      BY <1>5, <2>2, <2>4
    <3>2. net' = <<>>
      BY <1>3, <3>1, EmptySeq
    <3>3. op[p].kind \in {"read", "write"} /\ op[p].reg \in Regs
      BY OpTypes DEF RmuInv, TypeOK
    <3>4. regs' = IF op[p].kind = "write" THEN [regs EXCEPT ![op[p].reg] = op[p].val] ELSE regs
      BY <1>1, <1>3, <3>1
    <3>5. f.val = IF op[p].kind = "write" THEN op[p].val ELSE regs[op[p].reg]
      BY <2>2, <3>1
    <3>6. regs'[op[p].reg] = IF op[p].kind = "write" THEN op[p].val ELSE f.val
      BY <3>3, <3>4, <3>5 DEF RmuInv, TypeOK
    <3>7. f.op = op[p]
      BY <2>2, <3>1
    <3> HIDE DEF f
    <3> QED BY <1>1, <3>1, <3>2, <3>6, <3>7
  <2> HIDE DEF f
  <2> QED BY <1>1, <1>5, <2>1, <2>2, <2>3, <2>4, DeliverKeeps DEF f
<1>9. DoneInv'
  <2> SUFFICES ASSUME Answered(p) PROVE FALSE
    BY <1>1, <1>2 DEF DoneInv, Answered
  <2>1. fails[p] = 0 /\ ~InAccess(p)
    BY DEF RmuInv, DoneInv, InAccess, Answered
  <2>2. Recent(p) = {}
    BY <2>1 DEF Recent, Unanswered
  <2> QED BY <1>5, <2>2
<1> QED BY <1>6, <1>7, <1>8, <1>9

LEMMA ForeignKeeps ==
  ASSUME OneClient, RmuInv, NEW p \in Procs, ForeignTraffic
  PROVE  Numbered' /\ NetInv' /\ RxInv' /\ DoneInv'
<1>1. UNCHANGED <<pc, op, reqSeqNum, seqNum, drop, rsp, status, value, fails, net, regs>>
  BY DEF ForeignTraffic
<1>2. Numbered' /\ NetInv' /\ DoneInv'
  BY <1>1 DEF RmuInv, Numbered, NetInv, DoneInv, Answered, InAccess, Recent, Unanswered, Holds
<1>3. PICK f \in ForeignFrames : Deliver(f)
  BY DEF ForeignTraffic
<1>4. f \in Frames /\ f.foreign
  BY Constants
<1>5. RxInv'
  BY <1>1, <1>3, <1>4, DeliverKeeps
<1> QED BY <1>2, <1>5

-----------------------------------------------------------------------------
LEMMA InvInit == Init => RmuInv
<1> SUFFICES ASSUME Init PROVE RmuInv
  OBVIOUS
<1>1. TypeOK
  <2>1. 0 \in SeqNums /\ InitVal \in Vals
    BY RmuAssumption DEF SeqNums
  <2>2. net \in Seq(Requests) /\ rx \in Seq(Frames) /\ Len(net) = 0 /\ Len(rx) = 0
    BY EmptySeq DEF Init
  <2> QED BY <2>1, <2>2, Constants, RmuAssumption DEF Init, TypeOK
<1>2. Bounded
  BY RmuAssumption DEF Init, Bounded
<1>3. Numbered /\ DoneInv
  BY DEF Init, Numbered, DoneInv, Answered, InAccess
<1>4. NetInv /\ RxInv
  BY DEF Init, NetInv, RxInv
<1> QED BY <1>1, <1>2, <1>3, <1>4 DEF RmuInv

LEMMA InvStep == OneClient /\ FewGivenUp /\ RmuInv /\ [Next]_vars => RmuInv'
<1> SUFFICES ASSUME OneClient, FewGivenUp, RmuInv, [Next]_vars PROVE RmuInv'
  OBVIOUS
<1>1. TypeOK' /\ Bounded'
  BY TypeStep, BoundedStep DEF RmuInv
<1>2. Numbered' /\ NetInv' /\ RxInv' /\ DoneInv'
  <2>1. ASSUME NEW p \in Procs, NEW o \in Ops, Call(p, o)
        PROVE  Numbered' /\ NetInv' /\ RxInv' /\ DoneInv'
    BY <2>1, CallKeeps
  <2>2. ASSUME NEW p \in Procs, Send(p)
        PROVE  Numbered' /\ NetInv' /\ RxInv' /\ DoneInv'
    BY <2>2, SendKeeps
  <2>3. ASSUME NEW p \in Procs, SendError(p) \/ RecvError(p)
        PROVE  Numbered' /\ NetInv' /\ RxInv' /\ DoneInv'
    <3>1. /\ InAccess(p) /\ Fail(p) /\ UNCHANGED <<op, reqSeqNum, seqNum, net, regs>>
          /\ rx' = rx
      BY <2>3 DEF SendError, RecvError, InAccess
    <3> QED BY <3>1, FailGivesUp, EndKeeps DEF RmuInv
  <2>4. ASSUME NEW p \in Procs, Recv(p)
        PROVE  Numbered' /\ NetInv' /\ RxInv' /\ DoneInv'
    BY <2>4, RecvKeeps
  <2>5. ASSUME NEW p \in Procs, Return(p)
        PROVE  Numbered' /\ NetInv' /\ RxInv' /\ DoneInv'
    BY <2>5, ReturnKeeps
  <2>6. CASE Serve \/ ForeignTraffic
    <3>1. CASE Procs = {}
      BY <3>1 DEF Numbered, NetInv, RxInv, DoneInv
    <3>2. ASSUME NEW p \in Procs PROVE Numbered' /\ NetInv' /\ RxInv' /\ DoneInv'
      BY <2>6, ServeKeeps, ForeignKeeps
    <3> QED BY <3>1, <3>2
  <2>7. CASE UNCHANGED vars
    BY <2>7 DEF vars, RmuInv, Numbered, NetInv, RxInv, DoneInv, Answered, InAccess,
                Recent, Unanswered, Holds
  <2> QED BY <2>1, <2>2, <2>3, <2>4, <2>5, <2>6, <2>7 DEF Next, Step
<1> QED BY <1>1, <1>2 DEF RmuInv

-----------------------------------------------------------------------------
(***************************************************************************)
(* The variables of RMU access stay in their ranges, for any number of     *)
(* clients: the sequence number wraps, and the count of dropped frames     *)
(* stops at its limit (msdHwAccess.c:1238, rmuPcap.c:360).                 *)
(***************************************************************************)
THEOREM TypeCorrect == Spec => []TypeOK
<1>1. Init => TypeOK /\ Bounded
  BY InvInit DEF RmuInv
<1>2. TypeOK /\ Bounded /\ [Next]_vars => TypeOK' /\ Bounded'
  BY TypeStep, BoundedStep
<1> QED BY <1>1, <1>2, PTL DEF Spec

LEMMA InvHolds ==
  ASSUME OneClient, FewGivenUp
  PROVE  Spec => []RmuInv
<1>1. RmuInv /\ [Next]_vars => RmuInv'
  BY InvStep
<1> QED BY <1>1, InvInit, PTL DEF Spec

(***************************************************************************)
(* An access of the only client that returns MSD_OK has taken the answer   *)
(* to its own request, although numbers wrap and answers to accesses that  *)
(* were given up are still coming (rmuPcap.c:336-343).                     *)
(***************************************************************************)
THEOREM AnswersAreOwn ==
  ASSUME OneClient, FewGivenUp
  PROVE  Spec => []OwnAnswer
<1>1. RmuInv => OwnAnswer
  BY DEF RmuInv, DoneInv, OwnAnswer
<1> QED BY <1>1, InvHolds, PTL

(***************************************************************************)
(* Under the same conditions the register holds, when the access returns   *)
(* MSD_OK, what it has read or written: no earlier request of the client,  *)
(* given up or not, is executed after it.                                  *)
(***************************************************************************)
THEOREM AnswersAreCurrent ==
  ASSUME OneClient, FewGivenUp
  PROVE  Spec => []AnswerIsCurrent
<1>1. RmuInv => AnswerIsCurrent
  BY DEF RmuInv, DoneInv, AnswerIsCurrent, Holds
<1> QED BY <1>1, InvHolds, PTL

-----------------------------------------------------------------------------
(* The refinement of RegQueue *)

(***************************************************************************)
(* The accesses of the first requests, as the first and as the last of     *)
(* them is taken away.                                                     *)
(***************************************************************************)
LEMMA OpsOfSeq ==
  ASSUME NEW q \in Seq(Requests), NEW n \in 0 .. Len(q)
  PROVE  OpsOf(q, n) \in Seq(Ops) /\ Len(OpsOf(q, n)) = n
<1>1. \A i \in 1 .. n : q[i] \in Requests
  <2>1. Len(q) \in Nat
    BY LenProperties
  <2> QED BY <2>1, ElementOfSeq
<1>2. OpsOf(q, n) \in [1 .. n -> Ops]
  BY <1>1 DEF OpsOf, Requests
<1>3. n \in Nat
  BY LenProperties
<1> QED BY <1>2, <1>3, SeqDef

LEMMA FirstOps ==
  ASSUME NEW q \in Seq(Requests), NEW n \in 1 .. Len(q)
  PROVE  /\ OpsOf(q, n) # <<>> /\ Head(OpsOf(q, n)) = q[1].op
         /\ Tail(OpsOf(q, n)) = OpsOf(Tail(q), n - 1)
<1>1. /\ q # <<>> /\ Len(q) \in Nat \ {0} /\ Tail(q) \in Seq(Requests)
      /\ Len(Tail(q)) = Len(q) - 1 /\ \A i \in 1 .. Len(q) - 1 : Tail(q)[i] = q[i + 1]
  <2>1. Len(q) \in Nat /\ Len(q) > 0
    BY LenProperties
  <2>2. q # <<>>
    BY <2>1, EmptySeq
  <2> QED BY <2>2, Taken
<1>2. n \in 0 .. Len(q) /\ n - 1 \in 0 .. Len(Tail(q))
  BY <1>1
<1>3. OpsOf(q, n) \in Seq(Ops) /\ Len(OpsOf(q, n)) = n
  BY <1>2, OpsOfSeq
<1>4. OpsOf(Tail(q), n - 1) \in Seq(Ops) /\ Len(OpsOf(Tail(q), n - 1)) = n - 1
  BY <1>1, <1>2, OpsOfSeq
<1>5. OpsOf(q, n) # <<>>
  BY <1>1, <1>3, EmptySeq
<1>6. /\ Head(OpsOf(q, n)) = OpsOf(q, n)[1] /\ Tail(OpsOf(q, n)) \in Seq(Ops)
      /\ Len(Tail(OpsOf(q, n))) = n - 1
      /\ \A i \in 1 .. n - 1 : Tail(OpsOf(q, n))[i] = OpsOf(q, n)[i + 1]
  BY <1>3, <1>5, Taken
<1>7. \A i \in 1 .. n - 1 : OpsOf(q, n)[i + 1] = OpsOf(Tail(q), n - 1)[i]
  BY <1>1, <1>2 DEF OpsOf
<1>8. Tail(OpsOf(q, n)) = OpsOf(Tail(q), n - 1)
  BY <1>4, <1>6, <1>7, SeqEqual
<1> QED BY <1>1, <1>5, <1>6, <1>8 DEF OpsOf

LEMMA LastOps ==
  ASSUME NEW q \in Seq(Requests), NEW n \in 1 .. Len(q)
  PROVE  Append(OpsOf(q, n - 1), q[n].op) = OpsOf(q, n)
<1>1. Len(q) \in Nat /\ n \in 0 .. Len(q) /\ n - 1 \in 0 .. Len(q)
  BY LenProperties
<1>2. OpsOf(q, n) \in Seq(Ops) /\ Len(OpsOf(q, n)) = n
  BY <1>1, OpsOfSeq
<1>3. OpsOf(q, n - 1) \in Seq(Ops) /\ Len(OpsOf(q, n - 1)) = n - 1
  BY <1>1, OpsOfSeq
<1>4. q[n].op \in Ops
  <2>1. q[n] \in Requests
    BY ElementOfSeq
  <2> QED BY <2>1 DEF Requests
<1> DEFINE a == Append(OpsOf(q, n - 1), q[n].op)
<1>5. /\ a \in Seq(Ops) /\ Len(a) = n /\ a[n] = q[n].op
      /\ \A i \in 1 .. n - 1 : a[i] = OpsOf(q, n - 1)[i]
  BY <1>1, <1>3, <1>4, Put
<1>6. \A i \in 1 .. n : a[i] = OpsOf(q, n)[i]
  BY <1>1, <1>5 DEF OpsOf
<1> HIDE DEF a
<1>7. a = OpsOf(q, n)
  BY <1>2, <1>5, <1>6, SeqEqual
<1> QED BY <1>7 DEF a

LEMMA TheClient ==
  ASSUME OneClient, NEW p \in Procs
  PROVE  Client = p
BY DEF OneClient, Client

(***************************************************************************)
(* The request with the present sequence number is the present one, and an *)
(* answer with it comes when no request is under way any more.             *)
(***************************************************************************)
LEMMA PresentOnes ==
  ASSUME OneClient, RmuInv, NEW p \in Procs
  PROVE  /\ net \in Seq(Requests) /\ Len(net) \in Nat /\ rx \in Seq(Frames) /\ Len(rx) \in Nat
         /\ net # <<>> <=> Len(net) > 0
         /\ op[p] \in Ops /\ op[p] \in RQ!Ops /\ op[p].kind \in {"read", "write"}
         /\ op[p].reg \in Regs
         /\ Queued => /\ pc[p] = "recv" /\ Len(net) > 0 /\ net[Len(net)].op = op[p]
                      /\ net[Len(net)].seq = seqNum[p]
         /\ AnswerComes => pc[p] = "recv" /\ net = <<>> /\ ~Queued
<1>1. /\ net \in Seq(Requests) /\ Len(net) \in Nat /\ rx \in Seq(Frames) /\ Len(rx) \in Nat
      /\ net # <<>> <=> Len(net) > 0
  BY EmptySeq, LenProperties DEF RmuInv, TypeOK
<1>2. op[p] \in Ops /\ op[p] \in RQ!Ops /\ op[p].kind \in {"read", "write"} /\ op[p].reg \in Regs
  BY RmuAssumption, OpTypes DEF RmuInv, TypeOK, Ops, RQ!Ops
<1>3. Client = p
  BY TheClient
<1>4. ASSUME Queued
      PROVE  /\ pc[p] = "recv" /\ Len(net) > 0 /\ net[Len(net)].op = op[p]
             /\ net[Len(net)].seq = seqNum[p]
  <2>1. pc[p] = "recv" /\ Len(net) > 0 /\ net[Len(net)].seq = seqNum[p]
    BY <1>1, <1>3, <1>4 DEF Queued
  <2>2. Len(net) \in 1 .. Len(net)
    BY <1>1, <2>1
  <2> QED BY <2>1, <2>2 DEF RmuInv, NetInv, InAccess
<1>5. AnswerComes => pc[p] = "recv" /\ net = <<>>
  BY <1>3 DEF AnswerComes, RmuInv, RxInv, InAccess
<1> QED BY <1>1, <1>2, <1>4, <1>5 DEF Queued

LEMMA QueueCall ==
  ASSUME OneClient, RmuInv, NEW p \in Procs, NEW o \in Ops, Call(p, o)
  PROVE  RQ!Call(o)
<1>1. /\ Client = p /\ pc[p] = "idle" /\ pc'[p] = "send" /\ op'[p] = o
      /\ UNCHANGED <<status, value, net, regs>>
  BY TheClient DEF Call, Goto, RmuInv, TypeOK
<1>2. Phase = "idle" /\ Phase' = "called" /\ ~Queued /\ ~Queued'
  BY <1>1 DEF Phase, Queued
<1>3. Late' = Late
  BY <1>1, <1>2 DEF Late
<1>4. TookForeign(p) = FALSE /\ TookForeign(p)' = FALSE
  BY <1>1 DEF TookForeign
<1> QED BY <1>1, <1>2, <1>3, <1>4 DEF RQ!Call

(***************************************************************************)
(* An access that ends without the switch's answer: its request may still  *)
(* be under way.                                                           *)
(***************************************************************************)
LEMMA QueueGiveUp ==
  ASSUME OneClient, RmuInv, NEW p \in Procs, InAccess(p), GivenUp(p),
         UNCHANGED <<op, seqNum, net, regs>>
  PROVE  RQ!GiveUp
<1>1. Client = p /\ pc'[p] = "done"
  BY TheClient DEF GivenUp, RmuInv, TypeOK
<1>2. Phase' = "done" /\ ~Queued' /\ Late' = OpsOf(net, Len(net))
  BY <1>1 DEF Phase, Queued, Late
<1>3. CASE Queued
  <2>1. Late = OpsOf(net, Len(net) - 1) /\ Phase = "called"
    BY <1>1, <1>3, PresentOnes DEF Late, Phase
  <2>2. Len(net) \in 1 .. Len(net) /\ net[Len(net)].op = op[p] /\ net \in Seq(Requests)
    BY <1>3, PresentOnes
  <2>3. Late' = Append(Late, op[p])
    BY <1>2, <2>1, <2>2, LastOps
  <2> QED BY <1>1, <1>2, <2>1, <2>3 DEF RQ!GiveUp
<1>4. CASE ~Queued
  <2>1. Late' = Late
    BY <1>2, <1>4 DEF Late
  <2>2. Phase \in {"called", "executed", "lost"}
    BY <1>1, <1>4 DEF Phase, InAccess
  <2> QED BY <1>1, <1>2, <2>1, <2>2 DEF RQ!GiveUp
<1> QED BY <1>3, <1>4

LEMMA QueueFail ==
  ASSUME OneClient, RmuInv, NEW p \in Procs, InAccess(p), Fail(p),
         UNCHANGED <<op, seqNum, net, regs>>
  PROVE  RQ!Fail
<1>1. /\ Client = p /\ pc'[p] = "done" /\ status'[p] = "MSD_FAIL" /\ value' = value
  BY TheClient DEF Fail, Goto, RmuInv, TypeOK
<1>2. RQ!GiveUp
  BY FailGivesUp, QueueGiveUp DEF RmuInv
<1>3. TookForeign(p) = FALSE /\ TookForeign(p)' = FALSE
  BY <1>1 DEF TookForeign, InAccess
<1> QED BY <1>1, <1>2, <1>3 DEF RQ!Fail

LEMMA QueueReturn ==
  ASSUME OneClient, RmuInv, NEW p \in Procs, Return(p)
  PROVE  RQ!Return
<1>1. /\ Client = p /\ pc[p] = "done" /\ pc'[p] = "idle" /\ op'[p] = FirstOp
      /\ status'[p] = "MSD_OK" /\ value'[p] = InitVal /\ TookForeign(p)' = FALSE
      /\ UNCHANGED <<net, regs>>
  BY TheClient DEF Return, Goto, RmuInv, TypeOK, TookForeign
<1>2. Phase = "done" /\ Phase' = "idle" /\ ~Queued /\ ~Queued'
  BY <1>1 DEF Phase, Queued
<1>3. Late' = Late
  BY <1>1, <1>2 DEF Late
<1>4. FirstOp \in RQ!Ops
  BY Constants, RmuAssumption DEF Ops, RQ!Ops
<1> QED BY <1>1, <1>2, <1>3, <1>4 DEF RQ!Return

(***************************************************************************)
(* Sending adds nothing to what is executed late; the request that is sent *)
(* is under way, or lost.                                                  *)
(***************************************************************************)
LEMMA QueueSend ==
  ASSUME OneClient, RmuInv, NEW p \in Procs, Send(p)
  PROVE  RQ!Lose \/ UNCHANGED RQ!vars
<1>1. /\ Client = p /\ pc[p] = "send" /\ pc'[p] = "recv"
      /\ UNCHANGED <<op, seqNum, status, value, rx, regs>>
  BY TheClient DEF Send, Goto, RmuInv, TypeOK
<1>2. Phase = "called" /\ ~Queued /\ Late = OpsOf(net, Len(net))
  BY <1>1 DEF Phase, Queued, Late
<1>5. TookForeign(p)' = TookForeign(p)
  BY <1>1 DEF TookForeign
<1>3. CASE net' = Append(net, [seq |-> seqNum[p], op |-> op[p]])
  <2>1. [seq |-> seqNum[p], op |-> op[p]] \in Requests
    BY DEF RmuInv, TypeOK, Requests
  <2>2. /\ net' \in Seq(Requests) /\ Len(net) \in Nat /\ Len(net') = Len(net) + 1
        /\ \A i \in 1 .. Len(net) : net'[i] = net[i]
        /\ net'[Len(net) + 1].seq = seqNum[p]
    BY <1>3, <2>1, Put DEF RmuInv, TypeOK
  <2>3. Queued'
    BY <1>1, <2>2, EmptySeq DEF Queued
  <2>4. Late' = Late
    BY <1>2, <2>2, <2>3 DEF Late, OpsOf
  <2>5. Phase' = "called"
    BY <1>1, <2>3 DEF Phase
  <2> QED BY <1>1, <1>2, <1>5, <2>4, <2>5 DEF RQ!vars
<1>4. CASE net' = net
  <2>1. ~Queued' /\ ~AnswerComes'
    <3>1. \A i \in 1 .. Len(net) : net[i].seq # seqNum[p]
      BY <1>1 DEF RmuInv, NetInv, InAccess
    <3>2. \A i \in 1 .. Len(rx) : ~rx[i].foreign => rx[i].seq # seqNum[p]
      BY <1>1 DEF RmuInv, RxInv, InAccess
    <3>3. Len(net) \in Nat /\ (net # <<>> => Len(net) > 0)
      BY PresentOnes
    <3>4. net # <<>> => net[Len(net)].seq # seqNum[p]
      BY <3>1, <3>3
    <3> QED BY <1>1, <1>4, <3>2, <3>4 DEF Queued, AnswerComes
  <2>2. Phase' = "lost" /\ Late' = Late
    BY <1>1, <1>2, <1>4, <2>1 DEF Phase, Late
  <2> QED BY <1>1, <1>2, <1>4, <1>5, <2>2 DEF RQ!Lose
<1> QED BY <1>3, <1>4 DEF Send

(***************************************************************************)
(* A frame that is dropped changes nothing; the present answer tells what  *)
(* the register holds.                                                     *)
(***************************************************************************)
LEMMA QueueRecv ==
  ASSUME OneClient, RmuInv, NEW p \in Procs, Recv(p)
  PROVE  RQ!Succeed \/ RQ!Stray \/ RQ!Fail \/ UNCHANGED RQ!vars
<1>1. /\ Client = p /\ pc[p] = "recv" /\ rx # <<>> /\ rx' = Tail(rx) /\ InAccess(p)
      /\ UNCHANGED <<op, seqNum, net, regs>> /\ rsp'[p] = Head(rx)
      /\ TookForeign(p) = FALSE
  BY TheClient DEF Recv, InAccess, RmuInv, TypeOK, TookForeign
<1>2. /\ Head(rx) = rx[1] /\ Len(rx) \in Nat \ {0} /\ Len(rx') = Len(rx) - 1
      /\ \A i \in 1 .. Len(rx) - 1 : rx'[i] = rx[i + 1]
      /\ rx[1] \in Frames
  BY <1>1, Taken DEF RmuInv, TypeOK
<1>3. CASE Fail(p)
  BY <1>1, <1>3, QueueFail
<1>4. CASE Mine(p, Head(rx)) /\ Head(rx).full /\ Succeed(p, Head(rx))
  <2>1. /\ pc' = [pc EXCEPT ![p] = "done"] /\ pc'[p] = "done" /\ status'[p] = "MSD_OK"
        /\ fails' = [fails EXCEPT ![p] = IF rx[1].foreign THEN @ + 1 ELSE 0]
        /\ value'[p] = IF op[p].kind = "read" THEN rx[1].val ELSE value[p]
    BY <1>1, <1>2, <1>4 DEF Succeed, Goto, RmuInv, TypeOK
  <2>2. CASE rx[1].foreign
    <3>1. GivenUp(p) /\ TookForeign(p)' = TRUE
      BY <1>1, <1>2, <2>1, <2>2 DEF GivenUp, Answered, TookForeign
    <3>2. RQ!GiveUp
      BY <1>1, <3>1, QueueGiveUp
    <3>3. value'[p] \in IF op[p].kind = "read" THEN Vals ELSE {value[p]}
      <4>1. rx[1].val \in Vals
        BY <1>2 DEF Frames
      <4> QED BY <2>1, <4>1
    <3> QED BY <1>1, <2>1, <3>1, <3>2, <3>3 DEF RQ!Stray
  <2>3. CASE ~rx[1].foreign
    <3>1. AnswerComes /\ TookForeign(p)' = FALSE
      BY <1>1, <1>2, <1>4, <2>3 DEF AnswerComes, Mine, TookForeign
    <3>2. ~Queued /\ Phase = "executed" /\ Late = OpsOf(net, Len(net))
      BY <1>1, <3>1, PresentOnes DEF Phase, Late
    <3>3. Phase' = "done" /\ Late' = Late
      BY <1>1, <2>1, <3>2 DEF Phase, Late, Queued
    <3>4. op[p].kind = "read" => rx[1].val = regs[op[p].reg]
      <4>1. Holds(p, rx[1].val)
        BY <1>1, <1>2, <1>4, <2>3 DEF Mine, RmuInv, RxInv
      <4> QED BY <4>1 DEF Holds
    <3>5. value'[p] = IF op[p].kind = "read" THEN regs[op[p].reg] ELSE value[p]
      BY <2>1, <3>4
    <3> QED BY <1>1, <2>1, <3>1, <3>2, <3>3, <3>5 DEF RQ!Succeed
  <2> QED BY <2>2, <2>3
<1>5. CASE ~Mine(p, Head(rx)) /\ UNCHANGED <<pc, status, value, fails>>
  <2>1. Queued' = Queued /\ Late' = Late
    BY <1>1, <1>5 DEF Queued, Late
  <2>2. AnswerComes' = AnswerComes
    <3>1. ASSUME AnswerComes PROVE AnswerComes'
      <4>1. PICK i \in 1 .. Len(rx) : ~rx[i].foreign /\ rx[i].full /\ rx[i].seq = seqNum[p]
        BY <1>1, <3>1 DEF AnswerComes
      <4>2. i # 1
        BY <1>2, <1>5, <4>1 DEF Mine, Frames
      <4>3. i - 1 \in 1 .. Len(rx') /\ rx'[i - 1] = rx[i]
        BY <1>2, <4>2
      <4> QED BY <1>1, <1>5, <4>1, <4>3 DEF AnswerComes
    <3>2. ASSUME AnswerComes' PROVE AnswerComes
      <4>1. PICK i \in 1 .. Len(rx') : ~rx'[i].foreign /\ rx'[i].full /\ rx'[i].seq = seqNum[p]
        BY <1>1, <1>5, <3>2 DEF AnswerComes
      <4>2. i + 1 \in 1 .. Len(rx) /\ rx'[i] = rx[i + 1]
        BY <1>2
      <4> QED BY <1>1, <4>1, <4>2 DEF AnswerComes
    <3>3. AnswerComes \in BOOLEAN /\ AnswerComes' \in BOOLEAN
      BY DEF AnswerComes
    <3> QED BY <3>1, <3>2, <3>3
  <2>3. Phase' = Phase
    BY <1>1, <1>5, <2>1, <2>2 DEF Phase
  <2>4. TookForeign(p)' = FALSE
    BY <1>1, <1>5 DEF TookForeign
  <2> QED BY <1>1, <1>5, <2>1, <2>3, <2>4 DEF RQ!vars
<1> QED BY <1>3, <1>4, <1>5 DEF Recv

(***************************************************************************)
(* A frame that does not answer the present access.                        *)
(***************************************************************************)
LEMMA OtherFrame ==
  ASSUME OneClient, RmuInv, NEW p \in Procs, NEW f \in Frames, Deliver(f),
         UNCHANGED <<pc, seqNum>>, ~(pc[p] = "recv" /\ ~f.foreign /\ f.seq = seqNum[p])
  PROVE  AnswerComes' = AnswerComes
<1>1. Client = p /\ rx \in Seq(Frames) /\ Len(rx) \in Nat
  BY TheClient, PresentOnes
<1>2. CASE rx' = rx
  BY <1>2 DEF AnswerComes
<1>3. CASE rx' = Append(rx, f)
  <2>1. /\ Len(rx') = Len(rx) + 1 /\ rx'[Len(rx) + 1] = f
        /\ \A i \in 1 .. Len(rx) : rx'[i] = rx[i]
    BY <1>1, <1>3, Put
  <2>2. \A i \in 1 .. Len(rx') : i \in 1 .. Len(rx) \/ i = Len(rx) + 1
    BY <1>1, <2>1
  <2>3. 1 .. Len(rx) \subseteq 1 .. Len(rx')
    BY <1>1, <2>1
  <2> QED BY <1>1, <2>1, <2>2, <2>3 DEF AnswerComes
<1> QED BY <1>2, <1>3 DEF Deliver

(***************************************************************************)
(* The switch executes the first request: one that is late, or the present *)
(* one when no other is left.                                              *)
(***************************************************************************)
LEMMA QueueServe ==
  ASSUME OneClient, RmuInv, NEW p \in Procs, Serve
  PROVE  RQ!Execute \/ RQ!ExecuteLate
<1>1. /\ Client = p /\ net # <<>> /\ net' = Tail(net)
      /\ UNCHANGED <<pc, op, seqNum, status, value>> /\ TookForeign(p)' = TookForeign(p)
      /\ regs' = IF Head(net).op.kind = "write"
                 THEN [regs EXCEPT ![Head(net).op.reg] = Head(net).op.val] ELSE regs
  BY TheClient DEF Serve, TookForeign
<1>2. /\ Head(net) = net[1] /\ Len(net) \in Nat \ {0} /\ net \in Seq(Requests)
      /\ net' \in Seq(Requests) /\ Len(net') = Len(net) - 1
      /\ \A i \in 1 .. Len(net) - 1 : net'[i] = net[i + 1]
      /\ net' = <<>> <=> Len(net) = 1
  <2>1. net \in Seq(Requests)
    BY DEF RmuInv, TypeOK
  <2>2. /\ Head(net) = net[1] /\ Len(net) \in Nat \ {0} /\ net' \in Seq(Requests)
        /\ Len(net') = Len(net) - 1
        /\ \A i \in 1 .. Len(net) - 1 : net'[i] = net[i + 1]
    BY <1>1, <2>1, Taken
  <2>3. net' = <<>> <=> Len(net') = 0
    BY <2>2, EmptySeq
  <2> QED BY <2>1, <2>2, <2>3
<1>3. Len(net) > 1 => (Queued' <=> Queued)
  <2> SUFFICES ASSUME Len(net) > 1 PROVE Queued' <=> Queued
    OBVIOUS
  <2>1. net'[Len(net')] = net[Len(net)] /\ net' # <<>>
    BY <1>2
  <2> QED BY <1>1, <2>1 DEF Queued
<1>4. CASE Queued /\ Len(net) = 1
  <2>1. Late = OpsOf(net, 0) /\ Phase = "called" /\ net[1].op = op[p] /\ pc[p] = "recv"
    BY <1>1, <1>2, <1>4, PresentOnes DEF Late, Phase
  <2>2. ~Queued' /\ Late' = OpsOf(net', 0)
    BY <1>2, <1>4 DEF Late, Queued
  <2>3. \A q \in Seq(Requests) : OpsOf(q, 0) = <<>>
    <3> SUFFICES ASSUME NEW q \in Seq(Requests) PROVE OpsOf(q, 0) = <<>>
      OBVIOUS
    <3>1. 0 \in 0 .. Len(q)
      BY LenProperties
    <3>2. OpsOf(q, 0) \in Seq(Ops) /\ Len(OpsOf(q, 0)) = 0
      BY <3>1, OpsOfSeq
    <3> QED BY <3>2, EmptySeq
  <2>4. Phase' \in {"executed", "lost"}
    BY <1>1, <2>1, <2>2 DEF Phase
  <2>5. Late = <<>> /\ Late' = <<>>
    BY <1>2, <2>1, <2>2, <2>3
  <2>6. regs' = RQ!After(op[p])
    BY <1>1, <1>2, <2>1 DEF RQ!After
  <2> QED BY <1>1, <2>1, <2>4, <2>5, <2>6 DEF RQ!Execute, RQ!After
<1>5. CASE ~(Queued /\ Len(net) = 1)
  <2> DEFINE n == IF Queued THEN Len(net) - 1 ELSE Len(net)
  <2>1. n \in 1 .. Len(net) /\ Late = OpsOf(net, n)
    BY <1>2, <1>5 DEF Late
  <2>2. ~Queued => ~Queued'
    <3>1. CASE Len(net) > 1
      BY <1>3, <3>1
    <3>2. CASE Len(net) = 1
      BY <1>2, <3>2 DEF Queued
    <3> QED BY <1>2, <3>1, <3>2
  <2>3. Queued => Queued' /\ Len(net) > 1
    BY <1>2, <1>3, <1>5
  <2>4. Late' = OpsOf(Tail(net), n - 1)
    BY <1>1, <1>2, <2>2, <2>3 DEF Late
  <2>5. Late # <<>> /\ Head(Late) = net[1].op /\ Late' = Tail(Late)
    BY <1>2, <2>1, <2>4, FirstOps
  <2>6. Phase' = Phase
    <3>1. CASE pc[p] # "recv"
      <4>1. ~Queued /\ ~Queued'
        BY <1>1, <3>1 DEF Queued
      <4>2. pc[p] \in {"idle", "done", "send"}
        BY <3>1 DEF RmuInv, TypeOK
      <4> QED BY <1>1, <4>1, <4>2 DEF Phase
    <3>2. CASE Queued
      <4>1. pc[p] = "recv"
        BY <1>1, <3>2 DEF Queued
      <4>2. Queued'
        BY <2>3, <3>2
      <4>3. Phase = "called"
        BY <1>1, <3>2, <4>1 DEF Phase
      <4>4. Phase' = "called"
        BY <1>1, <4>1, <4>2 DEF Phase
      <4> QED BY <4>3, <4>4
    <3>3. CASE ~Queued /\ pc[p] = "recv"
      <4>1. net[1].seq # seqNum[p]
        <5>1. 1 \in 1 .. Len(net) /\ (net[1].seq = seqNum[p] => Len(net) = 1)
          BY <1>2, <3>3 DEF RmuInv, NetInv, InAccess
        <5> QED BY <1>1, <3>3, <5>1 DEF Queued
      <4>2. PICK full \in BOOLEAN : Deliver(Answer(full))
        BY DEF Serve
      <4>3. PICK f \in Frames : f = Answer(full)
        BY <1>1, AnswerType DEF RmuInv
      <4>4. Deliver(f) /\ f.seq = net[1].seq
        BY <1>1, <1>2, <4>2, <4>3, AnswerType DEF Deliver, RmuInv
      <4>5. AnswerComes' = AnswerComes
        BY <1>1, <4>1, <4>4, OtherFrame
      <4> QED BY <1>1, <2>2, <3>3, <4>5 DEF Phase
    <3> QED BY <3>1, <3>2, <3>3
  <2>7. regs' = RQ!After(net[1].op)
    BY <1>1, <1>2 DEF RQ!After
  <2> QED BY <1>1, <2>5, <2>6, <2>7 DEF RQ!ExecuteLate, RQ!After
<1> QED BY <1>4, <1>5

LEMMA QueueForeign ==
  ASSUME OneClient, RmuInv, NEW p \in Procs, ForeignTraffic
  PROVE  UNCHANGED RQ!vars
<1>1. UNCHANGED <<pc, op, seqNum, status, value, net, regs>> /\ Client = p
  BY TheClient DEF ForeignTraffic
<1>2. TookForeign(p)' = TookForeign(p)
  BY DEF ForeignTraffic, TookForeign
<1>3. PICK f \in ForeignFrames : Deliver(f)
  BY DEF ForeignTraffic
<1>4. f \in Frames /\ f.foreign
  BY Constants
<1>5. AnswerComes' = AnswerComes
  BY <1>1, <1>3, <1>4, OtherFrame
<1>6. Phase' = Phase /\ Late' = Late
  BY <1>1, <1>5 DEF Phase, Late, Queued
<1> QED BY <1>1, <1>2, <1>6 DEF RQ!vars

(***************************************************************************)
(* A client alone on its socket has its accesses executed in the order of  *)
(* its calls and none twice, for any queues, registers, values and number  *)
(* of accesses given up in a row below that of the sequence numbers, and   *)
(* whatever is lost or fails (rmuPcap.c:330-375, msdHwAccess.c:1238).      *)
(***************************************************************************)
THEOREM AccessesAreInOrder ==
  ASSUME Procs # {}, OneClient, FewGivenUp
  PROVE  Spec => InOrder
<1> PICK p \in Procs : Client = p
  BY TheClient
<1>1. Init => RQ!Init
  <2> SUFFICES ASSUME Init PROVE RQ!Init
    OBVIOUS
  <2>1. Phase = "idle" /\ ~Queued
    BY DEF Init, Phase, Queued
  <2>2. Late = <<>>
    <3>1. net = <<>> /\ <<>> \in Seq(Requests) /\ Len(<<>>) = 0 /\ 0 \in 0 .. 0
      BY EmptySeq DEF Init
    <3>2. OpsOf(<<>>, 0) \in Seq(Ops) /\ Len(OpsOf(<<>>, 0)) = 0
      BY <3>1, OpsOfSeq
    <3>3. OpsOf(<<>>, 0) = <<>>
      BY <3>2, EmptySeq
    <3> QED BY <2>1, <3>1, <3>3 DEF Late
  <2>3. FirstOp \in RQ!Ops /\ TookForeign(p) = FALSE
    BY Constants, RmuAssumption DEF Init, Ops, RQ!Ops, TookForeign
  <2> QED BY <2>1, <2>2, <2>3 DEF Init, RQ!Init
<1>2. RmuInv /\ [Next]_vars => [RQ!Next]_(RQ!vars)
  <2> SUFFICES ASSUME RmuInv, [Next]_vars PROVE RQ!Next \/ UNCHANGED RQ!vars
    OBVIOUS
  <2>0. \A q \in Procs : q = p
    BY DEF OneClient
  <2>1. ASSUME NEW o \in Ops, Call(p, o) PROVE RQ!Next
    <3>1. o \in RQ!Ops
      BY RmuAssumption DEF Ops, RQ!Ops
    <3> QED BY <2>1, <3>1, QueueCall DEF RQ!Next
  <2>2. ASSUME Send(p) PROVE RQ!Next \/ UNCHANGED RQ!vars
    BY <2>2, QueueSend DEF RQ!Next
  <2>3. ASSUME SendError(p) \/ RecvError(p) PROVE RQ!Next
    <3>1. InAccess(p) /\ Fail(p) /\ UNCHANGED <<op, seqNum, net, regs>>
      BY <2>3 DEF SendError, RecvError, InAccess
    <3> QED BY <3>1, QueueFail DEF RQ!Next
  <2>4. ASSUME Recv(p) PROVE RQ!Next \/ UNCHANGED RQ!vars
    BY <2>4, QueueRecv DEF RQ!Next
  <2>5. ASSUME Return(p) PROVE RQ!Next
    BY <2>5, QueueReturn DEF RQ!Next
  <2>6. CASE Serve
    BY <2>6, QueueServe DEF RQ!Next
  <2>7. CASE ForeignTraffic
    BY <2>7, QueueForeign
  <2>8. CASE UNCHANGED vars
    BY <2>8 DEF vars, RQ!vars, Late, Phase, Queued, AnswerComes, TookForeign
  <2> QED BY <2>0, <2>1, <2>2, <2>3, <2>4, <2>5, <2>6, <2>7, <2>8 DEF Next, Step
<1> QED
  BY <1>1, <1>2, InvHolds, PTL DEF Spec, InOrder, RQ!Spec
=============================================================================
