---------------------------- MODULE RmuTransport ----------------------------
(***************************************************************************)
(* Register access over Ethernet frames: msdRmuRegRead and msdRmuRegWrite  *)
(* send one request and wait in send_and_receive_packet for the frame that *)
(* carries its DSA sequence number.  On Linux a process is forked for each *)
(* telnet client after the driver is loaded: the processes share the raw   *)
(* socket, and each has a copy of dev->reqSeqNum.  One thread per process. *)
(***************************************************************************)
EXTENDS Integers, Sequences

CONSTANTS
  Procs,        \* the forked clients
  Regs,
  Vals,
  InitVal,
  SeqMod,       \* 2^8: reqSeqNum is a MSD_U8
  Limit,        \* drop_cnt_limit
  NetCap,       \* requests on the wire and in the switch
  RxCap,        \* frames the socket's receive queue holds
  Lossy,        \* may frames be lost
  Foreign,      \* how other frames that pass the filter look: own of Frames below
  MayFail,      \* may send and recv fail, or an answer be too short
  MaxFails      \* bound: accesses of one client that fail in a row

Ops ==
  [kind : {"read"}, reg : Regs, val : {InitVal}] \cup [kind : {"write"}, reg : Regs, val : Vals]

ASSUME RmuAssumption ==
  /\ Regs # {}
  /\ InitVal \in Vals
  /\ SeqMod \in Nat /\ SeqMod > 0
  /\ {Limit, NetCap, RxCap, MaxFails} \subseteq Nat
  /\ {Lossy, MayFail} \subseteq BOOLEAN
  /\ Foreign \subseteq BOOLEAN

VARIABLES
  pc,         \* where each client is
  op,         \* the access it makes
  reqSeqNum,  \* dev->reqSeqNum
  seqNum,     \* sequence number in the request it sent last
  drop,       \* drop_cnt
  rsp,        \* rsp_packet
  status,     \* retVal
  value,      \* *value
  fails,      \* accesses since the last that took an answer of the switch (bounds MaxFails)
  net,        \* requests under way to the switch
  rx,         \* the socket's receive queue
  regs        \* the switch's registers

vars == <<pc, op, reqSeqNum, seqNum, drop, rsp, status, value, fails, net, rx, regs>>

SomeReg == CHOOSE r \in Regs : TRUE
FirstOp == [kind |-> "read", reg |-> SomeReg, val |-> InitVal]

SeqNums == 0 .. SeqMod - 1
Requests == [seq : SeqNums, op : Ops]
\* own: the first byte of the destination is the adapter's; full: not shorter
\* than the request; foreign: it answers no request, which the code does not see.  The
\* switch sends its answers to the adapter.
Frames ==
  {f \in [foreign : BOOLEAN, own : BOOLEAN, full : BOOLEAN,
          seq : SeqNums, op : Ops, val : Vals] : f.foreign \/ f.own}

\* Frames with the device number that answer no request: the filter looks at nothing
\* else, and any byte may stand where the sequence number and the data would.  Of one
\* that is too short the data is not looked at.
ForeignFrames ==
  {f \in Frames : /\ f.foreign /\ f.own \in Foreign /\ f.op = FirstOp
                  /\ f.full \/ (MayFail /\ f.val = InitVal)}

NoFrame ==
  [foreign |-> TRUE, own |-> FALSE, full |-> TRUE, seq |-> 0, op |-> FirstOp, val |-> InitVal]

TypeOK ==
  /\ pc \in [Procs -> {"idle", "send", "recv", "done"}]
  /\ op \in [Procs -> Ops]
  /\ reqSeqNum \in [Procs -> SeqNums]
  /\ seqNum \in [Procs -> SeqNums]
  /\ drop \in [Procs -> 0 .. Limit + 1]
  /\ rsp \in [Procs -> Frames]
  /\ status \in [Procs -> {"MSD_OK", "MSD_FAIL"}]
  /\ value \in [Procs -> Vals]
  /\ fails \in [Procs -> 0 .. MaxFails]
  /\ net \in Seq(Requests) /\ Len(net) <= NetCap
  /\ rx \in Seq(Frames) /\ Len(rx) <= RxCap
  /\ regs \in [Regs -> Vals]

Init ==
  /\ pc = [p \in Procs |-> "idle"]
  /\ op = [p \in Procs |-> FirstOp]
  /\ \E s \in SeqNums : reqSeqNum = [p \in Procs |-> s]   \* copied by fork()
  /\ seqNum = [p \in Procs |-> 0]
  /\ drop = [p \in Procs |-> 0]
  /\ rsp = [p \in Procs |-> NoFrame]
  /\ status = [p \in Procs |-> "MSD_OK"]
  /\ value = [p \in Procs |-> InitVal]
  /\ fails = [p \in Procs |-> 0]
  /\ net = <<>>
  /\ rx = <<>>
  /\ regs = [r \in Regs |-> InitVal]

Goto(p, from, to) == pc[p] = from /\ pc' = [pc EXCEPT ![p] = to]

\* The functions return: MSD_FAIL, or MSD_OK with the frame's data.
Fail(p) ==
  /\ Goto(p, pc[p], "done")
  /\ fails[p] < MaxFails
  /\ fails' = [fails EXCEPT ![p] = @ + 1]
  /\ status' = [status EXCEPT ![p] = "MSD_FAIL"]
  /\ UNCHANGED value

Succeed(p, frame) ==
  /\ Goto(p, pc[p], "done")
  /\ frame.foreign => fails[p] < MaxFails
  /\ fails' = [fails EXCEPT ![p] = IF frame.foreign THEN @ + 1 ELSE 0]
  /\ status' = [status EXCEPT ![p] = "MSD_OK"]
  /\ value' = IF op[p].kind = "read" THEN [value EXCEPT ![p] = frame.val] ELSE value

-----------------------------------------------------------------------------
(* The driver: msdRmuRegRead, msdRmuRegWrite *)

\* Mutant: the sequence number is used and never advanced.
MutCall(p, o) ==
  /\ Goto(p, "idle", "send")
  /\ op' = [op EXCEPT ![p] = o]
  /\ seqNum' = [seqNum EXCEPT ![p] = reqSeqNum[p]]
  /\ UNCHANGED <<reqSeqNum, drop, rsp, status, value, fails, net, rx, regs>>

\* Mutant: the sequence number is not kept to eight bits.
MutCallWide(p, o) ==
  /\ Goto(p, "idle", "send")
  /\ op' = [op EXCEPT ![p] = o]
  /\ seqNum' = [seqNum EXCEPT ![p] = reqSeqNum[p]]
  /\ reqSeqNum' = [reqSeqNum EXCEPT ![p] = @ + 1]
  /\ UNCHANGED <<drop, rsp, status, value, fails, net, rx, regs>>

Call(p, o) ==
  /\ Goto(p, "idle", "send")
  /\ op' = [op EXCEPT ![p] = o]
  /\ seqNum' = [seqNum EXCEPT ![p] = reqSeqNum[p]]
  /\ reqSeqNum' = [reqSeqNum EXCEPT ![p] = (@ + 1) % SeqMod]
  /\ UNCHANGED <<drop, rsp, status, value, fails, net, rx, regs>>

\* The arguments, the buffer, the count and the result are gone with the call.
Return(p) ==
  /\ Goto(p, "done", "idle")
  /\ op' = [op EXCEPT ![p] = FirstOp]
  /\ drop' = [drop EXCEPT ![p] = 0]
  /\ rsp' = [rsp EXCEPT ![p] = NoFrame]
  /\ status' = [status EXCEPT ![p] = "MSD_OK"]
  /\ value' = [value EXCEPT ![p] = InitVal]
  /\ UNCHANGED <<reqSeqNum, seqNum, fails, net, rx, regs>>

-----------------------------------------------------------------------------
(* send_and_receive_packet *)

\* Mutant: the request is sent again although it has been sent.
MutSend(p) ==
  /\ Goto(p, "send", "recv")
  /\ LET r == [seq |-> seqNum[p], op |-> op[p]]
     IN \/ Len(net) < NetCap - 1 /\ net' = net \o <<r, r>>
        \/ Len(net) < NetCap /\ net' = Append(net, r)
        \/ Lossy /\ UNCHANGED net
  /\ UNCHANGED <<op, reqSeqNum, seqNum, drop, rsp, status, value, fails, rx, regs>>

Send(p) ==
  /\ Goto(p, "send", "recv")
  /\ \/ /\ Len(net) < NetCap
        /\ net' = Append(net, [seq |-> seqNum[p], op |-> op[p]])
     \/ Lossy /\ UNCHANGED net
  /\ UNCHANGED <<op, reqSeqNum, seqNum, drop, rsp, status, value, fails, rx, regs>>

SendError(p) ==
  /\ MayFail
  /\ pc[p] = "send"
  /\ Fail(p)
  /\ UNCHANGED <<op, reqSeqNum, seqNum, drop, rsp, net, rx, regs>>

\* Mutant: a frame with another sequence number is taken.
MutMine(p, frame) == frame.own

Mine(p, frame) == frame.own /\ frame.seq = seqNum[p]

\* One turn of the receive loop.  The count takes the wanted frame too, so that
\* the limit also ends the loop when it has just been found.
Recv(p) ==
  /\ pc[p] = "recv"
  /\ rx # <<>>
  /\ rx' = Tail(rx)
  /\ rsp' = [rsp EXCEPT ![p] = Head(rx)]
  /\ drop' = [drop EXCEPT ![p] = @ + 1]
  /\ \/ /\ drop[p] + 1 > Limit \/ (Mine(p, Head(rx)) /\ ~Head(rx).full)
        /\ Fail(p)
     \/ /\ drop[p] + 1 <= Limit
        /\ Mine(p, Head(rx)) /\ Head(rx).full
        /\ Succeed(p, Head(rx))
     \/ /\ drop[p] + 1 <= Limit
        /\ ~Mine(p, Head(rx))
        /\ UNCHANGED <<pc, status, value, fails>>
  /\ UNCHANGED <<op, reqSeqNum, seqNum, net, regs>>

RecvError(p) ==
  /\ MayFail
  /\ pc[p] = "recv"
  /\ Fail(p)
  /\ UNCHANGED <<op, reqSeqNum, seqNum, drop, rsp, net, rx, regs>>

-----------------------------------------------------------------------------
(* The switch and the socket *)

Deliver(frame) ==
  \/ Len(rx) < RxCap /\ rx' = Append(rx, frame)
  \/ (Lossy \/ Len(rx) >= RxCap) /\ UNCHANGED rx

Answer(full) ==
  LET o == Head(net).op
  IN [foreign |-> FALSE, own |-> TRUE, full |-> full, seq |-> Head(net).seq, op |-> o,
      val |-> IF o.kind = "write" THEN o.val ELSE regs[o.reg]]

\* Frames that may keep an access from its answer stop at the bound MaxFails.
BelowBound == \A p \in Procs : fails[p] < MaxFails

Serve ==
  /\ net # <<>>
  /\ net' = Tail(net)
  /\ LET o == Head(net).op
     IN regs' = IF o.kind = "write" THEN [regs EXCEPT ![o.reg] = o.val] ELSE regs
  /\ \E full \in BOOLEAN :
       /\ ~full => MayFail /\ BelowBound
       /\ Deliver(Answer(full))
  /\ UNCHANGED <<pc, op, reqSeqNum, seqNum, drop, rsp, status, value, fails>>

ForeignTraffic ==
  /\ BelowBound
  /\ Len(rx) < RxCap
  /\ \E f \in ForeignFrames : Deliver(f)
  /\ UNCHANGED <<pc, op, reqSeqNum, seqNum, drop, rsp, status, value, fails, net, regs>>

-----------------------------------------------------------------------------
Step(p) == Send(p) \/ SendError(p) \/ Recv(p) \/ RecvError(p) \/ Return(p)

Next ==
  \/ \E p \in Procs : (\E o \in Ops : Call(p, o)) \/ Step(p)
  \/ Serve
  \/ ForeignTraffic

Spec == Init /\ [][Next]_vars

-----------------------------------------------------------------------------
(* Properties *)

\* The frame taken as the answer answers nothing: by chance it has the sequence number
\* and the first byte of the destination, all that the receive loop compares.
TookForeign(p) == pc[p] = "done" /\ status[p] = "MSD_OK" /\ rsp[p].foreign

Answered(p) == pc[p] = "done" /\ status[p] = "MSD_OK" /\ ~rsp[p].foreign

\* An access that returns MSD_OK on an answer of the switch took the answer to its own
\* request: not that to one it gave up before, or to one of another client.
OwnAnswer == \A p \in Procs : Answered(p) => rsp[p].op = op[p]

\* For one client: when an access has returned MSD_OK on an answer of the switch, the
\* switch has executed it and every earlier one, those that were given up or took a
\* foreign frame included, so that the register holds what was read or written.
AnswerIsCurrent ==
  \A p \in Procs : Answered(p) =>
    regs[op[p].reg] = IF op[p].kind = "write" THEN op[p].val ELSE value[p]

\* For one client: where its access is, and what is still to be executed before it.
Client == CHOOSE p \in Procs : TRUE

Queued == pc[Client] = "recv" /\ net # <<>> /\ net[Len(net)].seq = seqNum[Client]

AnswerComes ==
  /\ pc[Client] = "recv"
  /\ \E i \in 1 .. Len(rx) : ~rx[i].foreign /\ rx[i].full /\ rx[i].seq = seqNum[Client]

Phase ==
  IF pc[Client] \in {"idle", "done"} THEN pc[Client]
  ELSE IF pc[Client] = "send" \/ Queued THEN "called"
  ELSE IF AnswerComes THEN "executed" ELSE "lost"

OpsOf(q, n) == [i \in 1 .. n |-> q[i].op]
Late == OpsOf(net, IF Queued THEN Len(net) - 1 ELSE Len(net))

RQ == INSTANCE RegQueue WITH late <- Late, op <- op[Client], phase <- Phase,
                             status <- status[Client], value <- value[Client],
                             stray <- TookForeign(Client)

(***************************************************************************)
(* For one client: its accesses are executed in the order of its calls and *)
(* none twice, those it gave up included, and one that returns MSD_OK has  *)
(* been executed after all others and returns what it read then            *)
(* (rmuPcap.c:336-343), although sequence numbers wrap, frames are lost    *)
(* and answers to given-up accesses come late.  An access that takes a     *)
(* foreign frame is like one that was given up, but returns MSD_OK.        *)
(***************************************************************************)
InOrder == RQ!Spec
=============================================================================
