------------------------------- MODULE OsaMbx -------------------------------
(***************************************************************************)
(* Mailboxes and the tasks that own them: osa_mbx.c and osa_tsk.c over the *)
(* message queues of osa_msgq.c.  Those are the ring of OsaQue with        *)
(* message handles for values and no peek, so they are taken as bounded    *)
(* queues: one call is one step, and a call that waits is a step that is   *)
(* not enabled.  Handles and parameters are cells of the heap, freed and   *)
(* given out again.  Every thread sends from a mailbox of its own.  A      *)
(* handler is the user's: it may send one message before it answers the    *)
(* one it was entered with, once, as the interface asks of it, and use the *)
(* other calls of its own mailbox after that.                              *)
(***************************************************************************)
EXTENDS Integers, FiniteSets, Sequences, SequencesExt

CONSTANTS
  Tasks,      \* threads of OSA_tskCreate
  Clients,    \* other threads that send, each with a mailbox of its own
  MaySend,    \* the pairs <<sender, receiver>> of the application
  Handles,    \* heap cells for an OSA_MsgHndl
  Prms,       \* heap cells for parameters sent with OSA_MBX_FREE_PRM
  Cmds,
  MaxLen,     \* OSA_MSGQ_LEN_MAX
  Reserve     \* handles that clients leave to the handlers

Threads == Tasks \cup Clients

NoMsg  == [free |-> TRUE]
NoPrm  == "NULL"
None   == "none"

ASSUME MbxAssumption ==
  /\ IsFiniteSet(Tasks) /\ Tasks \cap Clients = {}
  /\ None \notin Handles /\ NoPrm \notin Prms
  /\ MaySend \subseteq Threads \X Tasks
  /\ MaxLen \in Nat /\ MaxLen >= Cardinality(Tasks)
  /\ Reserve \in Nat

VARIABLES
  msg,     \* the heap: what each handle holds, NoMsg when it is free
  live,    \* the allocated parameters
  rcvMbx,  \* the queue of received messages of each thread's mailbox
  ackMbx,  \* the queue of acknowledgements of each thread's mailbox
  tpc,     \* where each thread is
  held,    \* the message a handler has been given and has not answered
  call,    \* the arguments of the thread's call in progress
  sent,    \* pSentMsg, pSentMsgList: messages of it not acknowledged yet
  retVal   \* what the last call with OSA_MBX_WAIT_ACK returned

vars == <<msg, live, rcvMbx, ackMbx, tpc, held, call, sent, retVal>>
heap == <<msg, live>>

NoCall == [to |-> <<>>, cmd |-> None, prm |-> NoPrm, waitAck |-> FALSE]

Msgs == [to: Tasks, from: Threads, cmd: Cmds, prm: Prms \cup {NoPrm},
         waitAck: BOOLEAN, status: {"SOK", "EFAIL"}]

Calls == [to: Seq(Tasks), cmd: Cmds \cup {None}, prm: Prms \cup {NoPrm}, waitAck: BOOLEAN]

TypeOK ==
  /\ msg \in [Handles -> Msgs \cup {NoMsg}]
  /\ live \subseteq Prms
  /\ rcvMbx \in [Threads -> BoundedSeq(Handles, MaxLen)]
  /\ ackMbx \in [Threads -> BoundedSeq(Handles, MaxLen)]
  /\ tpc \in [Threads -> {"idle", "send", "ack", "wait", "run", "done", "after",
                          "cmd", "flush", "flushack"}]
  /\ held \in [Threads -> Handles \cup {None}]
  /\ call \in [Threads -> Calls]
  /\ sent \in [Threads -> SUBSET Handles]
  /\ retVal \in [Threads -> {"SOK", "EFAIL", None}]

Init ==
  /\ msg = [h \in Handles |-> NoMsg]
  /\ live = {}
  /\ rcvMbx = [t \in Threads |-> <<>>]
  /\ ackMbx = [t \in Threads |-> <<>>]
  /\ tpc = [t \in Threads |-> IF t \in Tasks THEN "wait" ELSE "idle"]
  /\ held = [t \in Threads |-> None]
  /\ call = [t \in Threads |-> NoCall]
  /\ sent = [t \in Threads |-> {}]
  /\ retVal = [t \in Threads |-> None]

goto(t, where) == tpc' = [tpc EXCEPT ![t] = where]
-----------------------------------------------------------------------------
(* OSA_mbxSendMsg (one receiver) and OSA_mbxBroadcastMsg (a list of them). *)
(* The caller has allocated the parameters.  The heap is large: clients    *)
(* stop sending while there are handles left for the handlers they call.   *)
begin(t, to, cmd, prm, wait) ==
  /\ tpc[t] \in {"idle", "run"}
  /\ t \in Clients => Cardinality({h \in Handles : msg[h] = NoMsg}) >= Len(to) + Reserve
  /\ call' = [call EXCEPT ![t] = [to |-> to, cmd |-> cmd, prm |-> prm, waitAck |-> wait]]
  /\ live' = IF prm = NoPrm THEN live ELSE live \cup {prm}
  /\ sent' = [sent EXCEPT ![t] = {}]
  /\ retVal' = [retVal EXCEPT ![t] = IF wait THEN "SOK" ELSE @]
  /\ goto(t, "send")
  /\ UNCHANGED <<msg, rcvMbx, ackMbx, held>>

Receivers(t) == {d \in Tasks : <<t, d>> \in MaySend}

FreePrms == {NoPrm} \cup (Prms \ live)

SendMsg(t) ==
  \E d \in Receivers(t), cmd \in Cmds, prm \in FreePrms, wait \in BOOLEAN :
    begin(t, <<d>>, cmd, prm, wait)

(* Parameters that are to be freed are not broadcast without waiting. *)
BroadcastMsg(t) ==
  \E them \in SUBSET Receivers(t), cmd \in Cmds, prm \in FreePrms, wait \in BOOLEAN :
    /\ Cardinality(them) > 1
    /\ prm # NoPrm => wait
    /\ begin(t, SetToSeq(them), cmd, prm, wait)

(* Where a call returns to: a handler to its next statement. *)
Returned(t) == IF t \in Tasks THEN "done" ELSE "idle"

(* Mutant: a message stored in a full queue. *)
sendNext_untested(t) ==
  /\ tpc[t] = "send"
  /\ LET c == call[t]
         d == Head(c.to)
     IN \E h \in Handles :
          /\ msg[h] = NoMsg
          /\ msg' = [msg EXCEPT ![h] =
               [to |-> d, from |-> t, cmd |-> c.cmd, prm |-> c.prm,
                waitAck |-> c.waitAck, status |-> "SOK"]]
          /\ rcvMbx' = [rcvMbx EXCEPT ![d] = Append(@, h)]
          /\ sent' = [sent EXCEPT ![t] = IF c.waitAck THEN @ \cup {h} ELSE @]
          /\ call' = [call EXCEPT ![t] =
               IF Len(c.to) = 1 /\ ~c.waitAck THEN NoCall ELSE [c EXCEPT !.to = Tail(@)]]
          /\ goto(t, IF Len(c.to) > 1 THEN "send"
                     ELSE IF c.waitAck THEN "ack" ELSE Returned(t))
  /\ UNCHANGED <<live, ackMbx, held, retVal>>

(* OSA_msgqSendMsg to the next of the list, when its mailbox has room. *)
sendNext(t) ==
  /\ tpc[t] = "send"
  /\ LET c == call[t]
         d == Head(c.to)
     IN \E h \in Handles :
          /\ msg[h] = NoMsg
          /\ Len(rcvMbx[d]) < MaxLen
          /\ msg' = [msg EXCEPT ![h] =
               [to |-> d, from |-> t, cmd |-> c.cmd, prm |-> c.prm,
                waitAck |-> c.waitAck, status |-> "SOK"]]
          /\ rcvMbx' = [rcvMbx EXCEPT ![d] = Append(@, h)]
          /\ sent' = [sent EXCEPT ![t] = IF c.waitAck THEN @ \cup {h} ELSE @]
          /\ call' = [call EXCEPT ![t] =
               IF Len(c.to) = 1 /\ ~c.waitAck THEN NoCall ELSE [c EXCEPT !.to = Tail(@)]]
          /\ goto(t, IF Len(c.to) > 1 THEN "send"
                     ELSE IF c.waitAck THEN "ack" ELSE Returned(t))
  /\ UNCHANGED <<live, ackMbx, held, retVal>>

(* OSA_mbxFreeMsg: the handle, and the parameters it carries. *)
FreeMsg(h) ==
  /\ msg' = [msg EXCEPT ![h] = NoMsg]
  /\ live' = live \ {msg[h].prm}

(* Mutant: each message freed as OSA_mbxSendMsg frees its one, parameters  *)
(* included.                                                               *)
acknowledged_freesPrm(t, h) ==
  /\ sent' = [sent EXCEPT ![t] = @ \ {h}]
  /\ retVal' = [retVal EXCEPT ![t] = IF @ = "SOK" THEN msg[h].status ELSE @]
  /\ FreeMsg(h)
  /\ IF sent[t] = {h}
     THEN /\ call' = [call EXCEPT ![t] = NoCall]
          /\ goto(t, Returned(t))
     ELSE UNCHANGED <<call, tpc>>

(* Mutant: the handle is not given back. *)
acknowledged_keepsHandle(t, h) ==
  /\ sent' = [sent EXCEPT ![t] = @ \ {h}]
  /\ retVal' = [retVal EXCEPT ![t] = IF @ = "SOK" THEN msg[h].status ELSE @]
  /\ IF sent[t] = {h}
     THEN /\ live' = live \ {call[t].prm}
          /\ call' = [call EXCEPT ![t] = NoCall]
          /\ goto(t, Returned(t))
     ELSE UNCHANGED <<live, call, tpc>>
  /\ UNCHANGED msg

(* Mutant: the wait ends with the first acknowledgement of a broadcast. *)
acknowledged_firstOnly(t, h) ==
  /\ sent' = [sent EXCEPT ![t] = {}]
  /\ retVal' = [retVal EXCEPT ![t] = IF @ = "SOK" THEN msg[h].status ELSE @]
  /\ msg' = [msg EXCEPT ![h] = NoMsg]
  /\ live' = live \ {call[t].prm}
  /\ call' = [call EXCEPT ![t] = NoCall]
  /\ goto(t, Returned(t))

(* Mutant: the status of the last acknowledgement replaces the ones before. *)
acknowledged_lastStatus(t, h) ==
  /\ sent' = [sent EXCEPT ![t] = @ \ {h}]
  /\ retVal' = [retVal EXCEPT ![t] = msg[h].status]
  /\ msg' = [msg EXCEPT ![h] = NoMsg]
  /\ IF sent[t] = {h}
     THEN /\ live' = live \ {call[t].prm}
          /\ call' = [call EXCEPT ![t] = NoCall]
          /\ goto(t, Returned(t))
     ELSE UNCHANGED <<live, call, tpc>>

(* A message of the call acknowledged: the handle is freed, the parameters *)
(* only with the last, and the first failure is what the call returns.     *)
acknowledged(t, h) ==
  /\ sent' = [sent EXCEPT ![t] = @ \ {h}]
  /\ retVal' = [retVal EXCEPT ![t] = IF @ = "SOK" THEN msg[h].status ELSE @]
  /\ msg' = [msg EXCEPT ![h] = NoMsg]
  /\ IF sent[t] = {h}
     THEN /\ live' = live \ {call[t].prm}
          /\ call' = [call EXCEPT ![t] = NoCall]
          /\ goto(t, Returned(t))
     ELSE UNCHANGED <<live, call, tpc>>

(* The wait for acknowledgements: what is none of the call's is taken for  *)
(* that of some old message and freed with its parameters.                 *)
recvAck(t) ==
  /\ tpc[t] = "ack"
  /\ ackMbx[t] # <<>>
  /\ ackMbx' = [ackMbx EXCEPT ![t] = Tail(@)]
  /\ LET h == Head(ackMbx[t])
     IN IF h \in sent[t]
        THEN acknowledged(t, h)
        ELSE FreeMsg(h) /\ UNCHANGED <<tpc, call, sent, retVal>>
  /\ UNCHANGED <<rcvMbx, held>>
-----------------------------------------------------------------------------
(* OSA_tskThrMain: OSA_tskWaitMsg, and the handler is entered.  A handler  *)
(* may also take the next message itself, with OSA_tskCheckMsg.            *)
receive(t) ==
  /\ tpc[t] \in {"wait", "after"}
  /\ rcvMbx[t] # <<>>
  /\ held' = [held EXCEPT ![t] = Head(rcvMbx[t])]
  /\ rcvMbx' = [rcvMbx EXCEPT ![t] = Tail(@)]
  /\ goto(t, "run")
  /\ UNCHANGED <<heap, ackMbx, call, sent, retVal>>

(* OSA_mbxAckOrFreeMsg of a message: back to its sender, who frees it, or  *)
(* freed here.  The acknowledgement waits for room in the sender's queue.  *)
AckOrFreeMsg(h, status) ==
  LET from == msg[h].from
  IN IF msg[h].waitAck
     THEN /\ Len(ackMbx[from]) < MaxLen
          /\ msg' = [msg EXCEPT ![h].status = status]
          /\ ackMbx' = [ackMbx EXCEPT ![from] = Append(@, h)]
          /\ UNCHANGED live
     ELSE FreeMsg(h) /\ UNCHANGED ackMbx

answer(t) ==
  /\ tpc[t] \in {"run", "done"}
  /\ \E status \in {"SOK", "EFAIL"} : AckOrFreeMsg(held[t], status)
  /\ held' = [held EXCEPT ![t] = None]
  /\ goto(t, "after")
  /\ UNCHANGED <<rcvMbx, call, sent, retVal>>

(* The rest of a handler: it returns to OSA_tskThrMain, flushes its        *)
(* mailbox, or waits for a command.                                        *)
leave(t) ==
  /\ tpc[t] = "after"
  /\ \E where \in {"wait", "flush", "cmd"} : goto(t, where)
  /\ UNCHANGED <<heap, rcvMbx, ackMbx, held, call, sent, retVal>>

(* Mutant: the flushed messages are freed, whoever waits for them. *)
flush_frees(t) ==
  /\ tpc[t] = "flush"
  /\ IF rcvMbx[t] = <<>>
     THEN goto(t, "flushack") /\ UNCHANGED <<heap, rcvMbx, ackMbx>>
     ELSE /\ FreeMsg(Head(rcvMbx[t]))
          /\ rcvMbx' = [rcvMbx EXCEPT ![t] = Tail(@)]
          /\ UNCHANGED <<tpc, ackMbx>>
  /\ UNCHANGED <<held, call, sent, retVal>>

(* OSA_mbxFlush: every message received is answered ... *)
flush(t) ==
  /\ tpc[t] = "flush"
  /\ IF rcvMbx[t] = <<>>
     THEN goto(t, "flushack") /\ UNCHANGED <<heap, rcvMbx, ackMbx>>
     ELSE /\ AckOrFreeMsg(Head(rcvMbx[t]), "SOK")
          /\ rcvMbx' = [rcvMbx EXCEPT ![t] = Tail(@)]
          /\ UNCHANGED tpc
  /\ UNCHANGED <<held, call, sent, retVal>>

(* ... and every acknowledgement freed. *)
flushAck(t) ==
  /\ tpc[t] = "flushack"
  /\ IF ackMbx[t] = <<>>
     THEN goto(t, "after") /\ UNCHANGED <<heap, ackMbx>>
     ELSE /\ FreeMsg(Head(ackMbx[t]))
          /\ ackMbx' = [ackMbx EXCEPT ![t] = Tail(@)]
          /\ UNCHANGED tpc
  /\ UNCHANGED <<rcvMbx, held, call, sent, retVal>>

(* OSA_mbxWaitCmd: every message is answered, and the one with the command *)
(* ends the wait; a caller that passes pMsg gets it and answers it itself. *)
waitCmd(t, cmd) ==
  /\ tpc[t] = "cmd"
  /\ rcvMbx[t] # <<>>
  /\ LET h == Head(rcvMbx[t])
     IN \/ /\ AckOrFreeMsg(h, "SOK")
           /\ goto(t, IF msg[h].cmd = cmd THEN "after" ELSE "cmd")
           /\ UNCHANGED held
        \/ /\ msg[h].cmd = cmd
           /\ held' = [held EXCEPT ![t] = h]
           /\ goto(t, "run")
           /\ UNCHANGED <<heap, ackMbx>>
  /\ rcvMbx' = [rcvMbx EXCEPT ![t] = Tail(@)]
  /\ UNCHANGED <<call, sent, retVal>>

mailStep(t) == sendNext(t) \/ recvAck(t)

taskStep(t) ==
  \/ receive(t) \/ answer(t) \/ leave(t) \/ flush(t) \/ flushAck(t)
  \/ \E cmd \in Cmds : waitCmd(t, cmd)

Next ==
  \/ \E t \in Threads : SendMsg(t) \/ BroadcastMsg(t) \/ mailStep(t)
  \/ \E t \in Tasks : taskStep(t)

Spec == Init /\ [][Next]_vars

(* Threads run on and handlers return; whether they send anything is up to *)
(* them.                                                                   *)
Fairness ==
  /\ \A t \in Threads : WF_vars(mailStep(t))
  /\ \A t \in Tasks : WF_vars(taskStep(t))

FairSpec == Spec /\ Fairness
-----------------------------------------------------------------------------
(* Where an allocated handle is: in a mailbox, or in a handler's hands.    *)
Slots(box, h) ==
  {ti \in Threads \X (1 .. MaxLen) : ti[2] <= Len(box[ti[1]]) /\ box[ti[1]][ti[2]] = h}

Holders(h) == {t \in Threads : held[t] = h}

(* Senders, receivers, flushes and broadcasts free a handle in six places; *)
(* every handle allocated is in one place and freed ones in none, so none  *)
(* is freed twice, used after it, or lost.                                 *)
HandleOnce ==
  \A h \in Handles :
    Cardinality(Slots(rcvMbx, h)) + Cardinality(Slots(ackMbx, h)) + Cardinality(Holders(h))
      = IF msg[h] = NoMsg THEN 0 ELSE 1

(* The parameters that a message or a call can still reach. *)
ReachablePrms ==
  ({msg[h].prm : h \in {g \in Handles : msg[g] # NoMsg}} \cup {call[t].prm : t \in Threads})
    \ {NoPrm}

(* OSA_MBX_FREE_PRM: parameters are freed when the last receiver has       *)
(* answered, not before, whoever of receiver and sender it falls to.       *)
PrmFreedInTime == live = ReachablePrms

(* A thread that waits for acknowledgements finds only those of its call,  *)
(* and there is always room for one more: the bound of OSA_msgqSendAck's   *)
(* wait, which runs in the receiver's handler.                             *)
AcksAwaited ==
  \A t \in Threads :
    /\ \A i \in 1 .. Len(ackMbx[t]) : ackMbx[t][i] \in sent[t]
    /\ sent[t] # {} => tpc[t] \in {"send", "ack"}

AckNeverWaits ==
  \A h \in Handles :
    msg[h] # NoMsg /\ msg[h].waitAck /\ (\E t \in Tasks : held[t] = h)
      => Len(ackMbx[msg[h].from]) < MaxLen

(* A call to tasks that never wait for each other in a circle returns.     *)
CallReturns == \A t \in Threads : tpc[t] = "ack" ~> tpc[t] # "ack"

(* The call a thread makes, as Rpc sees it: whom it still waits for are    *)
(* those it has not sent to and those that have not answered.              *)
Calling(t) == tpc[t] \in {"send", "ack"} /\ call[t].waitAck

Acked(t) == {ackMbx[t][i] : i \in 1 .. Len(ackMbx[t])}

Asked(t) ==
  {call[t].to[i] : i \in 1 .. Len(call[t].to)}
    \cup {msg[h].to : h \in sent[t] \ Acked(t)}

Failed(t) == retVal[t] = "EFAIL" \/ \E h \in Acked(t) : msg[h].status = "EFAIL"

Call == INSTANCE Rpc WITH
  calling <- [t \in Threads |-> Calling(t)],
  asked   <- [t \in Threads |-> IF Calling(t) THEN Asked(t) ELSE {}],
  failed  <- [t \in Threads |-> Calling(t) /\ Failed(t)],
  result  <- [t \in Threads |-> IF Calling(t) THEN None ELSE retVal[t]]

RpcSpec == Call!Spec
=============================================================================
