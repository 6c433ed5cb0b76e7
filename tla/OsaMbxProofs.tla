---------------------------- MODULE OsaMbxProofs ----------------------------
(***************************************************************************)
(* The mailboxes of osa_mbx.c and osa_tsk.c for any number of tasks,       *)
(* clients, handles and parameters: where every handle is, who may still   *)
(* use which parameters, and that a call that waits keeps its promise.     *)
(***************************************************************************)
EXTENDS OsaMbx, SeqLemmas

Allocated(h) == msg[h] # NoMsg

(* The three places of a message, each with its sender or receiver. *)
InBox(h)  == h \in Elems(rcvMbx[msg[h].to])
InHand(h) == held[msg[h].to] = h
IsAck(h)  == h \in Elems(ackMbx[msg[h].from])

(* Every allocated handle is in one of its places, and no other is there.  *)
PlaceInv ==
  /\ \A t \in Threads : Distinct(rcvMbx[t]) /\ Distinct(ackMbx[t])
  /\ \A t \in Threads : \A h \in Elems(rcvMbx[t]) : Allocated(h) /\ msg[h].to = t
  /\ \A t \in Threads : \A h \in Elems(ackMbx[t]) :
       Allocated(h) /\ msg[h].from = t /\ msg[h].waitAck = TRUE
  /\ \A t \in Threads : held[t] # None => Allocated(held[t]) /\ msg[held[t]].to = t
  /\ \A h \in Handles : Allocated(h) =>
       /\ InBox(h) \/ InHand(h) \/ IsAck(h)
       /\ ~(InBox(h) /\ InHand(h))
       /\ ~(InBox(h) /\ IsAck(h))
       /\ ~(InHand(h) /\ IsAck(h))

(* Where a thread is says what it holds and what call it is in. *)
CallOK(t) ==
  /\ t \in Clients => tpc[t] \in {"idle", "send", "ack"}
  /\ t \in Tasks => tpc[t] # "idle"
  /\ held[t] # None <=> t \in Tasks /\ tpc[t] \in {"run", "send", "ack", "done"}
  /\ tpc[t] \notin {"send", "ack"} => call[t] = NoCall
  /\ Distinct(call[t].to)
  /\ tpc[t] = "send" => call[t].to # <<>> /\ call[t].cmd \in Cmds
  /\ tpc[t] = "ack" => call[t].to = <<>> /\ call[t].waitAck = TRUE /\ sent[t] # {}
  /\ call[t].waitAck = TRUE => retVal[t] \in {"SOK", "EFAIL"}

CallInv == \A t \in Threads : CallOK(t)

(* The messages of a call that waits: one a receiver, none to one that is  *)
(* still to be sent to, all with the parameters of the call.               *)
SentOK(t) ==
  /\ \A h \in Handles :
       h \in sent[t] <=> Allocated(h) /\ msg[h].from = t /\ msg[h].waitAck = TRUE
  /\ \A h \in sent[t] :
       /\ call[t].waitAck = TRUE
       /\ msg[h].prm = call[t].prm
       /\ msg[h].to \notin Elems(call[t].to)
       /\ \A g \in sent[t] : msg[g].to = msg[h].to => g = h

SentInv == \A t \in Threads : SentOK(t)

(* Parameters belong to one call and its messages, or to one message. *)
PrmInv ==
  /\ PrmFreedInTime
  /\ \A t, u \in Threads : call[t].prm = call[u].prm /\ call[t].prm # NoPrm => t = u
  /\ \A t \in Threads : call[t].prm # NoPrm /\ call[t].waitAck = FALSE => Len(call[t].to) = 1
  /\ \A t \in Threads, h \in Handles :
       Allocated(h) /\ msg[h].prm = call[t].prm /\ call[t].prm # NoPrm => h \in sent[t]
  /\ \A h, g \in Handles :
       Allocated(h) /\ Allocated(g) /\ msg[h].prm = msg[g].prm /\ msg[h].prm # NoPrm
         => msg[h].waitAck = TRUE \/ g = h

IInv == TypeOK /\ PlaceInv /\ CallInv /\ SentInv /\ PrmInv
-----------------------------------------------------------------------------
(* A message is told from a free cell by its fields. *)
LEMMA NoMsgIsFree == NoMsg \notin Msgs
<1>1. DOMAIN NoMsg = {"free"}
  BY DEF NoMsg
<1>2. \A m \in Msgs : "to" \in DOMAIN m
  BY DEF Msgs
<1>3. QED
  BY <1>1, <1>2

LEMMA MsgTypes ==
  ASSUME TypeOK, NEW h \in Handles, Allocated(h)
  PROVE  /\ msg[h] \in Msgs
         /\ msg[h].to \in Tasks /\ msg[h].to \in Threads /\ msg[h].from \in Threads
         /\ msg[h].prm \in Prms \cup {NoPrm} /\ msg[h].waitAck \in BOOLEAN
         /\ msg[h].status \in {"SOK", "EFAIL"}
<1>1. msg[h] \in Msgs
  BY DEF TypeOK, Allocated
<1>2. QED
  BY <1>1 DEF Msgs, Threads

LEMMA BoxTypes ==
  ASSUME TypeOK, NEW t \in Threads
  PROVE  /\ rcvMbx[t] \in Seq(Handles) /\ Len(rcvMbx[t]) <= MaxLen
         /\ ackMbx[t] \in Seq(Handles) /\ Len(ackMbx[t]) <= MaxLen
         /\ Elems(rcvMbx[t]) \subseteq Handles
         /\ Elems(ackMbx[t]) \subseteq Handles
BY MbxAssumption, BoundedSeqDef, ElemsIn DEF TypeOK

(* A mailbox with one message more or fewer is a mailbox. *)
LEMMA BoxExcept ==
  ASSUME NEW box \in [Threads -> BoundedSeq(Handles, MaxLen)], NEW t \in Threads,
         NEW s \in Seq(Handles), Len(s) <= MaxLen
  PROVE  [box EXCEPT ![t] = s] \in [Threads -> BoundedSeq(Handles, MaxLen)]
<1>1. s \in BoundedSeq(Handles, MaxLen)
  BY MbxAssumption, BoundedSeqDef
<1>2. QED
  BY <1>1

(* A thread that makes no call. *)
LEMMA NoCallIs ==
  /\ NoCall \in Calls
  /\ NoCall.to = <<>> /\ Distinct(NoCall.to) /\ Elems(NoCall.to) = {}
  /\ NoCall.prm = NoPrm /\ NoCall.waitAck = FALSE
BY ElemsEmpty DEF NoCall, Calls

(* OSA_mbxCreate and OSA_tskCreate: all empty. *)
LEMMA InitIInv == Init => IInv
<1> SUFFICES ASSUME Init PROVE IInv
  OBVIOUS
<1> USE DEF Init
<1>1. <<>> \in BoundedSeq(Handles, MaxLen)
  <2>1. <<>> \in Seq(Handles) /\ Len(<<>>) = 0
    BY EmptySeq
  <2>2. MaxLen \in Nat /\ 0 <= MaxLen
    BY MbxAssumption
  <2>3. QED
    BY ONLY <2>1, <2>2, BoundedSeqDef
<1>2. TypeOK
  BY <1>1, NoCallIs DEF TypeOK, Threads
<1>3. \A h \in Handles : ~Allocated(h)
  BY DEF Allocated
<1>4. PlaceInv
  BY <1>3, ElemsEmpty DEF PlaceInv
<1>5. CallInv
  BY NoCallIs, MbxAssumption DEF CallInv, CallOK, Threads
<1>6. SentInv
  BY <1>3 DEF SentInv, SentOK
<1>7. ReachablePrms = {}
  BY <1>3 DEF ReachablePrms, NoCall, Allocated
<1>8. PrmInv
  BY <1>3, <1>7 DEF PrmInv, PrmFreedInTime, NoCall
<1>9. QED
  BY <1>2, <1>4, <1>5, <1>6, <1>8 DEF IInv
-----------------------------------------------------------------------------
(* OSA_mbxSendMsg and OSA_mbxBroadcastMsg begin: only the call is new. *)
LEMMA BeginPreserves ==
  ASSUME IInv, NEW t \in Threads, NEW to \in Seq(Tasks), NEW cmd \in Cmds,
         NEW prm \in FreePrms, NEW wait \in BOOLEAN,
         to # <<>>, Distinct(to), prm # NoPrm /\ ~wait => Len(to) = 1,
         begin(t, to, cmd, prm, wait)
  PROVE  IInv'
<1> DEFINE new == [to |-> to, cmd |-> cmd, prm |-> prm, waitAck |-> wait]
<1>a. TypeOK /\ PlaceInv /\ CallInv /\ SentInv /\ PrmInv
  BY DEF IInv
<1>b. /\ tpc[t] \in {"idle", "run"}
      /\ call' = [call EXCEPT ![t] = new]
      /\ live' = IF prm = NoPrm THEN live ELSE live \cup {prm}
      /\ sent' = [sent EXCEPT ![t] = {}]
      /\ retVal' = [retVal EXCEPT ![t] = IF wait THEN "SOK" ELSE @]
      /\ tpc' = [tpc EXCEPT ![t] = "send"]
      /\ msg' = msg /\ rcvMbx' = rcvMbx /\ ackMbx' = ackMbx /\ held' = held
  BY DEF begin, goto
<1>c. call[t] = NoCall
  BY <1>a, <1>b DEF CallInv, CallOK
<1>d. sent[t] = {} /\ sent' = sent
  BY <1>a, <1>b, <1>c, NoCallIs DEF SentInv, SentOK, TypeOK
<1>e. prm \in Prms \cup {NoPrm} /\ prm \notin ReachablePrms
  BY <1>a, MbxAssumption DEF FreePrms, PrmInv, PrmFreedInTime, ReachablePrms
<1>f. new \in Calls
  BY <1>e DEF Calls
<1>1. TypeOK'
  BY <1>a, <1>b, <1>d, <1>e, <1>f DEF TypeOK
<1>2. PlaceInv'
  BY <1>a, <1>b DEF PlaceInv, Allocated, InBox, InHand, IsAck
<1>3. CallInv'
  <2> SUFFICES ASSUME NEW u \in Threads PROVE CallOK(u)'
    BY DEF CallInv
  <2>1. CASE u # t
    BY <1>a, <1>b, <1>d, <2>1 DEF CallInv, CallOK, TypeOK
  <2>2. CASE u = t
    <3>1. call'[u] = new /\ tpc'[u] = "send" /\ held'[u] = held[u]
      BY <1>a, <1>b, <2>2 DEF TypeOK
    <3>2. new.waitAck = TRUE => retVal'[u] = "SOK"
      BY <1>a, <1>b, <2>2 DEF TypeOK
    <3>3. QED
      BY <1>a, <1>b, <1>f, <2>2, <3>1, <3>2 DEF CallInv, CallOK
  <2>3. QED
    BY <2>1, <2>2
<1>4. SentInv'
  BY <1>a, <1>b, <1>c, <1>d DEF SentInv, SentOK, Allocated, TypeOK
<1>5. PrmInv'
  <2>1. \A u \in Threads : call'[u] = IF u = t THEN new ELSE call[u]
    BY <1>a, <1>b DEF TypeOK
  <2>2. ReachablePrms' = ReachablePrms \cup ({prm} \ {NoPrm})
    BY <2>1, <1>b, <1>c, NoCallIs DEF ReachablePrms
  <2>3. PrmFreedInTime'
    BY <1>a, <1>b, <2>2 DEF PrmInv, PrmFreedInTime
  <2>4. \A u \in Threads : call[u].prm # NoPrm => call[u].prm # prm
    BY <1>e DEF ReachablePrms
  <2>5. \A h \in Handles : Allocated(h) => msg[h].prm # prm \/ prm = NoPrm
    BY <1>e DEF ReachablePrms, Allocated
  <2>6. QED
    BY <1>a, <1>b, <1>d, <2>1, <2>3, <2>4, <2>5 DEF PrmInv, Allocated
<1>6. QED
  BY <1>1, <1>2, <1>3, <1>4, <1>5 DEF IInv

(* A cell of the heap that is free is nowhere. *)
LEMMA FreeIsNowhere ==
  ASSUME IInv, NEW h \in Handles, msg[h] = NoMsg
  PROVE  \A t \in Threads : /\ h \notin Elems(rcvMbx[t]) /\ h \notin Elems(ackMbx[t])
                            /\ held[t] # h /\ h \notin sent[t]
BY MbxAssumption DEF IInv, PlaceInv, SentInv, SentOK, Allocated

(* OSA_msgqSendMsg: a new message in its receiver's mailbox. *)
LEMMA SendPreserves ==
  ASSUME IInv, NEW t \in Threads, sendNext(t)
  PROVE  IInv'
<1> DEFINE c == call[t]
           d == Head(c.to)
<1>a. TypeOK /\ PlaceInv /\ CallInv /\ SentInv /\ PrmInv
  BY DEF IInv
<1>b. tpc[t] = "send" /\ c \in Calls /\ c.to \in Seq(Tasks) /\ c.to # <<>> /\ c.cmd \in Cmds
      /\ Distinct(c.to)
  BY <1>a DEF sendNext, TypeOK, Calls, CallInv, CallOK
<1>c. PICK h \in Handles :
        /\ msg[h] = NoMsg
        /\ Len(rcvMbx[d]) < MaxLen
        /\ msg' = [msg EXCEPT ![h] =
             [to |-> d, from |-> t, cmd |-> c.cmd, prm |-> c.prm,
              waitAck |-> c.waitAck, status |-> "SOK"]]
        /\ rcvMbx' = [rcvMbx EXCEPT ![d] = Append(@, h)]
        /\ sent' = [sent EXCEPT ![t] = IF c.waitAck THEN @ \cup {h} ELSE @]
        /\ call' = [call EXCEPT ![t] =
             IF Len(c.to) = 1 /\ ~c.waitAck THEN NoCall ELSE [c EXCEPT !.to = Tail(@)]]
        /\ tpc' = [tpc EXCEPT ![t] = IF Len(c.to) > 1 THEN "send"
                                     ELSE IF c.waitAck THEN "ack" ELSE Returned(t)]
        /\ UNCHANGED <<live, ackMbx, held, retVal>>
  BY DEF sendNext, goto
<1> DEFINE m == [to |-> d, from |-> t, cmd |-> c.cmd, prm |-> c.prm,
                 waitAck |-> c.waitAck, status |-> "SOK"]
<1>d. /\ d \in Tasks /\ d \in Threads /\ d \in Elems(c.to)
      /\ Tail(c.to) \in Seq(Tasks) /\ Len(c.to) \in Nat /\ Len(c.to) >= 1
      /\ Tail(c.to) = <<>> <=> Len(c.to) = 1
      /\ Distinct(Tail(c.to)) /\ Elems(Tail(c.to)) = Elems(c.to) \ {d}
  BY <1>b, ElemsTail, LenProperties DEF Threads
<1>e. m \in Msgs
  BY <1>b, <1>d DEF Msgs, Calls
<1>f. /\ m.to = d /\ m.from = t /\ m.prm = c.prm /\ m.waitAck = c.waitAck /\ m # NoMsg
      /\ c.waitAck \in BOOLEAN /\ c.prm \in Prms \cup {NoPrm}
  BY <1>b, <1>e, NoMsgIsFree DEF Calls
<1>g. \A g \in Handles : msg'[g] = IF g = h THEN m ELSE msg[g]
  BY <1>a, <1>c DEF TypeOK
<1>h. \A t1 \in Threads : /\ h \notin Elems(rcvMbx[t1]) /\ h \notin Elems(ackMbx[t1])
                          /\ held[t1] # h /\ h \notin sent[t1]
  BY <1>c, FreeIsNowhere
<1>i. \A u \in Threads :
        /\ rcvMbx'[u] \in Seq(Handles) /\ Len(rcvMbx'[u]) <= MaxLen
        /\ Distinct(rcvMbx'[u])
        /\ Elems(rcvMbx'[u]) = IF u = d THEN Elems(rcvMbx[u]) \cup {h} ELSE Elems(rcvMbx[u])
  <2> TAKE u \in Threads
  <2>1. rcvMbx'[u] = IF u = d THEN Append(rcvMbx[u], h) ELSE rcvMbx[u]
    BY <1>a, <1>c, <1>d DEF TypeOK
  <2>2. rcvMbx[u] \in Seq(Handles) /\ Len(rcvMbx[u]) <= MaxLen /\ Distinct(rcvMbx[u])
        /\ Len(rcvMbx[u]) \in Nat /\ MaxLen \in Nat
    BY <1>a, BoxTypes, LenProperties, MbxAssumption DEF PlaceInv
  <2>3. CASE u = d
    <3>1. /\ Append(rcvMbx[u], h) \in Seq(Handles)
          /\ Len(Append(rcvMbx[u], h)) = Len(rcvMbx[u]) + 1
          /\ Elems(Append(rcvMbx[u], h)) = Elems(rcvMbx[u]) \cup {h}
          /\ Distinct(Append(rcvMbx[u], h))
      BY <1>h, <2>2, ElemsAppend
    <3>2. rcvMbx'[u] = Append(rcvMbx[u], h)
      BY ONLY <2>1, <2>3
    <3>3. Len(rcvMbx[u]) < MaxLen
      BY <1>c, <2>3
    <3>4. Len(rcvMbx[u]) + 1 <= MaxLen
      BY ONLY <2>2, <3>3
    <3>5. QED
      BY ONLY <2>3, <3>1, <3>2, <3>4, ZenonT(60)
  <2>4. CASE u # d
    BY <2>1, <2>2, <2>4
  <2>5. QED
    BY <2>3, <2>4
<1>j. /\ \A u \in Threads : u # t => call'[u] = call[u] /\ tpc'[u] = tpc[u] /\ sent'[u] = sent[u]
      /\ call'[t] \in Calls /\ call'[t].to = Tail(c.to) /\ call'[t].waitAck = c.waitAck
      /\ call'[t].cmd = c.cmd \/ Len(c.to) = 1
      /\ call'[t].prm = IF Len(c.to) = 1 /\ c.waitAck = FALSE THEN NoPrm ELSE c.prm
      /\ call'[t] = IF Len(c.to) = 1 /\ c.waitAck = FALSE THEN NoCall ELSE call'[t]
      /\ sent'[t] = IF c.waitAck = TRUE THEN sent[t] \cup {h} ELSE sent[t]
  <2>1. CASE Len(c.to) = 1 /\ c.waitAck = FALSE
    <3>1. call'[t] = NoCall
      BY <1>a, <1>c, <2>1 DEF TypeOK
    <3>2. Tail(c.to) = <<>>
      BY <1>d, <2>1
    <3>3. QED
      BY <1>a, <1>c, <2>1, <3>1, <3>2, NoCallIs DEF TypeOK
  <2>2. CASE ~(Len(c.to) = 1 /\ c.waitAck = FALSE)
    <3>1. call'[t] = [c EXCEPT !.to = Tail(c.to)]
      BY <1>a, <1>c, <1>f, <2>2 DEF TypeOK
    <3>2. call'[t] \in Calls /\ call'[t].to = Tail(c.to) /\ call'[t].waitAck = c.waitAck
          /\ call'[t].prm = c.prm /\ call'[t].cmd = c.cmd
      BY <1>b, <1>d, <3>1 DEF Calls
    <3>3. QED
      BY <1>a, <1>c, <1>f, <2>2, <3>2 DEF TypeOK
  <2>3. QED
    BY <2>1, <2>2
<1>1. TypeOK'
  <2>1. msg' \in [Handles -> Msgs \cup {NoMsg}]
    BY <1>a, <1>c, <1>e DEF TypeOK
  <2>2. rcvMbx' \in [Threads -> BoundedSeq(Handles, MaxLen)]
    <3>1. \A u \in Threads : rcvMbx'[u] \in BoundedSeq(Handles, MaxLen)
      BY <1>i, MbxAssumption, BoundedSeqDef
    <3>2. rcvMbx' = [u \in Threads |-> rcvMbx'[u]]
      BY <1>a, <1>c DEF TypeOK
    <3>3. QED
      BY <3>1, <3>2
  <2>3. call' \in [Threads -> Calls]
    BY <1>a, <1>c, <1>j DEF TypeOK
  <2>4. tpc' \in [Threads -> {"idle", "send", "ack", "wait", "run", "done", "after",
                              "cmd", "flush", "flushack"}]
    BY <1>a, <1>c DEF TypeOK, Returned
  <2>5. QED
    BY <1>a, <1>c, <2>1, <2>2, <2>3, <2>4, SMTT(30) DEF TypeOK
<1>2. PlaceInv'
  <2>1. \A t1 \in Threads : \A g \in Elems(rcvMbx'[t1]) : msg'[g] # NoMsg /\ msg'[g].to = t1
    <3> TAKE t1 \in Threads
    <3> TAKE g \in Elems(rcvMbx'[t1])
    <3>1. CASE g = h
      BY <3>1, <1>c, <1>f, <1>g, <1>h, <1>i
    <3>2. CASE g # h
      <4>1. g \in Elems(rcvMbx[t1]) /\ g \in Handles
        BY <1>a, <1>i, <3>2, BoxTypes
      <4>2. QED
        BY <1>a, <1>g, <3>2, <4>1 DEF PlaceInv, Allocated
    <3>3. QED
      BY <3>1, <3>2
  <2>2. \A t1 \in Threads : \A g \in Elems(ackMbx[t1]) :
          msg'[g] # NoMsg /\ msg'[g].from = t1 /\ msg'[g].waitAck = TRUE
    BY <1>a, <1>g, <1>h, BoxTypes DEF PlaceInv, Allocated
  <2>3. \A t1 \in Threads : held[t1] # None => msg'[held[t1]] # NoMsg /\ msg'[held[t1]].to = t1
    BY <1>a, <1>g, <1>h DEF PlaceInv, Allocated, TypeOK
  <2>4. ASSUME NEW g \in Handles, msg'[g] # NoMsg
        PROVE  /\ InBox(g)' \/ InHand(g)' \/ IsAck(g)'
               /\ ~(InBox(g)' /\ InHand(g)')
               /\ ~(InBox(g)' /\ IsAck(g)')
               /\ ~(InHand(g)' /\ IsAck(g)')
    <3>1. CASE g = h
      <4>1. msg'[g].to = d /\ msg'[g].from = t
        BY <1>f, <1>g, <3>1
      <4>2. g \in Elems(rcvMbx'[d]) /\ held'[d] # g /\ g \notin Elems(ackMbx'[t])
        <5>1. Elems(rcvMbx'[d]) = Elems(rcvMbx[d]) \cup {h}
          BY <1>d, <1>i
        <5>2. held'[d] # h /\ h \notin Elems(ackMbx'[t])
          BY <1>c, <1>d, <1>h
        <5>3. QED
          BY <3>1, <5>1, <5>2
      <4>3. QED
        BY <4>1, <4>2 DEF InBox, InHand, IsAck
    <3>2. CASE g # h
      <4>1. msg'[g] = msg[g] /\ msg[g].to \in Threads
        BY <1>a, <1>g, <2>4, <3>2, MsgTypes DEF Allocated
      <4>2. InBox(g)' <=> InBox(g)
        <5>1. g \in Elems(rcvMbx'[msg[g].to]) <=> g \in Elems(rcvMbx[msg[g].to])
          BY <1>i, <3>2, <4>1
        <5>2. QED
          BY <4>1, <5>1 DEF InBox
      <4>3. (InHand(g)' <=> InHand(g)) /\ (IsAck(g)' <=> IsAck(g))
        BY <1>c, <4>1 DEF InHand, IsAck
      <4>4. QED
        BY <1>a, <2>4, <4>1, <4>2, <4>3 DEF PlaceInv, Allocated
    <3>3. QED
      BY <3>1, <3>2
  <2>5. QED
    BY <1>a, <1>c, <1>i, <2>1, <2>2, <2>3, <2>4, ZenonT(60) DEF PlaceInv, Allocated
<1>3. CallInv'
  <2> SUFFICES ASSUME NEW u \in Threads PROVE CallOK(u)'
    BY DEF CallInv
  <2>1. CASE u # t
    BY <1>a, <1>c, <1>j, <2>1 DEF CallInv, CallOK
  <2>2. CASE u = t
    <3>1. tpc'[u] = IF Len(c.to) > 1 THEN "send"
                    ELSE IF c.waitAck = TRUE THEN "ack" ELSE Returned(t)
      BY <1>a, <1>c, <1>f, <2>2 DEF TypeOK
    <3>2. CallOK(u)
      BY <1>a DEF CallInv
    <3>3. t \in Tasks <=> t \notin Clients
      BY MbxAssumption DEF Threads
    <3>4. held'[u] # None <=> t \in Tasks
      BY <1>b, <1>c, <3>2, <2>2 DEF CallOK
    <3>5. Distinct(call'[u].to) /\ (call'[u].waitAck = TRUE => retVal'[u] \in {"SOK", "EFAIL"})
      BY <1>c, <1>d, <1>j, <2>2, <3>2 DEF CallOK
    <3>a. call'[u].to = Tail(c.to) /\ call'[u].waitAck = c.waitAck
          /\ (call'[u].cmd = c.cmd \/ Len(c.to) = 1)
      BY <1>j, <2>2
    <3>b. Len(c.to) > 1 \/ Len(c.to) = 1
      BY ONLY <1>d
    <3>d. Len(c.to) \in Nat
      BY <1>d
    <3>c. c.waitAck = TRUE \/ c.waitAck = FALSE
      BY ONLY <1>f
    <3>6. CASE Len(c.to) > 1
      <4>1. tpc'[u] = "send"
        BY <3>1, <3>6
      <4>2. Len(c.to) = 1 => FALSE
        BY <3>6, <3>d
      <4>3. call'[u].to # <<>> /\ call'[u].cmd \in Cmds
        BY <1>b, <1>d, <3>a, <4>2
      <4>4. QED
        BY <2>2, <3>3, <3>4, <3>5, <4>1, <4>3 DEF CallOK
    <3>7. CASE Len(c.to) = 1 /\ c.waitAck = TRUE
      <4>1. tpc'[u] = "ack"
        BY <3>1, <3>7
      <4>2. call'[u].to = <<>> /\ call'[u].waitAck = TRUE
        BY <1>d, <3>a, <3>7
      <4>3. sent'[u] # {}
        BY <1>j, <2>2, <3>7
      <4>4. QED
        BY <2>2, <3>3, <3>4, <3>5, <4>1, <4>2, <4>3 DEF CallOK
    <3>8. CASE Len(c.to) = 1 /\ c.waitAck = FALSE
      <4>1. tpc'[u] = Returned(t) /\ call'[u] = NoCall
        BY <1>b, <1>d, <1>j, <2>2, <3>1, <3>8
      <4>2. QED
        BY <2>2, <3>3, <3>4, <3>5, <4>1 DEF CallOK, Returned
    <3>9. QED
      BY ONLY <3>b, <3>c, <3>6, <3>7, <3>8
  <2>3. QED
    BY <2>1, <2>2
<1>4. SentInv'
  <2> SUFFICES ASSUME NEW u \in Threads PROVE SentOK(u)'
    BY DEF SentInv
  <2>1. ASSUME NEW g \in Handles
        PROVE  g \in sent'[u] <=> msg'[g] # NoMsg /\ msg'[g].from = u /\ msg'[g].waitAck = TRUE
    BY <1>a, <1>f, <1>g, <1>h, <1>j DEF SentInv, SentOK, Allocated
  <2>2. ASSUME NEW g \in sent'[u]
        PROVE  /\ call'[u].waitAck = TRUE
               /\ msg'[g].prm = call'[u].prm
               /\ msg'[g].to \notin Elems(call'[u].to)
               /\ \A f \in sent'[u] : msg'[f].to = msg'[g].to => f = g
    <3>1. CASE u # t
      <4>1. sent'[u] = sent[u] /\ call'[u] = call[u] /\ h \notin sent[u] /\ sent[u] \subseteq Handles
        BY <1>a, <1>h, <1>j, <3>1 DEF TypeOK
      <4>2. \A f \in sent[u] : msg'[f] = msg[f]
        BY <1>g, <4>1
      <4>3. QED
        BY <1>a, <2>2, <4>1, <4>2 DEF SentInv, SentOK
    <3>2. CASE u = t
      <4>1. sent[t] \subseteq Handles /\ \A f \in sent[t] : msg'[f] = msg[f]
        BY <1>a, <1>g, <1>h DEF TypeOK
      <4>2. c.waitAck = TRUE
        BY <1>a, <1>f, <1>j, <2>2, <3>2 DEF SentInv, SentOK
      <4>3. sent'[t] = sent[t] \cup {h} /\ call'[t].prm = c.prm
        BY <1>j, <4>2
      <4>4. \A f \in sent[t] : msg[f].to # d /\ msg[f].prm = c.prm /\ msg[f].to \notin Elems(c.to)
        BY <1>a, <1>d DEF SentInv, SentOK
      <4>5. \A f, e \in sent[t] : msg[f].to = msg[e].to => f = e
        BY <1>a DEF SentInv, SentOK
      <4>6. msg'[h].to = d /\ msg'[h].prm = c.prm
        BY <1>f, <1>g
      <4>7. QED
        BY <1>d, <1>j, <2>2, <3>2, <4>1, <4>2, <4>3, <4>4, <4>5, <4>6
    <3>3. QED
      BY <3>1, <3>2
  <2>3. QED
    BY <2>1, <2>2 DEF SentOK, Allocated
<1>5. PrmInv'
  <2>1. /\ \A u \in Threads : call'[u].prm # NoPrm => call'[u].prm = call[u].prm
        /\ \A u \in Threads : call[u].prm = call'[u].prm \/ (u = t /\ c.waitAck = FALSE)
        /\ call'[t].prm # NoPrm => c.waitAck = TRUE \/ Len(c.to) # 1
    BY <1>f, <1>j
  <2>2. c.prm # NoPrm /\ c.waitAck = FALSE => Len(c.to) = 1 /\ call'[t].prm = NoPrm
    BY <1>a, <1>j DEF PrmInv
  <2>3. ReachablePrms' = ReachablePrms
    <3>1. ReachablePrms' \subseteq ReachablePrms
      BY <1>f, <1>g, <2>1 DEF ReachablePrms
    <3>2. ASSUME NEW u \in Threads, call[u].prm # NoPrm
          PROVE  call[u].prm \in ReachablePrms'
      <4>1. CASE call'[u].prm = call[u].prm
        BY <3>2, <4>1 DEF ReachablePrms
      <4>2. CASE u = t
        BY <1>f, <1>g, <3>2, <4>2 DEF ReachablePrms
      <4>3. QED
        BY <2>1, <4>1, <4>2
    <3>3. ASSUME NEW g \in Handles, msg[g] # NoMsg, msg[g].prm # NoPrm
          PROVE  msg[g].prm \in ReachablePrms'
      BY <1>c, <1>g, <3>3 DEF ReachablePrms
    <3>4. ReachablePrms \subseteq ReachablePrms'
      BY <3>2, <3>3 DEF ReachablePrms
    <3>5. QED
      BY <3>1, <3>4
  <2>4. PrmFreedInTime'
    BY <1>a, <1>c, <2>3 DEF PrmInv, PrmFreedInTime
  <2>5. \A t1, u \in Threads : call'[t1].prm = call'[u].prm /\ call'[t1].prm # NoPrm => t1 = u
    BY <1>a, <2>1 DEF PrmInv
  <2>6. \A u \in Threads :
          call'[u].prm # NoPrm /\ call'[u].waitAck = FALSE => Len(call'[u].to) = 1
    BY <1>a, <1>f, <1>j, <2>2 DEF PrmInv
  <2>7. ASSUME NEW u \in Threads, NEW g \in Handles,
               msg'[g] # NoMsg, msg'[g].prm = call'[u].prm, call'[u].prm # NoPrm
        PROVE  g \in sent'[u]
    <3>1. call[u].prm = call'[u].prm
      BY <2>1, <2>7
    <3>2. CASE g # h
      BY <1>a, <1>g, <1>j, <2>7, <3>1, <3>2 DEF PrmInv, Allocated
    <3>3. CASE g = h
      <4>1. u = t
        BY <1>a, <1>f, <1>g, <2>7, <3>1, <3>3 DEF PrmInv
      <4>2. c.waitAck = TRUE
        BY <1>f, <2>2, <2>7, <4>1, <3>1
      <4>3. QED
        BY <1>j, <3>3, <4>1, <4>2
    <3>4. QED
      BY <3>2, <3>3
  <2>8. ASSUME NEW g \in Handles, NEW f \in Handles, msg'[g] # NoMsg, msg'[f] # NoMsg,
               msg'[g].prm = msg'[f].prm, msg'[g].prm # NoPrm
        PROVE  msg'[g].waitAck = TRUE \/ f = g
    <3>1. CASE g # h /\ f # h
      BY <1>a, <1>g, <2>8, <3>1 DEF PrmInv, Allocated
    <3>2. CASE g = h /\ f # h
      <4>1. f \in sent[t]
        BY <1>a, <1>f, <1>g, <2>8, <3>2 DEF PrmInv, Allocated
      <4>2. QED
        BY <1>a, <1>f, <1>g, <3>2, <4>1 DEF SentInv, SentOK
    <3>3. CASE g # h /\ f = h
      <4>1. g \in sent[t]
        BY <1>a, <1>f, <1>g, <2>8, <3>3 DEF PrmInv, Allocated
      <4>2. QED
        BY <1>a, <1>g, <3>3, <4>1 DEF SentInv, SentOK
    <3>4. QED
      BY <3>1, <3>2, <3>3
  <2>9. QED
    BY <2>4, <2>5, <2>6, <2>7, <2>8 DEF PrmInv, Allocated
<1>6. QED
  BY <1>1, <1>2, <1>3, <1>4, <1>5 DEF IInv

(* A message is in one place: where it is found, it is nowhere else. *)
LEMMA OnePlace ==
  ASSUME TypeOK, PlaceInv, NEW h \in Handles, NEW t \in Threads
  PROVE  /\ h \in Elems(rcvMbx[t]) =>
              /\ Allocated(h) /\ msg[h].to = t
              /\ \A u \in Threads : h \notin Elems(ackMbx[u]) /\ held[u] # h
              /\ \A u \in Threads : u # t => h \notin Elems(rcvMbx[u])
         /\ h \in Elems(ackMbx[t]) =>
              /\ Allocated(h) /\ msg[h].from = t /\ msg[h].waitAck = TRUE
              /\ \A u \in Threads : h \notin Elems(rcvMbx[u]) /\ held[u] # h
              /\ \A u \in Threads : u # t => h \notin Elems(ackMbx[u])
         /\ held[t] = h =>
              /\ Allocated(h) /\ msg[h].to = t
              /\ \A u \in Threads : h \notin Elems(rcvMbx[u]) /\ h \notin Elems(ackMbx[u])
              /\ \A u \in Threads : u # t => held[u] # h
<1>1. /\ \A u \in Threads : h \in Elems(rcvMbx[u]) => Allocated(h) /\ msg[h].to = u
      /\ \A u \in Threads : h \in Elems(ackMbx[u]) =>
           Allocated(h) /\ msg[h].from = u /\ msg[h].waitAck = TRUE
      /\ \A u \in Threads : held[u] = h => Allocated(h) /\ msg[h].to = u
  BY MbxAssumption DEF PlaceInv
<1>2. Allocated(h) => /\ ~(InBox(h) /\ InHand(h))
                      /\ ~(InBox(h) /\ IsAck(h))
                      /\ ~(InHand(h) /\ IsAck(h))
  BY DEF PlaceInv
<1>3. QED
  BY <1>1, <1>2 DEF InBox, InHand, IsAck

(* A step that moves one message leaves the others in their places. *)
LEMMA OneMoves ==
  ASSUME TypeOK, TypeOK', PlaceInv, NEW h \in Handles,
         \A g \in Handles : g # h =>
           /\ msg'[g] = msg[g]
           /\ \A u \in Threads : /\ g \in Elems(rcvMbx'[u]) <=> g \in Elems(rcvMbx[u])
                                 /\ g \in Elems(ackMbx'[u]) <=> g \in Elems(ackMbx[u])
                                 /\ held'[u] = g <=> held[u] = g,
         \A u \in Threads : Distinct(rcvMbx'[u]) /\ Distinct(ackMbx'[u]),
         \A u \in Threads : h \in Elems(rcvMbx'[u]) => Allocated(h)' /\ msg'[h].to = u,
         \A u \in Threads : h \in Elems(ackMbx'[u]) =>
           Allocated(h)' /\ msg'[h].from = u /\ msg'[h].waitAck = TRUE,
         \A u \in Threads : held'[u] = h => Allocated(h)' /\ msg'[h].to = u,
         Allocated(h)' =>
           /\ InBox(h)' \/ InHand(h)' \/ IsAck(h)'
           /\ ~(InBox(h)' /\ InHand(h)')
           /\ ~(InBox(h)' /\ IsAck(h)')
           /\ ~(InHand(h)' /\ IsAck(h)')
  PROVE  PlaceInv'
<1>1. \A u \in Threads : /\ Elems(rcvMbx'[u]) \subseteq Handles
                         /\ Elems(ackMbx'[u]) \subseteq Handles
                         /\ held'[u] # None => held'[u] \in Handles
  BY MbxAssumption, BoundedSeqDef, ElemsIn DEF TypeOK
<1>2. \A g \in Handles : \A u \in Threads :
        g \in Elems(rcvMbx'[u]) => Allocated(g)' /\ msg'[g].to = u
  BY DEF PlaceInv, Allocated
<1>3. \A g \in Handles : \A u \in Threads :
        g \in Elems(ackMbx'[u]) => Allocated(g)' /\ msg'[g].from = u /\ msg'[g].waitAck = TRUE
  BY DEF PlaceInv, Allocated
<1>4. \A g \in Handles : \A u \in Threads : held'[u] = g => Allocated(g)' /\ msg'[g].to = u
  BY MbxAssumption DEF PlaceInv, Allocated
<1>5. ASSUME NEW g \in Handles, Allocated(g)'
      PROVE  /\ InBox(g)' \/ InHand(g)' \/ IsAck(g)'
             /\ ~(InBox(g)' /\ InHand(g)')
             /\ ~(InBox(g)' /\ IsAck(g)')
             /\ ~(InHand(g)' /\ IsAck(g)')
  <2>1. CASE g = h
    BY <1>5, <2>1
  <2>2. CASE g # h
    <3>1. msg'[g] = msg[g] /\ Allocated(g)
      BY <1>5, <2>2 DEF Allocated
    <3>2. msg[g].to \in Threads /\ msg[g].from \in Threads
      BY <3>1, MsgTypes
    <3>3. /\ InBox(g)' <=> InBox(g)
          /\ InHand(g)' <=> InHand(g)
          /\ IsAck(g)' <=> IsAck(g)
      BY <2>2, <3>1, <3>2 DEF InBox, InHand, IsAck
    <3>4. QED
      BY <3>1, <3>3 DEF PlaceInv
  <2>3. QED
    BY <2>1, <2>2
<1>6. QED
  BY <1>1, <1>2, <1>3, <1>4, <1>5 DEF PlaceInv

(* A step that changes no more of the messages than their status. *)
LEMMA SameMsgs ==
  ASSUME SentInv, PrmInv, call' = call, sent' = sent, live' = live,
         \A u \in Threads : sent[u] \subseteq Handles,
         \A g \in Handles :
           /\ Allocated(g)' <=> Allocated(g)
           /\ Allocated(g) => /\ msg'[g].to = msg[g].to /\ msg'[g].from = msg[g].from
                              /\ msg'[g].prm = msg[g].prm /\ msg'[g].waitAck = msg[g].waitAck
  PROVE  SentInv' /\ PrmInv'
<1>1. SentInv'
  BY DEF SentInv, SentOK
<1>2. ReachablePrms' = ReachablePrms
  BY DEF ReachablePrms, Allocated
<1>3. PrmInv'
  BY <1>2 DEF PrmInv, PrmFreedInTime
<1>4. QED
  BY <1>1, <1>3

(* A step of a task that is in no call of its own. *)
LEMMA TaskStepCall ==
  ASSUME CallInv, NEW t \in Tasks, call' = call, sent' = sent, retVal' = retVal,
         tpc[t] \notin {"send", "ack"}, tpc'[t] \notin {"idle", "send", "ack"},
         held'[t] # None <=> tpc'[t] \in {"run", "done"},
         \A u \in Threads : u # t => tpc'[u] = tpc[u] /\ held'[u] = held[u]
  PROVE  CallInv'
<1> SUFFICES ASSUME NEW u \in Threads PROVE CallOK(u)'
  BY DEF CallInv
<1>1. CASE u # t
  BY <1>1 DEF CallInv, CallOK
<1>2. CASE u = t
  BY <1>2, MbxAssumption DEF CallInv, CallOK, Threads
<1>3. QED
  BY <1>1, <1>2

(* A message taken out of its mailbox by its receiver. *)
LEMMA TakenOut ==
  ASSUME IInv, NEW t \in Tasks, rcvMbx[t] # <<>>,
         rcvMbx' = [rcvMbx EXCEPT ![t] = Tail(@)]
  PROVE  /\ Head(rcvMbx[t]) \in Handles
         /\ Head(rcvMbx[t]) \in Elems(rcvMbx[t])
         /\ rcvMbx' \in [Threads -> BoundedSeq(Handles, MaxLen)]
         /\ \A u \in Threads : Distinct(rcvMbx'[u])
         /\ \A u \in Threads : Elems(rcvMbx'[u]) = Elems(rcvMbx[u]) \ {Head(rcvMbx[t])}
<1> DEFINE box == rcvMbx[t]
<1>1. TypeOK /\ PlaceInv /\ t \in Threads
  BY DEF IInv, Threads
<1>2. box \in Seq(Handles) /\ Len(box) <= MaxLen /\ Distinct(box) /\ box # <<>>
  BY <1>1, BoxTypes DEF PlaceInv
<1>3. /\ Head(box) \in Elems(box) /\ Head(box) \in Handles /\ Tail(box) \in Seq(Handles)
      /\ Len(Tail(box)) = Len(box) - 1 /\ Len(box) >= 1
      /\ Distinct(Tail(box)) /\ Elems(Tail(box)) = Elems(box) \ {Head(box)}
  BY <1>2, ElemsTail
<1>4. Len(Tail(box)) <= MaxLen
  BY <1>2, <1>3, MbxAssumption, LenProperties
<1>5. rcvMbx' \in [Threads -> BoundedSeq(Handles, MaxLen)]
  BY <1>1, <1>3, <1>4, BoxExcept DEF TypeOK
<1>6. \A u \in Threads : rcvMbx'[u] = IF u = t THEN Tail(box) ELSE rcvMbx[u]
  BY <1>1 DEF TypeOK
<1>7. \A u \in Threads : u # t => Head(box) \notin Elems(rcvMbx[u])
  BY <1>1, <1>3, OnePlace
<1>8. \A u \in Threads : Distinct(rcvMbx'[u])
  BY <1>1, <1>3, <1>6 DEF PlaceInv
<1>9. QED
  BY <1>3, <1>5, <1>6, <1>7, <1>8

(* OSA_tskWaitMsg, OSA_tskCheckMsg and an OSA_mbxWaitCmd that hands over:  *)
(* from the mailbox to the handler.                                        *)
LEMMA ReceivePreserves ==
  ASSUME IInv, NEW t \in Tasks, tpc[t] \in {"wait", "after", "cmd"}, rcvMbx[t] # <<>>,
         NEW h \in Handles, h = Head(rcvMbx[t]),
         held' = [held EXCEPT ![t] = h],
         rcvMbx' = [rcvMbx EXCEPT ![t] = Tail(@)],
         goto(t, "run"),
         UNCHANGED <<heap, ackMbx, call, sent, retVal>>
  PROVE  IInv'
<1>a. TypeOK /\ PlaceInv /\ CallInv /\ SentInv /\ PrmInv /\ t \in Threads
  BY DEF IInv, Threads
<1>b. /\ h \in Handles /\ h \in Elems(rcvMbx[t]) /\ h # None
      /\ rcvMbx' \in [Threads -> BoundedSeq(Handles, MaxLen)]
      /\ \A u \in Threads : Distinct(rcvMbx'[u])
      /\ \A u \in Threads : Elems(rcvMbx'[u]) = Elems(rcvMbx[u]) \ {h}
  BY TakenOut, MbxAssumption
<1>c. /\ msg' = msg /\ live' = live /\ ackMbx' = ackMbx
      /\ tpc' = [tpc EXCEPT ![t] = "run"]
  BY DEF heap, goto
<1>d. held[t] = None
  BY <1>a DEF CallInv, CallOK
<1>e. /\ \A u \in Threads : held'[u] = IF u = t THEN h ELSE held[u]
      /\ \A u \in Threads : tpc'[u] = IF u = t THEN "run" ELSE tpc[u]
  BY <1>a, <1>c DEF TypeOK
<1>f. /\ Allocated(h) /\ msg[h].to = t
      /\ \A u \in Threads : h \notin Elems(ackMbx[u]) /\ held[u] # h
  BY <1>a, <1>b, OnePlace
<1>1. TypeOK'
  BY <1>a, <1>b, <1>c DEF TypeOK
<1>2. PlaceInv'
  <2>1. ~InBox(h)' /\ InHand(h)' /\ ~IsAck(h)'
    BY <1>a, <1>b, <1>c, <1>e, <1>f, MsgTypes DEF InBox, InHand, IsAck
  <2>2. \A g \in Handles : g # h =>
          \A u \in Threads : held'[u] = g <=> held[u] = g
    BY <1>d, <1>e, MbxAssumption
  <2>3. \A u \in Threads : held'[u] = h => u = t
    BY <1>e, <1>f
  <2>4. \A u \in Threads : h \notin Elems(rcvMbx'[u]) /\ h \notin Elems(ackMbx'[u])
    BY <1>b, <1>c, <1>f
  <2>5. \A g \in Handles : g # h =>
          /\ msg'[g] = msg[g]
          /\ \A u \in Threads : /\ g \in Elems(rcvMbx'[u]) <=> g \in Elems(rcvMbx[u])
                                /\ g \in Elems(ackMbx'[u]) <=> g \in Elems(ackMbx[u])
                                /\ held'[u] = g <=> held[u] = g
    BY <1>b, <1>c, <2>2
  <2>6. \A u \in Threads : Distinct(rcvMbx'[u]) /\ Distinct(ackMbx'[u])
    BY <1>a, <1>b, <1>c DEF PlaceInv
  <2>7. \A u \in Threads : held'[u] = h => Allocated(h)' /\ msg'[h].to = u
    BY <1>c, <1>f, <2>3 DEF Allocated
  <2>8. QED
    BY <1>a, <1>1, <1>b, <2>1, <2>4, <2>5, <2>6, <2>7, OneMoves, ZenonT(60)
<1>3. CallInv'
  BY <1>a, <1>b, <1>c, <1>e, TaskStepCall
<1>4. SentInv' /\ PrmInv'
  BY <1>a, <1>c, SameMsgs DEF TypeOK, Allocated
<1>5. QED
  BY <1>1, <1>2, <1>3, <1>4 DEF IInv

(* OSA_mbxAckOrFreeMsg of a message that waits for its answer in its       *)
(* receiver's mailbox or hands: acknowledged, or freed.                    *)
LEMMA AckPreserves ==
  ASSUME IInv, NEW h \in Handles, Allocated(h), ~IsAck(h), msg[h].waitAck = TRUE,
         NEW status \in {"SOK", "EFAIL"}, AckOrFreeMsg(h, status),
         rcvMbx' \in [Threads -> BoundedSeq(Handles, MaxLen)],
         \A u \in Threads : Distinct(rcvMbx'[u]),
         \A u \in Threads : Elems(rcvMbx'[u]) = Elems(rcvMbx[u]) \ {h},
         held' \in [Threads -> Handles \cup {None}],
         \A u \in Threads : held'[u] = IF held[u] = h THEN None ELSE held[u],
         tpc' \in [Threads -> {"idle", "send", "ack", "wait", "run", "done", "after",
                               "cmd", "flush", "flushack"}],
         UNCHANGED <<call, sent, retVal>>
  PROVE  TypeOK' /\ PlaceInv' /\ SentInv' /\ PrmInv'
<1>a. TypeOK /\ PlaceInv /\ CallInv /\ SentInv /\ PrmInv
  BY DEF IInv
<1>b. /\ msg[h] \in Msgs /\ msg[h].to \in Threads /\ msg[h].from \in Threads
      /\ h # None
  BY <1>a, MsgTypes, MbxAssumption
<1>c. PICK from \in Threads : from = msg[h].from
  BY <1>b
<1>d. /\ Len(ackMbx[from]) < MaxLen
      /\ msg' = [msg EXCEPT ![h].status = status]
      /\ ackMbx' = [ackMbx EXCEPT ![from] = Append(@, h)]
      /\ live' = live
  BY <1>c DEF AckOrFreeMsg
<1>e. /\ msg'[h] \in Msgs /\ msg'[h] # NoMsg
      /\ msg'[h].to = msg[h].to /\ msg'[h].from = msg[h].from
      /\ msg'[h].prm = msg[h].prm /\ msg'[h].waitAck = msg[h].waitAck
      /\ \A g \in Handles : g # h => msg'[g] = msg[g]
  <2>1. msg'[h] = [msg[h] EXCEPT !.status = status]
    BY <1>a, <1>d DEF TypeOK
  <2>2. msg'[h] \in Msgs
    BY <1>b, <2>1 DEF Msgs
  <2>3. /\ msg'[h].to = msg[h].to /\ msg'[h].from = msg[h].from
        /\ msg'[h].prm = msg[h].prm /\ msg'[h].waitAck = msg[h].waitAck
    BY <1>b, <2>1 DEF Msgs
  <2>4. QED
    BY <1>a, <1>d, <2>2, <2>3, NoMsgIsFree DEF TypeOK
<1>f. \A u \in Threads : h \notin Elems(ackMbx[u])
  BY <1>a, OnePlace DEF IsAck
<1>g. /\ Append(ackMbx[from], h) \in Seq(Handles) /\ Len(Append(ackMbx[from], h)) <= MaxLen
      /\ Distinct(Append(ackMbx[from], h))
      /\ Elems(Append(ackMbx[from], h)) = Elems(ackMbx[from]) \cup {h}
  <2>1. ackMbx[from] \in Seq(Handles) /\ Distinct(ackMbx[from])
        /\ Len(ackMbx[from]) \in Nat /\ MaxLen \in Nat
    BY <1>a, BoxTypes, LenProperties, MbxAssumption DEF PlaceInv
  <2>2. Len(Append(ackMbx[from], h)) = Len(ackMbx[from]) + 1
    BY <2>1, ElemsAppend
  <2>3. QED
    BY <1>d, <1>f, <2>1, <2>2, ElemsAppend
<1>h. \A u \in Threads :
        ackMbx'[u] = IF u = from THEN Append(ackMbx[from], h) ELSE ackMbx[u]
  BY <1>a, <1>d DEF TypeOK
<1>1. TypeOK'
  <2>1. msg' \in [Handles -> Msgs \cup {NoMsg}]
    BY <1>a, <1>d, <1>e DEF TypeOK
  <2>2. ackMbx' \in [Threads -> BoundedSeq(Handles, MaxLen)]
    BY <1>a, <1>d, <1>g, BoxExcept DEF TypeOK
  <2>3. QED
    BY <1>a, <1>d, <2>1, <2>2 DEF TypeOK
<1>2. PlaceInv'
  <2>1. \A u \in Threads : h \notin Elems(rcvMbx'[u]) /\ held'[u] # h
    BY <1>b
  <2>2. Elems(ackMbx'[from]) = Elems(ackMbx[from]) \cup {h}
        /\ \A u \in Threads : u # from => h \notin Elems(ackMbx'[u])
    BY <1>f, <1>g, <1>h
  <2>3. ~InBox(h)' /\ ~InHand(h)' /\ IsAck(h)' /\ Allocated(h)'
    BY <1>b, <1>c, <1>e, <2>1, <2>2 DEF InBox, InHand, IsAck, Allocated
  <2>4. \A g \in Handles : g # h =>
          /\ msg'[g] = msg[g]
          /\ \A u \in Threads : /\ g \in Elems(rcvMbx'[u]) <=> g \in Elems(rcvMbx[u])
                                /\ g \in Elems(ackMbx'[u]) <=> g \in Elems(ackMbx[u])
                                /\ held'[u] = g <=> held[u] = g
    BY <1>e, <1>g, <1>h, MbxAssumption
  <2>5. \A u \in Threads : Distinct(rcvMbx'[u]) /\ Distinct(ackMbx'[u])
    BY <1>a, <1>g, <1>h DEF PlaceInv
  <2>6. \A u \in Threads : h \in Elems(ackMbx'[u]) =>
          Allocated(h)' /\ msg'[h].from = u /\ msg'[h].waitAck = TRUE
    BY <1>c, <1>e, <2>2, <2>3
  <2>7. QED
    BY <1>a, <1>1, <2>1, <2>3, <2>4, <2>5, <2>6, OneMoves
<1>3. SentInv' /\ PrmInv'
  <2>1. \A g \in Handles :
          /\ Allocated(g)' <=> Allocated(g)
          /\ Allocated(g) => /\ msg'[g].to = msg[g].to /\ msg'[g].from = msg[g].from
                             /\ msg'[g].prm = msg[g].prm /\ msg'[g].waitAck = msg[g].waitAck
    BY <1>e DEF Allocated
  <2>2. QED
    BY <1>a, <1>d, <2>1, SameMsgs DEF TypeOK
<1>4. QED
  BY <1>1, <1>2, <1>3

LEMMA FreePreserves ==
  ASSUME IInv, NEW h \in Handles, Allocated(h), ~IsAck(h), msg[h].waitAck = FALSE,
         NEW status, AckOrFreeMsg(h, status),
         rcvMbx' \in [Threads -> BoundedSeq(Handles, MaxLen)],
         \A u \in Threads : Distinct(rcvMbx'[u]),
         \A u \in Threads : Elems(rcvMbx'[u]) = Elems(rcvMbx[u]) \ {h},
         held' \in [Threads -> Handles \cup {None}],
         \A u \in Threads : held'[u] = IF held[u] = h THEN None ELSE held[u],
         tpc' \in [Threads -> {"idle", "send", "ack", "wait", "run", "done", "after",
                               "cmd", "flush", "flushack"}],
         UNCHANGED <<call, sent, retVal>>
  PROVE  TypeOK' /\ PlaceInv' /\ SentInv' /\ PrmInv'
<1>a. TypeOK /\ PlaceInv /\ CallInv /\ SentInv /\ PrmInv /\ h # None
  BY MbxAssumption DEF IInv
<1>b. /\ msg' = [msg EXCEPT ![h] = NoMsg]
      /\ live' = live \ {msg[h].prm}
      /\ ackMbx' = ackMbx /\ call' = call /\ sent' = sent /\ retVal' = retVal
  BY DEF AckOrFreeMsg, FreeMsg
<1>c. \A g \in Handles : msg'[g] = IF g = h THEN NoMsg ELSE msg[g]
  BY <1>a, <1>b DEF TypeOK
<1>d. \A u \in Threads : h \notin Elems(ackMbx[u]) /\ h \notin sent[u]
  BY <1>a, OnePlace DEF IsAck, SentInv, SentOK
<1>1. TypeOK'
  BY <1>a, <1>b DEF TypeOK
<1>2. PlaceInv'
  <2>1. \A u \in Threads : h \notin Elems(rcvMbx'[u]) /\ h \notin Elems(ackMbx'[u])
                           /\ held'[u] # h
    BY <1>a, <1>b, <1>d
  <2>2. ~Allocated(h)'
    BY <1>c DEF Allocated
  <2>3. \A g \in Handles : g # h =>
          /\ msg'[g] = msg[g]
          /\ \A u \in Threads : /\ g \in Elems(rcvMbx'[u]) <=> g \in Elems(rcvMbx[u])
                                /\ g \in Elems(ackMbx'[u]) <=> g \in Elems(ackMbx[u])
                                /\ held'[u] = g <=> held[u] = g
    BY <1>b, <1>c, MbxAssumption
  <2>4. \A u \in Threads : Distinct(rcvMbx'[u]) /\ Distinct(ackMbx'[u])
    BY <1>a, <1>b DEF PlaceInv
  <2>5. QED
    BY <1>a, <1>1, <2>1, <2>2, <2>3, <2>4, OneMoves, ZenonT(60)
<1>3. SentInv'
  <2> SUFFICES ASSUME NEW u \in Threads PROVE SentOK(u)'
    BY DEF SentInv
  <2>1. \A g \in sent[u] : g \in Handles /\ g # h
    BY <1>a, <1>d DEF TypeOK
  <2>2. SentOK(u)
    BY <1>a DEF SentInv
  <2>3. QED
    BY <1>b, <1>c, <1>d, <2>1, <2>2 DEF SentOK, Allocated
<1>4. PrmInv'
  <2>1. ASSUME NEW g \in Handles, Allocated(g), g # h, msg[h].prm # NoPrm
        PROVE  msg[g].prm # msg[h].prm
    BY <1>a, <2>1 DEF PrmInv
  <2>2. ASSUME NEW u \in Threads, msg[h].prm # NoPrm
        PROVE  call[u].prm # msg[h].prm
    BY <1>a, <1>d, <2>2 DEF PrmInv
  <2>3. ReachablePrms' = ReachablePrms \ {msg[h].prm}
    BY <1>b, <1>c, <2>1, <2>2 DEF ReachablePrms, Allocated
  <2>4. PrmFreedInTime'
    BY <1>a, <1>b, <2>3 DEF PrmInv, PrmFreedInTime
  <2>5. QED
    BY <1>a, <1>b, <1>c, <2>4 DEF PrmInv, Allocated
<1>5. QED
  BY <1>1, <1>2, <1>3, <1>4

(* The wait for acknowledgements takes one: it is always one of the call's. *)
LEMMA RecvAckIsOwn ==
  ASSUME IInv, NEW t \in Threads, ackMbx[t] # <<>>
  PROVE  /\ Head(ackMbx[t]) \in Handles
         /\ Head(ackMbx[t]) \in Elems(ackMbx[t])
         /\ Head(ackMbx[t]) \in sent[t]
<1>1. TypeOK /\ PlaceInv /\ SentInv
  BY DEF IInv
<1>2. Head(ackMbx[t]) \in Handles /\ Head(ackMbx[t]) \in Elems(ackMbx[t])
  BY <1>1, BoxTypes, ElemsTail
<1>3. QED
  BY <1>1, <1>2 DEF PlaceInv, SentInv, SentOK

LEMMA RecvAckPreserves ==
  ASSUME IInv, NEW t \in Threads, recvAck(t), NEW h \in Handles, h = Head(ackMbx[t])
  PROVE  IInv'
<1>a. TypeOK /\ PlaceInv /\ CallInv /\ SentInv /\ PrmInv /\ h # None
  BY MbxAssumption DEF IInv
<1>b. tpc[t] = "ack" /\ ackMbx[t] # <<>> /\ h \in Elems(ackMbx[t]) /\ h \in sent[t]
  BY RecvAckIsOwn DEF recvAck
<1>c. /\ ackMbx' = [ackMbx EXCEPT ![t] = Tail(@)]
      /\ sent' = [sent EXCEPT ![t] = @ \ {h}]
      /\ retVal' = [retVal EXCEPT ![t] = IF @ = "SOK" THEN msg[h].status ELSE @]
      /\ msg' = [msg EXCEPT ![h] = NoMsg]
      /\ rcvMbx' = rcvMbx /\ held' = held
      /\ sent[t] = {h} => /\ live' = live \ {call[t].prm}
                          /\ call' = [call EXCEPT ![t] = NoCall]
                          /\ tpc' = [tpc EXCEPT ![t] = Returned(t)]
      /\ sent[t] # {h} => live' = live /\ call' = call /\ tpc' = tpc
  BY <1>b DEF recvAck, acknowledged, goto
<1>d. /\ call[t].to = <<>> /\ call[t].waitAck = TRUE /\ retVal[t] \in {"SOK", "EFAIL"}
      /\ t \in Tasks => held[t] # None
      /\ t \notin Tasks => held[t] = None
  BY <1>a, <1>b DEF CallInv, CallOK
<1>e. /\ Allocated(h) /\ msg[h].from = t /\ msg[h].prm = call[t].prm
      /\ msg[h].status \in {"SOK", "EFAIL"}
      /\ \A u \in Threads : h \notin Elems(rcvMbx[u]) /\ held[u] # h
      /\ \A u \in Threads : u # t => h \notin Elems(ackMbx[u]) /\ h \notin sent[u]
  <2>1. /\ Allocated(h) /\ msg[h].from = t
        /\ \A u \in Threads : h \notin Elems(rcvMbx[u]) /\ held[u] # h
        /\ \A u \in Threads : u # t => h \notin Elems(ackMbx[u])
    BY <1>a, <1>b, OnePlace, ZenonT(60)
  <2>2. msg[h].prm = call[t].prm /\ \A u \in Threads : h \in sent[u] => msg[h].from = u
    BY <1>a, <1>b DEF SentInv, SentOK
  <2>3. msg[h].status \in {"SOK", "EFAIL"}
    BY <1>a, <2>1, MsgTypes
  <2>4. QED
    BY <2>1, <2>2, <2>3
<1>f. /\ Tail(ackMbx[t]) \in Seq(Handles) /\ Len(Tail(ackMbx[t])) <= MaxLen
      /\ Distinct(Tail(ackMbx[t])) /\ Elems(Tail(ackMbx[t])) = Elems(ackMbx[t]) \ {h}
  <2>1. ackMbx[t] \in Seq(Handles) /\ Distinct(ackMbx[t]) /\ Len(ackMbx[t]) <= MaxLen
        /\ Len(ackMbx[t]) \in Nat /\ MaxLen \in Nat
    BY <1>a, BoxTypes, LenProperties, MbxAssumption DEF PlaceInv
  <2>2. /\ Tail(ackMbx[t]) \in Seq(Handles)
        /\ Len(Tail(ackMbx[t])) = Len(ackMbx[t]) - 1
        /\ Distinct(Tail(ackMbx[t])) /\ Elems(Tail(ackMbx[t])) = Elems(ackMbx[t]) \ {h}
    BY <1>b, <2>1, ElemsTail
  <2>3. QED
    BY <2>1, <2>2
<1>g. /\ \A g \in Handles : msg'[g] = IF g = h THEN NoMsg ELSE msg[g]
      /\ \A u \in Threads : ackMbx'[u] = IF u = t THEN Tail(ackMbx[t]) ELSE ackMbx[u]
      /\ \A u \in Threads : sent'[u] = sent[u] \ {h}
      /\ \A u \in Threads : u # t => call'[u] = call[u] /\ tpc'[u] = tpc[u] /\ retVal'[u] = retVal[u]
      /\ retVal'[t] \in {"SOK", "EFAIL"}
      /\ sent[t] = {h} => call'[t] = NoCall /\ tpc'[t] = Returned(t)
      /\ sent[t] # {h} => call'[t] = call[t] /\ tpc'[t] = tpc[t]
  <2>1. /\ \A u \in Threads : sent'[u] = IF u = t THEN sent[u] \ {h} ELSE sent[u]
        /\ \A u \in Threads : retVal'[u] = IF u = t
             THEN IF retVal[u] = "SOK" THEN msg[h].status ELSE retVal[u] ELSE retVal[u]
    BY <1>a, <1>c DEF TypeOK
  <2>2. \A u \in Threads : sent'[u] = sent[u] \ {h}
    BY <1>e, <2>1
  <2>3. retVal'[t] \in {"SOK", "EFAIL"}
    BY <1>d, <1>e, <2>1
  <2>4. QED
    BY <1>a, <1>c, <2>1, <2>2, <2>3 DEF TypeOK
<1>1. TypeOK'
  <2>1. ackMbx' \in [Threads -> BoundedSeq(Handles, MaxLen)]
    BY <1>a, <1>c, <1>f, BoxExcept DEF TypeOK
  <2>2. call' \in [Threads -> Calls] /\ live' \subseteq Prms
    BY <1>a, <1>c, NoCallIs DEF TypeOK
  <2>3. tpc' \in [Threads -> {"idle", "send", "ack", "wait", "run", "done", "after",
                              "cmd", "flush", "flushack"}]
    BY <1>a, <1>c DEF TypeOK, Returned
  <2>4. retVal' \in [Threads -> {"SOK", "EFAIL", None}]
    BY <1>a, <1>c, <1>e DEF TypeOK
  <2>5. QED
    BY <1>a, <1>c, <2>1, <2>2, <2>3, <2>4 DEF TypeOK
<1>2. PlaceInv'
  <2>1. \A u \in Threads : h \notin Elems(rcvMbx'[u]) /\ h \notin Elems(ackMbx'[u])
                           /\ held'[u] # h
    BY <1>c, <1>e, <1>f, <1>g
  <2>2. ~Allocated(h)'
    BY <1>g DEF Allocated
  <2>3. \A g \in Handles : g # h =>
          /\ msg'[g] = msg[g]
          /\ \A u \in Threads : /\ g \in Elems(rcvMbx'[u]) <=> g \in Elems(rcvMbx[u])
                                /\ g \in Elems(ackMbx'[u]) <=> g \in Elems(ackMbx[u])
                                /\ held'[u] = g <=> held[u] = g
    BY <1>c, <1>f, <1>g
  <2>4. \A u \in Threads : Distinct(rcvMbx'[u]) /\ Distinct(ackMbx'[u])
    BY <1>a, <1>c, <1>f, <1>g DEF PlaceInv
  <2>5. QED
    BY <1>a, <1>1, <2>1, <2>2, <2>3, <2>4, OneMoves
<1>3. CallInv'
  <2> SUFFICES ASSUME NEW u \in Threads PROVE CallOK(u)'
    BY DEF CallInv
  <2>0. CallOK(u) /\ held'[u] = held[u] /\ (t \in Tasks <=> t \notin Clients)
    BY <1>a, <1>c, MbxAssumption DEF CallInv, Threads
  <2>1. CASE u # t
    <3>1. call'[u] = call[u] /\ tpc'[u] = tpc[u] /\ retVal'[u] = retVal[u]
      BY <1>g, <2>1
    <3>2. sent'[u] = sent[u]
      <4>1. h \notin sent[u] /\ sent'[u] = sent[u] \ {h}
        BY <1>e, <1>g, <2>1
      <4>2. QED
        BY ONLY <4>1
    <3>3. QED
      BY <2>0, <3>1, <3>2 DEF CallOK
  <2>2. CASE u = t /\ sent[t] = {h}
    BY <1>d, <1>g, <2>0, <2>2, NoCallIs DEF CallOK, Returned
  <2>3. CASE u = t /\ sent[t] # {h}
    <3>1. sent'[t] # {}
      BY <1>b, <1>g, <2>3
    <3>2. QED
      BY <1>g, <2>0, <2>3, <3>1 DEF CallOK
  <2>4. QED
    BY <2>1, <2>2, <2>3
<1>4. SentInv'
  <2> SUFFICES ASSUME NEW u \in Threads PROVE SentOK(u)'
    BY DEF SentInv
  <2>1. SentOK(u) /\ sent[u] \subseteq Handles /\ sent'[u] = sent[u] \ {h}
    BY <1>a, <1>g DEF SentInv, TypeOK
  <2>2. call'[u] = call[u] \/ sent'[u] = {}
    BY <1>g
  <2>3. QED
    BY <1>g, <2>1, <2>2 DEF SentOK, Allocated
<1>5. PrmInv'
  <2>1. CASE sent[t] = {h}
    <3>1. \A g \in Handles : Allocated(g) /\ g # h /\ call[t].prm # NoPrm => msg[g].prm # call[t].prm
      BY <1>a, <2>1 DEF PrmInv
    <3>2. \A u \in Threads : u # t /\ call[t].prm # NoPrm => call[u].prm # call[t].prm
      BY <1>a DEF PrmInv
    <3>3. \A u \in Threads : call'[u].prm = IF u = t THEN NoPrm ELSE call[u].prm
      BY <1>g, <2>1, NoCallIs
    <3>4. ReachablePrms' = ReachablePrms \ {call[t].prm}
      BY <1>e, <1>g, <3>1, <3>2, <3>3 DEF ReachablePrms, Allocated
    <3>5. PrmFreedInTime'
      BY <1>a, <1>c, <2>1, <3>4 DEF PrmInv, PrmFreedInTime
    <3>6. \A u \in Threads : call'[u] = IF u = t THEN NoCall ELSE call[u]
      BY <1>g, <2>1
    <3>7. \A g \in Handles, u \in Threads : g # h /\ g \in sent[u] => g \in sent'[u]
      BY <1>g
    <3>8. QED
      BY <1>a, <1>g, <3>3, <3>5, <3>6, <3>7 DEF PrmInv, Allocated
  <2>2. CASE sent[t] # {h}
    <3>1. call' = call /\ live' = live
      BY <1>c, <2>2
    <3>2. ReachablePrms' = ReachablePrms
      BY <1>e, <1>g, <3>1 DEF ReachablePrms
    <3>3. QED
      BY <1>a, <1>g, <3>1, <3>2 DEF PrmInv, PrmFreedInTime, Allocated
  <2>3. QED
    BY <2>1, <2>2
<1>6. QED
  BY <1>1, <1>2, <1>3, <1>4, <1>5 DEF IInv

(* OSA_mbxAckOrFreeMsg, whichever of the two it does. *)
LEMMA AckOrFreePreserves ==
  ASSUME IInv, NEW t \in Tasks, NEW h \in Handles, Allocated(h), ~IsAck(h),
         NEW status \in {"SOK", "EFAIL"}, AckOrFreeMsg(h, status),
         rcvMbx' \in [Threads -> BoundedSeq(Handles, MaxLen)],
         \A u \in Threads : Distinct(rcvMbx'[u]),
         \A u \in Threads : Elems(rcvMbx'[u]) = Elems(rcvMbx[u]) \ {h},
         held' \in [Threads -> Handles \cup {None}],
         \A u \in Threads : held'[u] = IF held[u] = h THEN None ELSE held[u],
         NEW where \in {"after", "cmd", "flush"}, goto(t, where), tpc[t] \notin {"send", "ack"},
         held'[t] = None, \A u \in Threads : u # t => held'[u] = held[u],
         UNCHANGED <<call, sent, retVal>>
  PROVE  IInv'
<1>a. TypeOK /\ CallInv /\ t \in Threads /\ msg[h].waitAck \in BOOLEAN
  BY MsgTypes DEF IInv, Threads
<1>b. /\ tpc' \in [Threads -> {"idle", "send", "ack", "wait", "run", "done", "after",
                               "cmd", "flush", "flushack"}]
      /\ \A u \in Threads : tpc'[u] = IF u = t THEN where ELSE tpc[u]
  BY <1>a DEF TypeOK, goto
<1>1. CallInv'
  BY <1>a, <1>b, TaskStepCall
<1>2. TypeOK' /\ PlaceInv' /\ SentInv' /\ PrmInv'
  <2>1. CASE msg[h].waitAck = TRUE
    BY <1>b, <2>1, AckPreserves
  <2>2. CASE msg[h].waitAck = FALSE
    BY <1>b, <2>2, FreePreserves
  <2>3. QED
    BY <1>a, <2>1, <2>2
<1>3. QED
  BY <1>1, <1>2 DEF IInv

(* The handler answers the message it was entered with. *)
LEMMA AnswerPreserves ==
  ASSUME IInv, NEW t \in Tasks, answer(t), NEW h, h = held[t]
  PROVE  IInv'
<1>a. TypeOK /\ PlaceInv /\ CallInv /\ t \in Threads
  BY DEF IInv, Threads
<1>b. /\ tpc[t] \in {"run", "done"}
      /\ held' = [held EXCEPT ![t] = None]
      /\ goto(t, "after")
      /\ rcvMbx' = rcvMbx /\ UNCHANGED <<call, sent, retVal>>
  BY DEF answer
<1>c. PICK status \in {"SOK", "EFAIL"} : AckOrFreeMsg(h, status)
  BY DEF answer
<1>d. h \in Handles
  BY <1>a, <1>b DEF CallInv, CallOK, TypeOK
<1>e. /\ Allocated(h)
      /\ \A u \in Threads : h \notin Elems(rcvMbx[u]) /\ h \notin Elems(ackMbx[u])
      /\ \A u \in Threads : u # t => held[u] # h
  BY <1>a, <1>d, OnePlace
<1>f. ~IsAck(h)
  BY <1>a, <1>d, <1>e, MsgTypes DEF IsAck
<1>g. /\ \A u \in Threads : held'[u] = IF held[u] = h THEN None ELSE held[u]
      /\ held'[t] = None /\ \A u \in Threads : u # t => held'[u] = held[u]
      /\ held' \in [Threads -> Handles \cup {None}]
  BY <1>a, <1>b, <1>e DEF TypeOK
<1>h. /\ rcvMbx' \in [Threads -> BoundedSeq(Handles, MaxLen)]
      /\ \A u \in Threads : Distinct(rcvMbx'[u])
  BY <1>a, <1>b DEF TypeOK, PlaceInv
<1>i. \A u \in Threads : Elems(rcvMbx'[u]) = Elems(rcvMbx[u]) \ {h}
  BY <1>b, <1>e
<1>j. tpc[t] \notin {"send", "ack"}
  BY <1>b
<1>k. QED
  BY <1>b, <1>c, <1>d, <1>e, <1>f, <1>g, <1>h, <1>i, <1>j, AckOrFreePreserves

(* A message out of the mailbox answered at once: a flush, or a wait for a *)
(* command.                                                                *)
LEMMA AnswerAtOnce ==
  ASSUME IInv, NEW t \in Tasks, tpc[t] \in {"flush", "cmd"}, rcvMbx[t] # <<>>,
         NEW h, h = Head(rcvMbx[t]), AckOrFreeMsg(h, "SOK"),
         rcvMbx' = [rcvMbx EXCEPT ![t] = Tail(@)],
         NEW where \in {"after", "cmd", "flush"}, goto(t, where),
         UNCHANGED <<held, call, sent, retVal>>
  PROVE  IInv'
<1>a. TypeOK /\ PlaceInv /\ CallInv /\ t \in Threads
  BY DEF IInv, Threads
<1>b. /\ h \in Handles /\ h \in Elems(rcvMbx[t])
      /\ rcvMbx' \in [Threads -> BoundedSeq(Handles, MaxLen)]
      /\ \A u \in Threads : Distinct(rcvMbx'[u])
      /\ \A u \in Threads : Elems(rcvMbx'[u]) = Elems(rcvMbx[u]) \ {h}
  BY TakenOut
<1>c. /\ Allocated(h)
      /\ \A u \in Threads : h \notin Elems(ackMbx[u]) /\ held[u] # h
  BY <1>a, <1>b, OnePlace
<1>d. ~IsAck(h)
  BY <1>a, <1>b, <1>c, MsgTypes DEF IsAck
<1>e. held[t] = None /\ tpc[t] \notin {"send", "ack"}
  BY <1>a DEF CallInv, CallOK
<1>f. /\ held' \in [Threads -> Handles \cup {None}] /\ held'[t] = None
      /\ \A u \in Threads : held'[u] = held[u]
      /\ \A u \in Threads : held'[u] = IF held[u] = h THEN None ELSE held[u]
  BY <1>a, <1>c, <1>e DEF TypeOK
<1>g. QED
  BY <1>b, <1>c, <1>d, <1>e, <1>f, AckOrFreePreserves

(* A step that only goes on to the next part of a handler. *)
LEMMA GoOnPreserves ==
  ASSUME IInv, NEW t \in Tasks, tpc[t] \in {"after", "flush", "flushack"},
         NEW where \in {"wait", "flush", "cmd", "flushack", "after"}, goto(t, where),
         UNCHANGED <<heap, rcvMbx, ackMbx, held, call, sent, retVal>>
  PROVE  IInv'
<1>a. TypeOK /\ PlaceInv /\ CallInv /\ SentInv /\ PrmInv /\ t \in Threads
  BY DEF IInv, Threads
<1>b. tpc' = [tpc EXCEPT ![t] = where] /\ msg' = msg /\ live' = live
  BY DEF goto, heap
<1>1. TypeOK'
  BY <1>a, <1>b DEF TypeOK
<1>2. PlaceInv'
  BY <1>a, <1>b DEF PlaceInv, Allocated, InBox, InHand, IsAck
<1>3. CallInv'
  <2>1. held[t] = None
    BY <1>a DEF CallInv, CallOK
  <2>2. \A u \in Threads : tpc'[u] = IF u = t THEN where ELSE tpc[u]
    BY <1>a, <1>b DEF TypeOK
  <2>3. QED
    BY <1>a, <2>1, <2>2, TaskStepCall
<1>4. SentInv' /\ PrmInv'
  BY <1>a, <1>b, SameMsgs DEF TypeOK, Allocated
<1>5. QED
  BY <1>1, <1>2, <1>3, <1>4 DEF IInv

(* No acknowledgement is left for a flush: they are all awaited. *)
LEMMA NoneToFlush ==
  ASSUME IInv, NEW t \in Threads, tpc[t] \notin {"send", "ack"}
  PROVE  ackMbx[t] = <<>>
<1>1. \A h \in sent[t] : call[t].waitAck = TRUE
  BY DEF IInv, SentInv, SentOK
<1>2. call[t].waitAck = FALSE
  BY NoCallIs DEF IInv, CallInv, CallOK
<1>3. sent[t] = {}
  BY <1>1, <1>2
<1>4. QED
  BY <1>3, RecvAckIsOwn

LEMMA TaskStepPreserves ==
  ASSUME IInv, NEW t \in Tasks, taskStep(t)
  PROVE  IInv'
<1>1. CASE receive(t)
  <2>1. rcvMbx[t] # <<>> /\ rcvMbx' = [rcvMbx EXCEPT ![t] = Tail(@)]
    BY <1>1 DEF receive
  <2>2. PICK h \in Handles : h = Head(rcvMbx[t])
    BY <2>1, TakenOut
  <2>3. QED
    BY <1>1, <2>1, <2>2, ReceivePreserves DEF receive
<1>2. CASE answer(t)
  BY <1>2, AnswerPreserves
<1>3. CASE leave(t)
  BY <1>3, GoOnPreserves DEF leave
<1>4. CASE flush(t)
  <2>1. CASE rcvMbx[t] = <<>>
    BY <1>4, <2>1, GoOnPreserves DEF flush
  <2>2. CASE rcvMbx[t] # <<>>
    <3>1. goto(t, "flush")
      BY <1>4, <2>2 DEF flush, goto, IInv, TypeOK, Threads
    <3>2. QED
      BY <1>4, <2>2, <3>1, AnswerAtOnce DEF flush
  <2>3. QED
    BY <2>1, <2>2
<1>5. CASE flushAck(t)
  <2>1. tpc[t] = "flushack" /\ t \in Threads
    BY <1>5 DEF flushAck, Threads
  <2>2. ackMbx[t] = <<>>
    BY <2>1, NoneToFlush
  <2>3. QED
    BY <1>5, <2>1, <2>2, GoOnPreserves DEF flushAck
<1>6. ASSUME NEW cmd \in Cmds, waitCmd(t, cmd)
      PROVE  IInv'
  <2>a. /\ tpc[t] = "cmd" /\ rcvMbx[t] # <<>>
        /\ rcvMbx' = [rcvMbx EXCEPT ![t] = Tail(@)]
        /\ UNCHANGED <<call, sent, retVal>>
    BY <1>6 DEF waitCmd
  <2>b. PICK h \in Handles : h = Head(rcvMbx[t])
    BY <2>a, TakenOut
  <2>1. CASE /\ AckOrFreeMsg(h, "SOK")
             /\ goto(t, IF msg[h].cmd = cmd THEN "after" ELSE "cmd")
             /\ UNCHANGED held
    <3>1. PICK where \in {"after", "cmd", "flush"} : goto(t, where)
      BY <2>1
    <3>2. QED
      BY <2>a, <2>b, <2>1, <3>1, AnswerAtOnce
  <2>2. CASE /\ held' = [held EXCEPT ![t] = h]
             /\ goto(t, "run")
             /\ UNCHANGED <<heap, ackMbx>>
    BY <2>a, <2>b, <2>2, ReceivePreserves
  <2>3. QED
    BY <1>6, <2>b, <2>1, <2>2 DEF waitCmd
<1>7. QED
  BY <1>1, <1>2, <1>3, <1>4, <1>5, <1>6 DEF taskStep

(* A call names its receivers once each. *)
LEMMA CallBegins ==
  ASSUME NEW t \in Threads, SendMsg(t) \/ BroadcastMsg(t)
  PROVE  \E to \in Seq(Tasks), cmd \in Cmds, prm \in FreePrms, wait \in BOOLEAN :
           /\ to # <<>> /\ Distinct(to)
           /\ prm # NoPrm /\ ~wait => Len(to) = 1
           /\ begin(t, to, cmd, prm, wait)
<1>1. CASE SendMsg(t)
  <2>1. PICK d \in Receivers(t), cmd \in Cmds, prm \in FreePrms, wait \in BOOLEAN :
          begin(t, <<d>>, cmd, prm, wait)
    BY <1>1 DEF SendMsg
  <2>2. d \in Tasks
    BY DEF Receivers
  <2>3. <<d>> \in Seq(Tasks) /\ <<d>> # <<>> /\ Distinct(<<d>>) /\ Len(<<d>>) = 1
    BY <2>2 DEF Distinct
  <2>4. QED
    BY <2>1, <2>3
<1>2. CASE BroadcastMsg(t)
  <2>1. PICK them \in SUBSET Receivers(t), cmd \in Cmds, prm \in FreePrms, wait \in BOOLEAN :
          /\ Cardinality(them) > 1
          /\ prm # NoPrm => wait
          /\ begin(t, SetToSeq(them), cmd, prm, wait)
    BY <1>2 DEF BroadcastMsg
  <2>2. them \subseteq Tasks /\ IsFiniteSet(them)
    BY MbxAssumption, FS_Subset DEF Receivers
  <2>3. /\ SetToSeq(them) \in Seq(them) /\ Distinct(SetToSeq(them))
        /\ Len(SetToSeq(them)) = Cardinality(them)
    BY <2>2, SetToSeqDistinct
  <2>4. SetToSeq(them) # <<>> /\ SetToSeq(them) \in Seq(Tasks)
    <3>1. SetToSeq(them) = <<>> => Len(SetToSeq(them)) = 0
      BY <2>3, LenZero
    <3>2. QED
      BY <2>1, <2>2, <2>3, <3>1
  <2>5. QED
    BY <2>1, <2>3, <2>4
<1>3. QED
  BY <1>1, <1>2

LEMMA NextPreserves == IInv /\ [Next]_vars => IInv'
<1> SUFFICES ASSUME IInv, [Next]_vars PROVE IInv'
  OBVIOUS
<1>1. ASSUME NEW t \in Threads, SendMsg(t) \/ BroadcastMsg(t)
      PROVE  IInv'
  <2>1. PICK to \in Seq(Tasks), cmd \in Cmds, prm \in FreePrms, wait \in BOOLEAN :
          /\ to # <<>> /\ Distinct(to)
          /\ prm # NoPrm /\ ~wait => Len(to) = 1
          /\ begin(t, to, cmd, prm, wait)
    BY <1>1, CallBegins
  <2>2. QED
    BY <2>1, BeginPreserves
<1>2. ASSUME NEW t \in Threads, mailStep(t)
      PROVE  IInv'
  <2>1. CASE sendNext(t)
    BY <2>1, SendPreserves
  <2>2. CASE recvAck(t)
    <3>1. PICK h \in Handles : h = Head(ackMbx[t])
      BY <2>2, RecvAckIsOwn DEF recvAck
    <3>2. QED
      BY <2>2, <3>1, RecvAckPreserves
  <2>3. QED
    BY <1>2, <2>1, <2>2 DEF mailStep
<1>3. CASE UNCHANGED vars
  <2>1. TypeOK' /\ PlaceInv' /\ CallInv' /\ SentInv'
    BY <1>3 DEF vars, IInv, TypeOK, PlaceInv, Allocated, InBox, InHand, IsAck,
                CallInv, CallOK, SentInv, SentOK
  <2>2. PrmInv'
    BY <1>3 DEF vars, IInv, PrmInv, PrmFreedInTime, ReachablePrms, Allocated
  <2>3. QED
    BY <2>1, <2>2 DEF IInv
<1>4. QED
  BY <1>1, <1>2, <1>3, TaskStepPreserves DEF Next

THEOREM IInvHolds == Spec => []IInv
BY InitIInv, NextPreserves, PTL DEF Spec
-----------------------------------------------------------------------------
(* The handles, queues, program counters and calls keep to their types,    *)
(* whatever is sent: no queue of osa_msgq.c is ever over its length.       *)
THEOREM TypesHold == Spec => []TypeOK
BY IInvHolds, PTL DEF IInv

(* A message that is in at most one mailbox fills one slot there. *)
LEMMA SlotsCount ==
  ASSUME NEW box \in [Threads -> Seq(Handles)],
         \A u \in Threads : Len(box[u]) <= MaxLen /\ Distinct(box[u]),
         NEW h \in Handles, NEW t \in Threads,
         \A u \in Threads : u # t => h \notin Elems(box[u])
  PROVE  Cardinality(Slots(box, h)) = IF h \in Elems(box[t]) THEN 1 ELSE 0
<1>1. \A u \in Threads : \A i \in 1 .. MaxLen :
        <<u, i>> \in Slots(box, h) <=> i <= Len(box[u]) /\ box[u][i] = h
  BY DEF Slots
<1>2. \A x \in Slots(box, h) :
        \E u \in Threads, i \in 1 .. MaxLen : x = <<u, i>> /\ i <= Len(box[u]) /\ box[u][i] = h
  BY DEF Slots
<1>3. \A u \in Threads : Len(box[u]) \in Nat /\ MaxLen \in Nat
  BY LenProperties, MbxAssumption
<1>4. CASE h \in Elems(box[t])
  <2>1. PICK i \in 1 .. Len(box[t]) : box[t][i] = h
    BY <1>4 DEF Elems
  <2>2. <<t, i>> \in Slots(box, h)
    BY <1>1, <1>3, <2>1
  <2>3. ASSUME NEW x \in Slots(box, h)
        PROVE  x = <<t, i>>
    <3>1. PICK u \in Threads, j \in 1 .. MaxLen :
            x = <<u, j>> /\ j <= Len(box[u]) /\ box[u][j] = h
      BY <1>2
    <3>2. j \in 1 .. Len(box[u]) /\ h \in Elems(box[u])
      BY <1>3, <3>1 DEF Elems
    <3>3. u = t /\ j = i
      BY <2>1, <3>1, <3>2 DEF Distinct
    <3>4. QED
      BY <3>1, <3>3
  <2>4. Slots(box, h) = {<<t, i>>}
    BY <2>2, <2>3
  <2>5. QED
    BY <1>4, <2>4, FS_Singleton
<1>5. CASE h \notin Elems(box[t])
  <2>1. \A u \in Threads : h \notin Elems(box[u])
    BY <1>5
  <2>2. Slots(box, h) = {}
    BY <1>2, <1>3, <2>1 DEF Elems
  <2>3. QED
    BY <1>5, <2>2, FS_EmptySet
<1>6. QED
  BY <1>4, <1>5

(* Senders, receivers, flushes and broadcasts of any number of tasks free  *)
(* a handle in six places of osa_mbx.c: none is freed twice, used after    *)
(* it is freed, or lost.                                                   *)
THEOREM HandleOnceHolds == Spec => []HandleOnce
<1>1. IInv => HandleOnce
  <2> SUFFICES ASSUME IInv, NEW h \in Handles
               PROVE  Cardinality(Slots(rcvMbx, h)) + Cardinality(Slots(ackMbx, h))
                        + Cardinality(Holders(h)) = IF msg[h] = NoMsg THEN 0 ELSE 1
    BY DEF HandleOnce
  <2>1. TypeOK /\ PlaceInv
    BY DEF IInv
  <2>2. /\ rcvMbx \in [Threads -> Seq(Handles)] /\ ackMbx \in [Threads -> Seq(Handles)]
        /\ \A u \in Threads : Len(rcvMbx[u]) <= MaxLen /\ Distinct(rcvMbx[u])
        /\ \A u \in Threads : Len(ackMbx[u]) <= MaxLen /\ Distinct(ackMbx[u])
    BY <2>1, BoxTypes DEF TypeOK, PlaceInv
  <2>3. CASE msg[h] = NoMsg
    <3>1. \A t \in Threads : /\ h \notin Elems(rcvMbx[t]) /\ h \notin Elems(ackMbx[t])
                             /\ held[t] # h
      BY <2>3, FreeIsNowhere
    <3>2. Holders(h) = {}
      BY <3>1 DEF Holders
    <3>3. Slots(rcvMbx, h) = {} /\ Slots(ackMbx, h) = {}
      BY <3>1, <2>2, LenProperties DEF Slots, Elems
    <3>4. QED
      BY <2>3, <3>2, <3>3, FS_EmptySet
  <2>4. CASE msg[h] # NoMsg
    <3> DEFINE to   == msg[h].to
               from == msg[h].from
    <3>1. Allocated(h) /\ to \in Threads /\ from \in Threads
      BY <2>1, <2>4, MsgTypes DEF Allocated
    <3>2. /\ \A u \in Threads : u # to => h \notin Elems(rcvMbx[u]) /\ held[u] # h
          /\ \A u \in Threads : u # from => h \notin Elems(ackMbx[u])
      BY <2>1, OnePlace
    <3>3. /\ Cardinality(Slots(rcvMbx, h)) = IF InBox(h) THEN 1 ELSE 0
          /\ Cardinality(Slots(ackMbx, h)) = IF IsAck(h) THEN 1 ELSE 0
      BY <2>2, <3>1, <3>2, SlotsCount DEF InBox, IsAck
    <3>4. Cardinality(Holders(h)) = IF InHand(h) THEN 1 ELSE 0
      <4>1. CASE InHand(h)
        <5>1. Holders(h) = {to}
          BY <3>1, <3>2, <4>1 DEF Holders, InHand
        <5>2. QED
          BY <4>1, <5>1, FS_Singleton
      <4>2. CASE ~InHand(h)
        <5>1. Holders(h) = {}
          BY <3>2, <4>2 DEF Holders, InHand
        <5>2. QED
          BY <4>2, <5>1, FS_EmptySet
      <4>3. QED
        BY <4>1, <4>2
    <3>5. /\ InBox(h) \/ InHand(h) \/ IsAck(h)
          /\ ~(InBox(h) /\ InHand(h)) /\ ~(InBox(h) /\ IsAck(h)) /\ ~(InHand(h) /\ IsAck(h))
      BY <2>1, <3>1 DEF PlaceInv
    <3>6. QED
      BY <2>4, <3>3, <3>4, <3>5
  <2>5. QED
    BY <2>3, <2>4
<1>2. QED
  BY <1>1, IInvHolds, PTL

(* OSA_MBX_FREE_PRM: parameters are freed exactly when the last receiver   *)
(* has answered, whoever of receivers and sender that falls to.            *)
THEOREM PrmFreedInTimeHolds == Spec => []PrmFreedInTime
BY IInvHolds, PTL DEF IInv, PrmInv

(* OSA_msgqRecvMsg on the acknowledgements takes only those of the call,   *)
(* and a call leaves none behind.                                          *)
THEOREM AcksAwaitedHold == Spec => []AcksAwaited
<1>1. IInv => AcksAwaited
  <2> SUFFICES ASSUME IInv, NEW t \in Threads
               PROVE  /\ \A i \in 1 .. Len(ackMbx[t]) : ackMbx[t][i] \in sent[t]
                      /\ sent[t] # {} => tpc[t] \in {"send", "ack"}
    BY DEF AcksAwaited
  <2>1. \A h \in Elems(ackMbx[t]) : h \in sent[t]
    BY BoxTypes DEF IInv, PlaceInv, SentInv, SentOK
  <2>2. \A i \in 1 .. Len(ackMbx[t]) : ackMbx[t][i] \in sent[t]
    BY <2>1 DEF Elems
  <2>3. sent[t] # {} => call[t].waitAck = TRUE
    BY DEF IInv, SentInv, SentOK
  <2>4. QED
    BY <2>2, <2>3, NoCallIs DEF IInv, CallInv, CallOK
<1>2. QED
  BY <1>1, IInvHolds, PTL

(* A call has at most one message out to each task. *)
LEMMA SentFew ==
  ASSUME IInv, NEW t \in Threads
  PROVE  IsFiniteSet(sent[t]) /\ Cardinality(sent[t]) <= Cardinality(Tasks)
<1> DEFINE f == [h \in sent[t] |-> msg[h].to]
<1>1. TypeOK /\ SentOK(t) /\ sent[t] \subseteq Handles
  BY DEF IInv, TypeOK, SentInv
<1>2. \A h \in sent[t] : msg[h].to \in Tasks
  BY <1>1, MsgTypes DEF SentOK
<1>3. \A g, h \in sent[t] : msg[g].to = msg[h].to => g = h
  BY <1>1 DEF SentOK
<1>4. f \in Injection(sent[t], Tasks)
  BY <1>2, <1>3 DEF Injection, IsInjective
<1>5. QED
  BY <1>4, FS_Injection, MbxAssumption

(* While a message is to be answered, the sender's mailbox has room for    *)
(* the acknowledgement.                                                    *)
LEMMA AckHasRoom ==
  ASSUME IInv, NEW h \in Handles, Allocated(h), msg[h].waitAck = TRUE, ~IsAck(h)
  PROVE  Len(ackMbx[msg[h].from]) < MaxLen
<1> DEFINE from == msg[h].from
           acks == Elems(ackMbx[from])
<1>1. TypeOK /\ PlaceInv /\ SentInv /\ from \in Threads
  BY MsgTypes DEF IInv
<1>2. h \in sent[from] /\ h \notin acks /\ acks \subseteq sent[from]
  BY <1>1, BoxTypes DEF PlaceInv, SentInv, SentOK, IsAck
<1>3. IsFiniteSet(sent[from]) /\ Cardinality(sent[from]) <= Cardinality(Tasks)
  BY <1>1, SentFew
<1>4. /\ IsFiniteSet(sent[from] \ {h})
      /\ Cardinality(sent[from] \ {h}) = Cardinality(sent[from]) - 1
  BY <1>2, <1>3, FS_RemoveElement
<1>5. Cardinality(acks) <= Cardinality(sent[from] \ {h})
  BY <1>2, <1>4, FS_Subset
<1>6. Cardinality(acks) = Len(ackMbx[from])
  BY <1>1, BoxTypes, DistinctLen DEF PlaceInv
<1>7. /\ Cardinality(sent[from]) \in Nat /\ Cardinality(Tasks) \in Nat
      /\ Cardinality(Tasks) <= MaxLen /\ MaxLen \in Nat /\ Len(ackMbx[from]) \in Nat
  BY <1>1, <1>3, BoxTypes, LenProperties, FS_CardinalityType, MbxAssumption
<1>8. Len(ackMbx[from]) < MaxLen
  BY <1>3, <1>4, <1>5, <1>6, <1>7
<1>9. QED
  BY <1>8

(* OSA_msgqSendAck, called with OSA_TIMEOUT_FOREVER in a receiver's        *)
(* handler, finds room: no handler waits for the sender it answers.        *)
THEOREM AckNeverWaitsHolds == Spec => []AckNeverWaits
<1>1. IInv => AckNeverWaits
  <2> SUFFICES ASSUME IInv, NEW h \in Handles, msg[h] # NoMsg, msg[h].waitAck,
                      NEW t \in Tasks, held[t] = h
               PROVE  Len(ackMbx[msg[h].from]) < MaxLen
    BY DEF AckNeverWaits
  <2>1. TypeOK /\ PlaceInv /\ Allocated(h) /\ t \in Threads
    BY DEF IInv, Allocated, Threads
  <2>2. msg[h].waitAck = TRUE /\ msg[h].from \in Threads
    BY <2>1, MsgTypes
  <2>3. ~IsAck(h)
    BY <2>1, <2>2, OnePlace DEF IsAck
  <2>4. QED
    BY <2>1, <2>2, <2>3, AckHasRoom
<1>2. QED
  BY <1>1, IInvHolds, PTL
-----------------------------------------------------------------------------
(* A step shows nothing of the call of a thread. *)
SameCall(u) ==
  /\ Calling(u)' <=> Calling(u)
  /\ Calling(u) => Asked(u)' = Asked(u) /\ (Failed(u)' <=> Failed(u))
  /\ ~Calling(u) => retVal'[u] = retVal[u]

LEMMA Unseen ==
  ASSUME \A u \in Threads : SameCall(u)
  PROVE  UNCHANGED Call!vars
<1>1. [u \in Threads |-> Calling(u)]' = [u \in Threads |-> Calling(u)]
  BY DEF SameCall, Calling
<1>2. [u \in Threads |-> IF Calling(u) THEN Asked(u) ELSE {}]'
        = [u \in Threads |-> IF Calling(u) THEN Asked(u) ELSE {}]
  BY DEF SameCall
<1>3. [u \in Threads |-> Calling(u) /\ Failed(u)]' = [u \in Threads |-> Calling(u) /\ Failed(u)]
  BY DEF SameCall
<1>4. [u \in Threads |-> IF Calling(u) THEN None ELSE retVal[u]]'
        = [u \in Threads |-> IF Calling(u) THEN None ELSE retVal[u]]
  BY DEF SameCall
<1>5. QED
  BY <1>1, <1>2, <1>3, <1>4 DEF Call!vars

(* What a thread has out, and what of it has been acknowledged. *)
LEMMA AckedSent ==
  ASSUME IInv, NEW t \in Threads
  PROVE  /\ Acked(t) = Elems(ackMbx[t]) /\ Acked(t) \subseteq sent[t]
         /\ sent[t] \subseteq Handles
         /\ Asked(t) = Elems(call[t].to) \cup {msg[h].to : h \in sent[t] \ Acked(t)}
         /\ sent[t] # {} => Calling(t)
<1>1. Acked(t) = Elems(ackMbx[t])
  BY DEF Acked, Elems
<1>2. Acked(t) \subseteq sent[t]
  BY <1>1, BoxTypes DEF IInv, PlaceInv, SentInv, SentOK
<1>3. sent[t] # {} => call[t].waitAck = TRUE
  BY DEF IInv, SentInv, SentOK
<1>4. sent[t] # {} => Calling(t)
  BY <1>3, NoCallIs DEF IInv, CallInv, CallOK, Calling
<1>5. QED
  BY <1>1, <1>2, <1>4 DEF IInv, TypeOK, Asked, Elems

LEMMA LeftAlone ==
  ASSUME IInv, NEW u \in Threads,
         tpc'[u] \in {"send", "ack"} <=> tpc[u] \in {"send", "ack"},
         call'[u] = call[u], sent'[u] = sent[u], ackMbx'[u] = ackMbx[u],
         retVal'[u] = retVal[u], \A g \in sent[u] : msg'[g] = msg[g]
  PROVE  SameCall(u)
<1>1. Acked(u)' = Acked(u) /\ Acked(u) \subseteq sent[u]
  BY AckedSent DEF Acked
<1>2. Asked(u)' = Asked(u)
  BY <1>1 DEF Asked
<1>3. Failed(u)' <=> Failed(u)
  BY <1>1 DEF Failed
<1>4. QED
  BY <1>2, <1>3 DEF SameCall, Calling

(* A call with OSA_MBX_WAIT_ACK begins: all its receivers are asked. *)
LEMMA BeginIsCall ==
  ASSUME IInv, NEW t \in Threads, NEW to \in Seq(Tasks), NEW cmd \in Cmds,
         NEW prm \in FreePrms, NEW wait \in BOOLEAN,
         to # <<>>, begin(t, to, cmd, prm, wait)
  PROVE  Call!Next \/ UNCHANGED Call!vars
<1> DEFINE new == [to |-> to, cmd |-> cmd, prm |-> prm, waitAck |-> wait]
<1>a. TypeOK
  BY DEF IInv
<1>b. /\ tpc[t] \in {"idle", "run"}
      /\ call' = [call EXCEPT ![t] = new]
      /\ sent' = [sent EXCEPT ![t] = {}]
      /\ retVal' = [retVal EXCEPT ![t] = IF wait THEN "SOK" ELSE @]
      /\ tpc' = [tpc EXCEPT ![t] = "send"]
      /\ msg' = msg /\ ackMbx' = ackMbx
  BY DEF begin, goto
<1>c. ackMbx[t] = <<>> /\ ~Calling(t)
  BY <1>b, NoneToFlush DEF Calling
<1>d. \A u \in Threads : u # t => SameCall(u)
  BY <1>a, <1>b, LeftAlone DEF TypeOK
<1>e. /\ tpc'[t] = "send" /\ call'[t] = new /\ sent'[t] = {} /\ ackMbx'[t] = <<>>
      /\ retVal'[t] = IF wait THEN "SOK" ELSE retVal[t]
  BY <1>a, <1>b, <1>c DEF TypeOK
<1>1. CASE wait = FALSE
  <2>1. ~Calling(t)' /\ retVal'[t] = retVal[t]
    BY <1>1, <1>e DEF Calling
  <2>2. SameCall(t)
    BY <1>c, <2>1 DEF SameCall
  <2>3. QED
    BY <1>d, <2>2, Unseen
<1>2. CASE wait = TRUE
  <2>1. Calling(t)'
    BY <1>2, <1>e DEF Calling
  <2>2. Asked(t)' = Elems(to)
    BY <1>e DEF Asked, Elems
  <2>3. ~Failed(t)'
    <3>1. Acked(t)' = {}
      BY <1>e, ElemsEmpty DEF Acked, Elems
    <3>2. QED
      BY <1>2, <1>e, <3>1 DEF Failed
  <2>4. Elems(to) \in (SUBSET Threads) \ {{}}
    <3>1. Elems(to) \subseteq Tasks /\ Elems(to) # {}
      BY ElemsIn
    <3>2. QED
      BY <3>1 DEF Threads
  <2>5. Call!Call(t, Elems(to))
    <3>1. [u \in Threads |-> Calling(u)]' = [[u \in Threads |-> Calling(u)] EXCEPT ![t] = TRUE]
      BY <1>d, <2>1 DEF SameCall, Calling
    <3>2. [u \in Threads |-> IF Calling(u) THEN Asked(u) ELSE {}]'
            = [[u \in Threads |-> IF Calling(u) THEN Asked(u) ELSE {}] EXCEPT ![t] = Elems(to)]
      BY <1>d, <2>1, <2>2 DEF SameCall
    <3>3. [u \in Threads |-> IF Calling(u) THEN None ELSE retVal[u]]'
            = [[u \in Threads |-> IF Calling(u) THEN None ELSE retVal[u]] EXCEPT ![t] = None]
      BY <1>d, <2>1 DEF SameCall
    <3>4. [u \in Threads |-> Calling(u) /\ Failed(u)]'
            = [u \in Threads |-> Calling(u) /\ Failed(u)]
      BY <1>c, <1>d, <2>3 DEF SameCall
    <3>5. QED
      BY <1>c, <3>1, <3>2, <3>3, <3>4 DEF Call!Call, Call!None, None
  <2>6. QED
    BY <2>4, <2>5 DEF Call!Next
<1>3. QED
  BY <1>1, <1>2

(* A message sent: its receiver was asked before and is after. *)
LEMMA SendUnseen ==
  ASSUME IInv, NEW t \in Threads, sendNext(t)
  PROVE  UNCHANGED Call!vars
<1> DEFINE c == call[t]
           d == Head(c.to)
<1>a. TypeOK /\ SentInv
  BY DEF IInv
<1>b. tpc[t] = "send" /\ c \in Calls /\ c.to \in Seq(Tasks) /\ c.to # <<>> /\ Distinct(c.to)
      /\ c.waitAck \in BOOLEAN
  BY <1>a DEF sendNext, TypeOK, Calls, IInv, CallInv, CallOK
<1>c. PICK h \in Handles :
        /\ msg[h] = NoMsg
        /\ msg' = [msg EXCEPT ![h] =
             [to |-> d, from |-> t, cmd |-> c.cmd, prm |-> c.prm,
              waitAck |-> c.waitAck, status |-> "SOK"]]
        /\ sent' = [sent EXCEPT ![t] = IF c.waitAck THEN @ \cup {h} ELSE @]
        /\ call' = [call EXCEPT ![t] =
             IF Len(c.to) = 1 /\ ~c.waitAck THEN NoCall ELSE [c EXCEPT !.to = Tail(@)]]
        /\ tpc' = [tpc EXCEPT ![t] = IF Len(c.to) > 1 THEN "send"
                                     ELSE IF c.waitAck THEN "ack" ELSE Returned(t)]
        /\ ackMbx' = ackMbx /\ retVal' = retVal
  BY DEF sendNext, goto
<1>d. \A u \in Threads : h \notin sent[u]
  BY <1>c, FreeIsNowhere
<1>e. /\ msg'[h].to = d
      /\ \A g \in Handles : g # h => msg'[g] = msg[g]
  BY <1>a, <1>c DEF TypeOK
<1>1. ASSUME NEW u \in Threads, u # t
      PROVE  SameCall(u)
  <2>1. /\ tpc'[u] = tpc[u] /\ call'[u] = call[u] /\ sent'[u] = sent[u]
        /\ ackMbx'[u] = ackMbx[u] /\ retVal'[u] = retVal[u]
    BY <1>a, <1>c, <1>1 DEF TypeOK
  <2>2. \A g \in sent[u] : msg'[g] = msg[g]
    BY <1>a, <1>d, <1>e DEF TypeOK
  <2>3. QED
    BY <2>1, <2>2, LeftAlone
<1>2. CASE c.waitAck = FALSE
  <2>1. ~Calling(t) /\ ~Calling(t)'
    <3>1. call'[t].waitAck = FALSE
      BY <1>a, <1>b, <1>c, <1>2, NoCallIs DEF TypeOK, Calls
    <3>2. QED
      BY <1>2, <3>1 DEF Calling
  <2>2. SameCall(t)
    BY <1>c, <2>1 DEF SameCall
  <2>3. QED
    BY <1>1, <2>2, Unseen
<1>3. CASE c.waitAck = TRUE
  <2>1. /\ tpc'[t] \in {"send", "ack"}
        /\ call'[t] = [c EXCEPT !.to = Tail(@)]
        /\ sent'[t] = sent[t] \cup {h} /\ ackMbx'[t] = ackMbx[t]
    BY <1>a, <1>c, <1>3 DEF TypeOK
  <2>2. call'[t].waitAck = TRUE /\ call'[t].to = Tail(c.to)
    BY <1>b, <1>3, <2>1 DEF Calls
  <2>3. Calling(t) /\ Calling(t)'
    BY <1>b, <1>3, <2>1, <2>2 DEF Calling
  <2>4. Acked(t)' = Acked(t) /\ Acked(t) \subseteq sent[t] /\ sent[t] \subseteq Handles
        /\ h \notin Acked(t)
    BY <1>d, <2>1, AckedSent DEF Acked
  <2>5. \A g \in sent[t] : msg'[g] = msg[g]
    BY <1>d, <1>e, <2>4
  <2>6. d \in Elems(c.to) /\ Elems(Tail(c.to)) = Elems(c.to) \ {d}
    BY <1>b, ElemsTail
  <2>7. Asked(t)' = Asked(t)
    <3>1. Asked(t)' = Elems(Tail(c.to)) \cup {msg'[g].to : g \in (sent[t] \cup {h}) \ Acked(t)}
      BY <2>1, <2>2, <2>4 DEF Asked, Elems
    <3>2. {msg'[g].to : g \in (sent[t] \cup {h}) \ Acked(t)}
            = {msg[g].to : g \in sent[t] \ Acked(t)} \cup {d}
      BY <1>d, <1>e, <2>4, <2>5
    <3>3. QED
      BY <2>6, <3>1, <3>2, AckedSent
  <2>8. Failed(t)' <=> Failed(t)
    BY <1>c, <2>4, <2>5 DEF Failed
  <2>9. SameCall(t)
    BY <2>3, <2>7, <2>8 DEF SameCall
  <2>10. QED
    BY <1>1, <2>9, Unseen
<1>4. QED
  BY <1>b, <1>2, <1>3

(* An acknowledgement taken: nothing new but for the last, which returns.  *)
LEMMA RecvAckReturns ==
  ASSUME IInv, NEW t \in Threads, recvAck(t), NEW h \in Handles, h = Head(ackMbx[t])
  PROVE  Call!Return(t) \/ UNCHANGED Call!vars
<1>a. TypeOK /\ SentInv
  BY DEF IInv
<1>b. tpc[t] = "ack" /\ ackMbx[t] # <<>> /\ h \in Elems(ackMbx[t]) /\ h \in sent[t]
  BY RecvAckIsOwn DEF recvAck
<1>c. /\ ackMbx' = [ackMbx EXCEPT ![t] = Tail(@)]
      /\ sent' = [sent EXCEPT ![t] = @ \ {h}]
      /\ retVal' = [retVal EXCEPT ![t] = IF @ = "SOK" THEN msg[h].status ELSE @]
      /\ msg' = [msg EXCEPT ![h] = NoMsg]
      /\ sent[t] = {h} => /\ call' = [call EXCEPT ![t] = NoCall]
                          /\ tpc' = [tpc EXCEPT ![t] = Returned(t)]
      /\ sent[t] # {h} => call' = call /\ tpc' = tpc
  BY <1>b DEF recvAck, acknowledged, goto
<1>d. /\ Calling(t) /\ Acked(t) = Elems(ackMbx[t]) /\ Acked(t) \subseteq sent[t]
      /\ sent[t] \subseteq Handles
      /\ call[t].to = <<>> /\ retVal[t] \in {"SOK", "EFAIL"}
  BY <1>b, AckedSent DEF IInv, CallInv, CallOK
<1>e. \A u \in Threads : u # t => h \notin sent[u]
  BY <1>a, <1>b DEF SentInv, SentOK
<1>f. \A g \in Handles : g # h => msg'[g] = msg[g]
  BY <1>a, <1>c DEF TypeOK
<1>g. Acked(t)' = Acked(t) \ {h}
  <2>1. ackMbx[t] \in Seq(Handles) /\ Distinct(ackMbx[t])
    BY <1>a, BoxTypes DEF IInv, PlaceInv
  <2>2. ackMbx'[t] = Tail(ackMbx[t])
    BY <1>a, <1>c DEF TypeOK
  <2>3. Elems(Tail(ackMbx[t])) = Elems(ackMbx[t]) \ {h}
    BY <1>b, <2>1, ElemsTail
  <2>4. QED
    BY <1>d, <2>2, <2>3 DEF Acked, Elems
<1>h. /\ msg[h].status \in {"SOK", "EFAIL"}
      /\ sent'[t] = sent[t] \ {h}
      /\ retVal'[t] = IF retVal[t] = "SOK" THEN msg[h].status ELSE retVal[t]
  BY <1>a, <1>b, <1>c, MsgTypes DEF TypeOK, SentInv, SentOK
<1>1. ASSUME NEW u \in Threads, u # t
      PROVE  SameCall(u)
  <2>1. /\ tpc'[u] = tpc[u] /\ call'[u] = call[u] /\ sent'[u] = sent[u]
        /\ ackMbx'[u] = ackMbx[u] /\ retVal'[u] = retVal[u]
    BY <1>a, <1>c, <1>1 DEF TypeOK
  <2>2. \A g \in sent[u] : msg'[g] = msg[g]
    BY <1>a, <1>e, <1>f, <1>1 DEF TypeOK
  <2>3. QED
    BY <2>1, <2>2, LeftAlone
<1>2. CASE sent[t] = {h}
  <2>1. ~Calling(t)'
    BY <1>a, <1>c, <1>2 DEF TypeOK, Calling, Returned
  <2>2. Acked(t) = {h} /\ Asked(t) = {}
    <3>1. Acked(t) = {h} /\ sent[t] \ Acked(t) = {}
      BY <1>b, <1>d, <1>2
    <3>2. Elems(call[t].to) = {}
      BY <1>d, ElemsEmpty
    <3>3. QED
      BY <3>1, <3>2, AckedSent
  <2>3. retVal'[t] = IF Failed(t) THEN "EFAIL" ELSE "SOK"
    BY <1>d, <1>h, <2>2 DEF Failed
  <2>4. [u \in Threads |-> Calling(u)]' = [[u \in Threads |-> Calling(u)] EXCEPT ![t] = FALSE]
    BY <1>1, <2>1 DEF SameCall, Calling
  <2>5. [u \in Threads |-> IF Calling(u) THEN Asked(u) ELSE {}]'
          = [u \in Threads |-> IF Calling(u) THEN Asked(u) ELSE {}]
    BY <1>1, <2>1, <2>2 DEF SameCall
  <2>6. [u \in Threads |-> IF Calling(u) THEN None ELSE retVal[u]]'
          = [[u \in Threads |-> IF Calling(u) THEN None ELSE retVal[u]]
               EXCEPT ![t] = IF Failed(t) THEN "EFAIL" ELSE "SOK"]
    BY <1>1, <2>1, <2>3 DEF SameCall
  <2>7. [u \in Threads |-> Calling(u) /\ Failed(u)]'
          = [[u \in Threads |-> Calling(u) /\ Failed(u)] EXCEPT ![t] = FALSE]
    BY <1>1, <2>1 DEF SameCall
  <2>8. Call!Return(t)
    BY <1>d, <2>2, <2>4, <2>5, <2>6, <2>7 DEF Call!Return
  <2>9. QED
    BY <2>8
<1>3. CASE sent[t] # {h}
  <2>1. Calling(t)' <=> Calling(t)
    BY <1>c, <1>3 DEF Calling
  <2>2. sent'[t] \ Acked(t)' = sent[t] \ Acked(t)
    BY <1>b, <1>d, <1>g, <1>h
  <2>3. Asked(t)' = Asked(t)
    BY <1>b, <1>c, <1>d, <1>f, <1>3, <2>2 DEF Asked
  <2>4. Failed(t)' <=> Failed(t)
    BY <1>b, <1>d, <1>f, <1>g, <1>h DEF Failed
  <2>5. SameCall(t)
    BY <1>d, <2>1, <2>3, <2>4 DEF SameCall
  <2>6. QED
    BY <1>1, <2>5, Unseen
<1>4. QED
  BY <1>2, <1>3

(* An answer: the sender has one fewer to wait for, and knows of a failure. *)
LEMMA AckIsAnswer ==
  ASSUME IInv, NEW h \in Handles, Allocated(h), ~IsAck(h), NEW status \in {"SOK", "EFAIL"},
         AckOrFreeMsg(h, status),
         \A u \in Threads : tpc'[u] \in {"send", "ack"} <=> tpc[u] \in {"send", "ack"},
         UNCHANGED <<call, sent, retVal>>
  PROVE  Call!Next \/ UNCHANGED Call!vars
<1>a. /\ TypeOK /\ SentInv
      /\ msg[h] \in Msgs /\ msg[h].to \in Threads /\ msg[h].from \in Threads
      /\ msg[h].waitAck \in BOOLEAN
  BY MsgTypes DEF IInv
<1>1. CASE msg[h].waitAck = FALSE
  <2>1. /\ ackMbx' = ackMbx
        /\ \A g \in Handles : g # h => msg'[g] = msg[g]
    BY <1>a, <1>1 DEF AckOrFreeMsg, FreeMsg, TypeOK
  <2>2. \A u \in Threads : h \notin sent[u] /\ sent[u] \subseteq Handles
    BY <1>a, <1>1 DEF SentInv, SentOK, TypeOK
  <2>3. \A u \in Threads : SameCall(u)
    BY <2>1, <2>2, LeftAlone
  <2>4. QED
    BY <2>3, Unseen
<1>2. CASE msg[h].waitAck = TRUE
  <2>a. PICK t \in Threads : t = msg[h].from
    BY <1>a
  <2>b. PICK d \in Threads : d = msg[h].to
    BY <1>a
  <2>c. /\ msg' = [msg EXCEPT ![h].status = status]
        /\ ackMbx' = [ackMbx EXCEPT ![t] = Append(@, h)]
    BY <1>2, <2>a DEF AckOrFreeMsg
  <2>d. /\ h \in sent[t] /\ sent[t] \subseteq Handles
        /\ \A u \in Threads : u # t => h \notin sent[u]
        /\ \A g \in sent[t] : g # h => msg[g].to # d
        /\ d \notin Elems(call[t].to)
    BY <1>a, <1>2, <2>a, <2>b DEF SentInv, SentOK, TypeOK
  <2>e. /\ Calling(t) /\ Acked(t) = Elems(ackMbx[t]) /\ Acked(t) \subseteq sent[t]
        /\ h \notin Acked(t)
    BY <2>a, <2>d, AckedSent DEF IsAck
  <2>f. /\ \A g \in Handles : g # h => msg'[g] = msg[g]
        /\ \A g \in Handles : msg'[g].to = msg[g].to \/ g # h
        /\ msg'[h].to = d /\ msg'[h].status = status
    <3>1. /\ msg'[h] = [msg[h] EXCEPT !.status = status]
          /\ \A g \in Handles : g # h => msg'[g] = msg[g]
      BY <1>a, <2>c DEF TypeOK
    <3>2. QED
      BY <1>a, <2>b, <3>1 DEF Msgs
  <2>g. Acked(t)' = Acked(t) \cup {h}
    <3>1. ackMbx'[t] = Append(ackMbx[t], h) /\ ackMbx[t] \in Seq(Handles)
      BY <1>a, <2>c, BoxTypes DEF TypeOK
    <3>2. Elems(Append(ackMbx[t], h)) = Elems(ackMbx[t]) \cup {h}
      BY <3>1, ElemsAppend
    <3>3. QED
      BY <2>e, <3>1, <3>2 DEF Acked, Elems
  <2>1. ASSUME NEW u \in Threads, u # t
        PROVE  SameCall(u)
    <3>1. ackMbx'[u] = ackMbx[u]
      BY <1>a, <2>c, <2>1 DEF TypeOK
    <3>2. \A g \in sent[u] : msg'[g] = msg[g]
      BY <1>a, <2>d, <2>f, <2>1 DEF TypeOK
    <3>3. QED
      BY <3>1, <3>2, LeftAlone
  <2>2. Calling(t)'
    BY <2>e DEF Calling
  <2>3. d \in Asked(t)
    BY <2>b, <2>d, <2>e, AckedSent
  <2>4. Asked(t)' = Asked(t) \ {d}
    <3>1. Asked(t)' = Elems(call[t].to) \cup {msg'[g].to : g \in sent[t] \ (Acked(t) \cup {h})}
      BY <2>g DEF Asked, Elems
    <3>2. {msg'[g].to : g \in sent[t] \ (Acked(t) \cup {h})}
            = {msg[g].to : g \in sent[t] \ Acked(t)} \ {d}
      <4>1. \A g \in sent[t] : g # h => msg'[g].to = msg[g].to /\ msg[g].to # d
        BY <2>d, <2>f
      <4>2. h \in sent[t] \ Acked(t) /\ msg[h].to = d
        BY <2>b, <2>d, <2>e
      <4>3. QED
        BY <4>1, <4>2
    <3>3. QED
      BY <2>d, <3>1, <3>2, AckedSent
  <2>5. Failed(t)' <=> Failed(t) \/ status = "EFAIL"
    <3>1. \A g \in Acked(t) : msg'[g] = msg[g]
      BY <2>d, <2>e, <2>f
    <3>2. QED
      BY <2>f, <2>g, <3>1 DEF Failed
  <2>6. [u \in Threads |-> Calling(u)]' = [u \in Threads |-> Calling(u)]
    BY <2>1, <2>2, <2>e DEF SameCall, Calling
  <2>7. [u \in Threads |-> IF Calling(u) THEN Asked(u) ELSE {}]'
          = [[u \in Threads |-> IF Calling(u) THEN Asked(u) ELSE {}]
               EXCEPT ![t] = @ \ {d}]
    BY <2>1, <2>2, <2>4, <2>e DEF SameCall
  <2>8. [u \in Threads |-> Calling(u) /\ Failed(u)]'
          = [[u \in Threads |-> Calling(u) /\ Failed(u)]
               EXCEPT ![t] = @ \/ status = "EFAIL"]
    BY <2>1, <2>2, <2>5, <2>e DEF SameCall
  <2>9. [u \in Threads |-> IF Calling(u) THEN None ELSE retVal[u]]'
          = [u \in Threads |-> IF Calling(u) THEN None ELSE retVal[u]]
    BY <2>1, <2>2, <2>e DEF SameCall
  <2>10. Call!Answer(d, t, status)
    BY <2>3, <2>6, <2>7, <2>8, <2>9, <2>e DEF Call!Answer
  <2>11. QED
    BY <2>10 DEF Call!Next
<1>3. QED
  BY <1>a, <1>1, <1>2

(* The steps of a handler that answer nothing. *)
LEMMA NoAnswerUnseen ==
  ASSUME IInv, msg' = msg, ackMbx' = ackMbx,
         \A u \in Threads : tpc'[u] \in {"send", "ack"} <=> tpc[u] \in {"send", "ack"},
         UNCHANGED <<call, sent, retVal>>
  PROVE  UNCHANGED Call!vars
BY LeftAlone, Unseen

(* A call with OSA_MBX_WAIT_ACK returns when everyone it was sent to has   *)
(* answered, each once, with the failure of any of them: osa_mbx.c         *)
(* implements Rpc, whatever handlers do with their own mailboxes.          *)
THEOREM CallsAnswered == Spec => RpcSpec
<1>1. Init => Call!Init
  <2> SUFFICES ASSUME Init PROVE Call!Init
    OBVIOUS
  <2>1. \A t \in Threads : ~Calling(t) /\ retVal[t] = None
    BY DEF Init, Calling
  <2>2. [t \in Threads |-> Calling(t)] = [t \in Threads |-> FALSE]
    BY DEF Init, Calling
  <2>3. [t \in Threads |-> Calling(t) /\ Failed(t)] = [t \in Threads |-> FALSE]
    BY <2>1
  <2>4. QED
    BY <2>1, <2>2, <2>3 DEF Call!Init, Call!None, None
<1>2. IInv /\ [Next]_vars => [Call!Next]_Call!vars
  <2> SUFFICES ASSUME IInv, [Next]_vars PROVE Call!Next \/ UNCHANGED Call!vars
    OBVIOUS
  <2>1. ASSUME NEW t \in Threads, SendMsg(t) \/ BroadcastMsg(t)
        PROVE  Call!Next \/ UNCHANGED Call!vars
    <3>1. PICK to \in Seq(Tasks), cmd \in Cmds, prm \in FreePrms, wait \in BOOLEAN :
            to # <<>> /\ begin(t, to, cmd, prm, wait)
      BY <2>1, CallBegins
    <3>2. QED
      BY <3>1, BeginIsCall
  <2>2. ASSUME NEW t \in Threads, sendNext(t)
        PROVE  UNCHANGED Call!vars
    BY <2>2, SendUnseen
  <2>3. ASSUME NEW t \in Threads, recvAck(t)
        PROVE  Call!Next \/ UNCHANGED Call!vars
    <3>1. PICK h \in Handles : h = Head(ackMbx[t])
      BY <2>3, RecvAckIsOwn DEF recvAck
    <3>2. QED
      BY <2>3, <3>1, RecvAckReturns DEF Call!Next
  <2>4. ASSUME NEW t \in Tasks, taskStep(t)
        PROVE  Call!Next \/ UNCHANGED Call!vars
    <3>a. TypeOK /\ PlaceInv /\ t \in Threads
      BY DEF IInv, Threads
    <3>b. UNCHANGED <<call, sent, retVal>>
      BY <2>4 DEF taskStep, receive, answer, leave, flush, flushAck, waitCmd
    <3>c. tpc[t] \notin {"send", "ack"} /\ tpc'[t] \notin {"send", "ack"}
          /\ \A u \in Threads : u # t => tpc'[u] = tpc[u]
      BY <2>4, <3>a DEF taskStep, receive, answer, leave, flush, flushAck, waitCmd, goto, TypeOK
    <3>d. \A u \in Threads : tpc'[u] \in {"send", "ack"} <=> tpc[u] \in {"send", "ack"}
      BY <3>c
    <3>e. ackMbx[t] = <<>>
      BY <3>a, <3>c, NoneToFlush
    <3>f. ASSUME NEW h, h = Head(rcvMbx[t]), rcvMbx[t] # <<>>, AckOrFreeMsg(h, "SOK")
          PROVE  Call!Next \/ UNCHANGED Call!vars
      <4>1. h \in Handles /\ h \in Elems(rcvMbx[t])
        BY <3>a, <3>f, BoxTypes, ElemsTail
      <4>2. Allocated(h) /\ ~IsAck(h)
        BY <3>a, <4>1, OnePlace, MsgTypes DEF IsAck
      <4>3. QED
        BY <3>b, <3>d, <3>f, <4>1, <4>2, AckIsAnswer
    <3>1. CASE receive(t) \/ leave(t)
      BY <3>1, <3>b, <3>d, NoAnswerUnseen DEF receive, leave, heap
    <3>2. CASE answer(t)
      <4>1. PICK h \in Handles : h = held[t]
        BY <3>2, <3>a DEF answer, IInv, CallInv, CallOK, TypeOK
      <4>2. PICK status \in {"SOK", "EFAIL"} : AckOrFreeMsg(h, status)
        BY <3>2, <4>1 DEF answer
      <4>3. Allocated(h) /\ ~IsAck(h)
        BY <3>a, <4>1, OnePlace, MsgTypes DEF IsAck
      <4>4. QED
        BY <3>b, <3>d, <4>2, <4>3, AckIsAnswer
    <3>3. CASE flush(t)
      <4>1. CASE rcvMbx[t] = <<>>
        BY <3>3, <3>b, <3>d, <4>1, NoAnswerUnseen DEF flush, heap
      <4>2. CASE rcvMbx[t] # <<>>
        BY <3>3, <3>f, <4>2 DEF flush
      <4>3. QED
        BY <4>1, <4>2
    <3>4. CASE flushAck(t)
      BY <3>4, <3>b, <3>d, <3>e, NoAnswerUnseen DEF flushAck, heap
    <3>5. ASSUME NEW cmd \in Cmds, waitCmd(t, cmd)
          PROVE  Call!Next \/ UNCHANGED Call!vars
      <4>1. rcvMbx[t] # <<>>
            /\ \/ AckOrFreeMsg(Head(rcvMbx[t]), "SOK")
               \/ msg' = msg /\ ackMbx' = ackMbx
        BY <3>5 DEF waitCmd, heap
      <4>2. QED
        BY <3>b, <3>d, <3>f, <4>1, NoAnswerUnseen
    <3>6. QED
      BY <2>4, <3>1, <3>2, <3>3, <3>4, <3>5 DEF taskStep
  <2>5. CASE UNCHANGED vars
    BY <2>5, NoAnswerUnseen DEF vars
  <2>6. QED
    BY <2>1, <2>2, <2>3, <2>4, <2>5 DEF Next, mailStep
<1>3. QED
  BY <1>1, <1>2, IInvHolds, PTL DEF Spec, RpcSpec, Call!Spec
=============================================================================
