-------------------------------- MODULE Fifo --------------------------------
(***************************************************************************)
(* What a bounded queue promises its callers: every operation takes effect *)
(* at one moment, values leave in the order they came, none is lost,       *)
(* repeated or made up, and only a full or an empty queue turns a caller   *)
(* away.  result is the operation completed last.                          *)
(***************************************************************************)
EXTENDS Integers, Sequences

CONSTANTS Threads, Values, NoValue, MaxLen

VARIABLES fifo, result

SOK   == 0
EFAIL == -1

Outcome(op, t, status, v) ==
  [op |-> op, by |-> t, status |-> status, value |-> v]

Init ==
  /\ fifo = <<>>
  /\ result = Outcome("create", NoValue, SOK, NoValue)

Put(t, v) ==
  /\ Len(fifo) < MaxLen
  /\ fifo' = Append(fifo, v)
  /\ result' = Outcome("put", t, SOK, v)

PutRefused(t, v) ==
  /\ Len(fifo) = MaxLen
  /\ result' = Outcome("put", t, EFAIL, v)
  /\ UNCHANGED fifo

Get(t) ==
  /\ fifo # <<>>
  /\ fifo' = Tail(fifo)
  /\ result' = Outcome("get", t, SOK, Head(fifo))

GetRefused(t) ==
  /\ fifo = <<>>
  /\ result' = Outcome("get", t, EFAIL, NoValue)
  /\ UNCHANGED fifo

(* Looking at the head and at the length changes nothing; Peek's status is *)
(* a failure even when it has found a value.                               *)
Peek(t) ==
  /\ result' = Outcome("peek", t, EFAIL, IF fifo = <<>> THEN NoValue ELSE Head(fifo))
  /\ UNCHANGED fifo

Count(t) ==
  /\ result' = Outcome("count", t, Len(fifo), NoValue)
  /\ UNCHANGED fifo

Next ==
  \E t \in Threads :
    \/ \E v \in Values : Put(t, v) \/ PutRefused(t, v)
    \/ Get(t) \/ GetRefused(t) \/ Peek(t) \/ Count(t)

Spec == Init /\ [][Next]_<<fifo, result>>
=============================================================================
