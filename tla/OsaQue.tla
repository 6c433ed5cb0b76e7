------------------------------- MODULE OsaQue -------------------------------
(***************************************************************************)
(* The blocking queue of framework/osa/src/osa_que.c: a ring of MaxLen     *)
(* places, a mutex, and a condition variable for each direction.  Whatever *)
(* a call does between taking the mutex and giving it up (at its end, or   *)
(* to wait) is one step.  osa_msgq.c is the same ring over pointers.       *)
(***************************************************************************)
EXTENDS Integers, FiniteSets

CONSTANTS
  Threads,   \* the callers
  Values,    \* what they put
  NoValue,   \* what malloc left in the ring, and a value not returned
  MaxLen     \* hndl->len

ASSUME QueAssumption ==
  /\ IsFiniteSet(Threads) /\ Threads # {}
  /\ NoValue \notin Values
  /\ MaxLen \in Nat \ {0}

VARIABLES
  curRd, curWr, count,   \* of the handle
  queue,                 \* of the handle, indexed from 0
  pc,        \* where each caller is
  value,     \* its argument of that name, in OSA_quePut
  forever,   \* its timeout argument is not OSA_TIMEOUT_NONE
  result     \* the operation completed last

ringVars == <<curRd, curWr, count, queue>>
callVars == <<pc, value, forever>>
vars == <<ringVars, callVars, result>>

SOK   == 0
EFAIL == -1

Outcome(op, t, status, v) ==
  [op |-> op, by |-> t, status |-> status, value |-> v]

Places == 0 .. MaxLen - 1

RingOK ==
  /\ curRd \in Places
  /\ curWr \in Places
  /\ count \in 0 .. MaxLen
  /\ queue \in [Places -> Values \cup {NoValue}]

CallsOK ==
  /\ pc \in [Threads -> {"idle", "put", "get", "waitWr", "waitRd"}]
  /\ value \in [Threads -> Values \cup {NoValue}]
  /\ forever \in [Threads -> BOOLEAN]

TypeOK == RingOK /\ CallsOK

(* OSA_queCreate. *)
Init ==
  /\ curRd = 0
  /\ curWr = 0
  /\ count = 0
  /\ queue = [i \in Places |-> NoValue]
  /\ pc = [t \in Threads |-> "idle"]
  /\ value = [t \in Threads |-> NoValue]
  /\ forever = [t \in Threads |-> FALSE]
  /\ result = Outcome("create", NoValue, SOK, NoValue)
-----------------------------------------------------------------------------
(* The callers at a place. *)
At(place) == {t \in Threads : pc[t] = place}

(* pthread_cond_signal by t, which then returns: one of those waiting, if  *)
(* there is one, goes to take the mutex again and to test again.           *)
signalAndReturn(t, waiting, again) ==
  \/ /\ At(waiting) = {}
     /\ pc' = [pc EXCEPT ![t] = "idle"]
  \/ \E w \in At(waiting) : pc' = [pc EXCEPT ![t] = "idle", ![w] = again]

callPut(t, v, f) ==
  /\ pc[t] = "idle"
  /\ pc' = [pc EXCEPT ![t] = "put"]
  /\ value' = [value EXCEPT ![t] = v]
  /\ forever' = [forever EXCEPT ![t] = f]
  /\ UNCHANGED <<ringVars, result>>

callGet(t, f) ==
  /\ pc[t] = "idle"
  /\ pc' = [pc EXCEPT ![t] = "get"]
  /\ forever' = [forever EXCEPT ![t] = f]
  /\ UNCHANGED <<ringVars, value, result>>

(* Mutants: curWr without the modulo; a put that signals the writers. *)
store_noWrap(t) ==
  /\ pc[t] = "put"
  /\ count < MaxLen
  /\ queue' = [queue EXCEPT ![curWr] = value[t]]
  /\ curWr' = curWr + 1
  /\ count' = count + 1
  /\ signalAndReturn(t, "waitRd", "get")
  /\ value' = [value EXCEPT ![t] = NoValue]
  /\ result' = Outcome("put", t, SOK, value[t])
  /\ UNCHANGED <<curRd, forever>>

store_signalsWriters(t) ==
  /\ pc[t] = "put"
  /\ count < MaxLen
  /\ queue' = [queue EXCEPT ![curWr] = value[t]]
  /\ curWr' = (curWr + 1) % MaxLen
  /\ count' = count + 1
  /\ signalAndReturn(t, "waitWr", "put")
  /\ value' = [value EXCEPT ![t] = NoValue]
  /\ result' = Outcome("put", t, SOK, value[t])
  /\ UNCHANGED <<curRd, forever>>

(* One turn of the loop of OSA_quePut. *)
store(t) ==
  /\ pc[t] = "put"
  /\ count < MaxLen
  /\ queue' = [queue EXCEPT ![curWr] = value[t]]
  /\ curWr' = (curWr + 1) % MaxLen
  /\ count' = count + 1
  /\ signalAndReturn(t, "waitRd", "get")
  /\ value' = [value EXCEPT ![t] = NoValue]
  /\ result' = Outcome("put", t, SOK, value[t])
  /\ UNCHANGED <<curRd, forever>>

refusePut(t) ==
  /\ pc[t] = "put"
  /\ ~(count < MaxLen)
  /\ ~forever[t]
  /\ pc' = [pc EXCEPT ![t] = "idle"]
  /\ value' = [value EXCEPT ![t] = NoValue]
  /\ result' = Outcome("put", t, EFAIL, value[t])
  /\ UNCHANGED <<ringVars, forever>>

waitPut(t) ==
  /\ pc[t] = "put"
  /\ ~(count < MaxLen)
  /\ forever[t]
  /\ pc' = [pc EXCEPT ![t] = "waitWr"]
  /\ UNCHANGED <<ringVars, value, forever, result>>

(* Mutant: a get of the place put last. *)
fetch_newest(t) ==
  /\ pc[t] = "get"
  /\ count > 0
  /\ result' = Outcome("get", t, SOK, queue[(curRd + count - 1) % MaxLen])
  /\ curRd' = (curRd + 1) % MaxLen
  /\ count' = count - 1
  /\ signalAndReturn(t, "waitWr", "put")
  /\ UNCHANGED <<curWr, queue, value, forever>>

(* One turn of the loop of OSA_queGet. *)
fetch(t) ==
  /\ pc[t] = "get"
  /\ count > 0
  /\ result' = Outcome("get", t, SOK, queue[curRd])
  /\ curRd' = (curRd + 1) % MaxLen
  /\ count' = count - 1
  /\ signalAndReturn(t, "waitWr", "put")
  /\ UNCHANGED <<curWr, queue, value, forever>>

refuseGet(t) ==
  /\ pc[t] = "get"
  /\ ~(count > 0)
  /\ ~forever[t]
  /\ pc' = [pc EXCEPT ![t] = "idle"]
  /\ result' = Outcome("get", t, EFAIL, NoValue)
  /\ UNCHANGED <<ringVars, value, forever>>

waitGet(t) ==
  /\ pc[t] = "get"
  /\ ~(count > 0)
  /\ forever[t]
  /\ pc' = [pc EXCEPT ![t] = "waitRd"]
  /\ UNCHANGED <<ringVars, value, forever, result>>

(* pthread_cond_wait may also return for no reason. *)
spurious(t) ==
  /\ \/ pc[t] = "waitWr" /\ pc' = [pc EXCEPT ![t] = "put"]
     \/ pc[t] = "waitRd" /\ pc' = [pc EXCEPT ![t] = "get"]
  /\ UNCHANGED <<ringVars, value, forever, result>>

(* OSA_quePeek: its status is never set to OSA_SOK. *)
quePeek(t) ==
  /\ pc[t] = "idle"
  /\ result' = Outcome("peek", t, EFAIL, IF count > 0 THEN queue[curRd] ELSE NoValue)
  /\ UNCHANGED <<ringVars, callVars>>

queGetQueuedCount(t) ==
  /\ pc[t] = "idle"
  /\ result' = Outcome("count", t, count, NoValue)
  /\ UNCHANGED <<ringVars, callVars>>

quePut(t) == store(t) \/ refusePut(t) \/ waitPut(t)
queGet(t) == fetch(t) \/ refuseGet(t) \/ waitGet(t)

call(t) ==
  \/ \E f \in BOOLEAN : callGet(t, f) \/ \E v \in Values : callPut(t, v, f)
  \/ quePeek(t)
  \/ queGetQueuedCount(t)

Next == \E t \in Threads : call(t) \/ quePut(t) \/ queGet(t) \/ spurious(t)

Spec == Init /\ [][Next]_vars
-----------------------------------------------------------------------------
(* No lost wake-up: while readers sleep, every value in the ring has a     *)
(* reader of its own on its way to fetch it, and while writers sleep,      *)
(* every free place has a writer.  One signal for each put and each get is *)
(* enough, although the one woken may find that another caller came first. *)
NoLostWakeup ==
  /\ At("waitRd") # {} => count <= Cardinality(At("get"))
  /\ At("waitWr") # {} => MaxLen - count <= Cardinality(At("put"))

(* The callers cannot all be asleep unless all of them read from an empty  *)
(* queue or all of them write to a full one.                               *)
AllAsleep ==
  Threads = At("waitRd") \cup At("waitWr") =>
    \/ At("waitWr") = {} /\ count = 0
    \/ At("waitRd") = {} /\ count = MaxLen

(* The ring implements the bounded queue of Fifo. *)
contents == [i \in 1 .. count |-> queue[(curRd + i - 1) % MaxLen]]

F == INSTANCE Fifo WITH fifo <- contents
FifoSpec == F!Spec

(* What makes both inductive: where the ring is written next, that what it *)
(* holds was put, and that a caller on its way to put has a value.         *)
RingInv ==
  /\ curWr = (curRd + count) % MaxLen
  /\ \A i \in 0 .. count - 1 : queue[(curRd + i) % MaxLen] \in Values
  /\ \A t \in Threads : pc[t] \in {"put", "waitWr"} => value[t] \in Values

IInv == TypeOK /\ RingInv /\ NoLostWakeup
=============================================================================
