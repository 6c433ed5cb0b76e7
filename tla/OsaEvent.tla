------------------------------ MODULE OsaEvent ------------------------------
(***************************************************************************)
(* The event flags of osa_event.c: threads set and clear flags, others     *)
(* wait for one flag or all flags of a mask, with or without consuming     *)
(* them.  Every call runs under the event's mutex except while it waits on *)
(* the condition, so one action is one section under the mutex.  A mask is *)
(* a set of flags.  The failures of the pthread calls themselves, and a    *)
(* bad operation given to OSA_EventSet, return before anything is changed. *)
(***************************************************************************)
EXTENDS Integers, FiniteSets

CONSTANTS
  Waiters,   \* threads that call OSA_EventRetrieve
  Flags,     \* the bits of an event
  TimeOuts   \* the kinds of uTimeOutMsec the waiters use

ASSUME EventAssumption == TimeOuts \subseteq {"NO_SUSPEND", "SUSPEND", "TIMED"}

VARIABLES
  eFlags,     \* plEvent->eFlags
  pc,         \* where each waiter is: outside, on the condition, signalled
  request,    \* its uRequestedEvents
  operation,  \* its eOperation
  timeOut,    \* its uTimeOutMsec
  status,     \* what its last call returned
  retrieved,  \* what that call left in *pRetrievedEvents
  consumed    \* history: the flags that call took out of the event

vars == <<eFlags, pc, request, operation, timeOut, status, retrieved, consumed>>

Operations == {"AND", "AND_CONSUME", "OR", "OR_CONSUME"}

Masks == (SUBSET Flags) \ {{}}

TypeOK ==
  /\ eFlags \subseteq Flags
  /\ pc \in [Waiters -> {"idle", "asleep", "woken"}]
  /\ request \in [Waiters -> SUBSET Flags]
  /\ operation \in [Waiters -> Operations]
  /\ timeOut \in [Waiters -> TimeOuts \cup {"NO_SUSPEND"}]
  /\ status \in [Waiters -> {"SOK", "EFAIL"}]
  /\ retrieved \in [Waiters -> SUBSET Flags]
  /\ consumed \in [Waiters -> SUBSET Flags]
  /\ \A t \in Waiters : pc[t] # "idle" => timeOut[t] # "NO_SUSPEND"

Init ==
  /\ eFlags = {}
  /\ pc = [t \in Waiters |-> "idle"]
  /\ request = [t \in Waiters |-> {}]
  /\ operation = [t \in Waiters |-> "OR"]
  /\ timeOut = [t \in Waiters |-> "NO_SUSPEND"]
  /\ status = [t \in Waiters |-> "SOK"]
  /\ retrieved = [t \in Waiters |-> {}]
  /\ consumed = [t \in Waiters |-> {}]
-----------------------------------------------------------------------------
(* isolatedFlags, tested against zero. *)
Isolated(mask, op, flags) ==
  IF op \in {"AND", "AND_CONSUME"} THEN mask \subseteq flags
                                   ELSE mask \cap flags # {}

Consumes(op) == op \in {"AND_CONSUME", "OR_CONSUME"}

Asleep == {t \in Waiters : pc[t] = "asleep"}

(* Mutant: the flags without the signal. *)
signal_none == UNCHANGED pc

(* pthread_cond_signal: one of the threads on the condition, if any. *)
signal ==
  IF Asleep = {} THEN UNCHANGED pc
                 ELSE \E t \in Asleep : pc' = [pc EXCEPT ![t] = "woken"]

EventSet(mask, op) ==
  /\ eFlags' = IF op = "AND" THEN eFlags \cap mask ELSE eFlags \cup mask
  /\ signal
  /\ UNCHANGED <<request, operation, timeOut, status, retrieved, consumed>>

(* The end of a call: what it returns, and which flags it consumed. *)
return(t, stat, flags, taken) ==
  /\ pc' = [pc EXCEPT ![t] = "idle"]
  /\ status' = [status EXCEPT ![t] = stat]
  /\ retrieved' = [retrieved EXCEPT ![t] = flags]
  /\ consumed' = [consumed EXCEPT ![t] = taken]
  /\ eFlags' = eFlags \ taken

(* The flags a call with this operation resets: all of them. *)
Taken(op) == IF Consumes(op) THEN eFlags ELSE {}

(* Mutant: the bits of the mask are consumed and returned is what is left. *)
retrieveNow_afterReset(t, mask, op, time) ==
  /\ pc[t] = "idle"
  /\ Isolated(mask, op, eFlags)
  /\ request' = [request EXCEPT ![t] = mask]
  /\ operation' = [operation EXCEPT ![t] = op]
  /\ timeOut' = [timeOut EXCEPT ![t] = time]
  /\ return(t, "SOK", eFlags \ Taken(op), Taken(op))

(* OSA_EventRetrieve: the flags are there. *)
retrieveNow(t, mask, op, time) ==
  /\ pc[t] = "idle"
  /\ Isolated(mask, op, eFlags)
  /\ request' = [request EXCEPT ![t] = mask]
  /\ operation' = [operation EXCEPT ![t] = op]
  /\ timeOut' = [timeOut EXCEPT ![t] = time]
  /\ return(t, "SOK", eFlags, Taken(op))

(* Mutant: OSA_NO_SUSPEND waits as well. *)
retrieveNone_waits(t, mask, op, time) ==
  /\ pc[t] = "idle"
  /\ ~Isolated(mask, op, eFlags)
  /\ request' = [request EXCEPT ![t] = mask]
  /\ operation' = [operation EXCEPT ![t] = op]
  /\ timeOut' = [timeOut EXCEPT ![t] = time]
  /\ pc' = [pc EXCEPT ![t] = "asleep"]
  /\ UNCHANGED <<eFlags, status, retrieved, consumed>>

(* They are not: an empty answer, or to sleep. *)
retrieveNone(t, mask, op, time) ==
  /\ pc[t] = "idle"
  /\ ~Isolated(mask, op, eFlags)
  /\ request' = [request EXCEPT ![t] = mask]
  /\ operation' = [operation EXCEPT ![t] = op]
  /\ timeOut' = [timeOut EXCEPT ![t] = time]
  /\ \/ /\ time = "NO_SUSPEND"
        /\ return(t, "SOK", {}, {})
     \/ /\ time # "NO_SUSPEND"
        /\ pc' = [pc EXCEPT ![t] = "asleep"]
        /\ UNCHANGED <<eFlags, status, retrieved, consumed>>

(* Back from the wait, signalled or spuriously.  A wait with a time leaves *)
(* the loop with bReturnStatus and *pRetrievedEvents as they were.         *)
wake(t) ==
  /\ pc[t] \in {"asleep", "woken"}
  /\ UNCHANGED <<request, operation, timeOut>>
  /\ IF Isolated(request[t], operation[t], eFlags)
     THEN IF timeOut[t] = "SUSPEND"
          THEN return(t, "SOK", eFlags, Taken(operation[t]))
          ELSE return(t, "EFAIL", {}, Taken(operation[t]))
     ELSE /\ pc' = [pc EXCEPT ![t] = "asleep"]
          /\ UNCHANGED <<eFlags, status, retrieved, consumed>>

(* ETIMEDOUT: nothing is retrieved, and nothing consumed. *)
timedOut(t) ==
  /\ pc[t] \in {"asleep", "woken"}
  /\ timeOut[t] = "TIMED"
  /\ return(t, "SOK", {}, {})
  /\ UNCHANGED <<request, operation, timeOut>>

EventRetrieve(t) ==
  \/ \E mask \in Masks, op \in Operations, time \in TimeOuts :
       retrieveNow(t, mask, op, time) \/ retrieveNone(t, mask, op, time)
  \/ wake(t)
  \/ timedOut(t)

Next ==
  \/ \E mask \in SUBSET Flags, op \in {"AND", "OR"} : EventSet(mask, op)
  \/ \E t \in Waiters : EventRetrieve(t)

Spec == Init /\ [][Next]_vars
-----------------------------------------------------------------------------
(* osa_event.h:77-78: "Tasks waiting on this event will wake up".  No      *)
(* thread is left on the condition with the flags it waits for set.  One   *)
(* waiter has this, although a flag may be cleared again before it runs    *)
(* and it may be woken for nothing; with two, the one signal may go to a   *)
(* thread that waits for something else.                                   *)
NobodySleepsThrough ==
  \A t \in Asleep : ~Isolated(request[t], operation[t], eFlags)

(* osa_event.h:101: *pRetrievedEvents is the mask retrieved on success.    *)
(* Flags leave the event only with a call that succeeds and returns them:  *)
(* otherwise nobody ever hears of them.                                    *)
Reported(t) ==
  pc[t] = "idle" /\ consumed[t] # {}
    => status[t] = "SOK" /\ retrieved[t] = consumed[t]

ConsumedIsReported == \A t \in Waiters : Reported(t)

(* It is so for the calls without a time: what they consume, at once or    *)
(* after sleeping while others set and cleared flags, they return.         *)
UntimedIsReported == \A t \in Waiters : timeOut[t] # "TIMED" => Reported(t)
=============================================================================
