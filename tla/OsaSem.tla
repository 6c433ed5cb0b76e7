------------------------------- MODULE OsaSem -------------------------------
(***************************************************************************)
(* The counting semaphore of framework/osa/src/osa_sem.c: a counter, a     *)
(* mutex and a condition variable.  What a call does between taking the    *)
(* mutex and giving it up is one step.  A signal on a full semaphore is    *)
(* dropped, and wakes nobody.                                              *)
(***************************************************************************)
EXTENDS Integers, FiniteSets

CONSTANTS
  Users,    \* the threads that use it
  MaxArg    \* bound on the arguments of OSA_semCreate

ASSUME SemAssumption == IsFiniteSet(Users) /\ MaxArg \in Nat \ {0}

VARIABLES
  semCount,  \* hndl->count
  maxCount,  \* hndl->maxCount
  semPc      \* where each user is

semVars == <<semCount, maxCount, semPc>>

SemTypeOK ==
  /\ maxCount \in 1 .. MaxArg
  /\ semCount \in 0 .. maxCount
  /\ semPc \in [Users -> {"idle", "try", "tryOnce", "asleep", "woken"}]

(* OSA_semCreate, whose arguments are corrected. *)
SemInit ==
  /\ \E max \in 0 .. MaxArg : maxCount = IF max = 0 THEN 1 ELSE max
  /\ \E val \in 0 .. MaxArg + 1 : semCount = IF val > maxCount THEN maxCount ELSE val
  /\ semPc = [u \in Users |-> "idle"]
-----------------------------------------------------------------------------
Sleepers == {u \in Users : semPc[u] = "asleep"}

(* Those a signal has taken out of pthread_cond_wait. *)
Woken == {u \in Users : semPc[u] = "woken"}

semWait(u) ==
  /\ semPc[u] = "idle"
  /\ \E place \in {"try", "tryOnce"} : semPc' = [semPc EXCEPT ![u] = place]
  /\ UNCHANGED <<semCount, maxCount>>

(* One turn of the loop of OSA_semWait. *)
Trying(u) == semPc[u] \in {"try", "tryOnce", "woken"}

takeOne(u) ==
  /\ Trying(u)
  /\ semCount > 0
  /\ semCount' = semCount - 1
  /\ semPc' = [semPc EXCEPT ![u] = "idle"]
  /\ UNCHANGED maxCount

giveUp(u) ==
  /\ semPc[u] = "tryOnce"
  /\ semCount = 0
  /\ semPc' = [semPc EXCEPT ![u] = "idle"]
  /\ UNCHANGED <<semCount, maxCount>>

sleep(u) ==
  /\ semPc[u] \in {"try", "woken"}
  /\ semCount = 0
  /\ semPc' = [semPc EXCEPT ![u] = "asleep"]
  /\ UNCHANGED <<semCount, maxCount>>

(* pthread_cond_wait may also return for no reason. *)
wakeUp(u) ==
  /\ semPc[u] = "asleep"
  /\ semPc' = [semPc EXCEPT ![u] = "try"]
  /\ UNCHANGED <<semCount, maxCount>>

(* Mutant: a signal only when the count leaves 0. *)
semSignal_onlyFromZero ==
  /\ semCount < maxCount
  /\ semCount' = semCount + 1
  /\ IF Sleepers = {} \/ semCount > 0
       THEN UNCHANGED semPc
       ELSE \E u \in Sleepers : semPc' = [semPc EXCEPT ![u] = "woken"]
  /\ UNCHANGED maxCount

(* OSA_semSignal, from a user or from anybody else. *)
semSignal ==
  /\ semCount < maxCount
  /\ semCount' = semCount + 1
  /\ \/ Sleepers = {} /\ UNCHANGED semPc
     \/ \E u \in Sleepers : semPc' = [semPc EXCEPT ![u] = "woken"]
  /\ UNCHANGED maxCount

SemNext ==
  \/ semSignal
  \/ \E u \in Users :
       semWait(u) \/ takeOne(u) \/ giveUp(u) \/ sleep(u) \/ wakeUp(u)

SemSpec == SemInit /\ [][SemNext]_semVars
-----------------------------------------------------------------------------
(* No lost wake-up: while anybody sleeps, each unit of the semaphore has a *)
(* thread of its own on its way to take it, although the one a signal      *)
(* wakes may find that another thread has come first.                      *)
SemNoLostWakeup == Sleepers # {} => semCount <= Cardinality(Woken)
=============================================================================
