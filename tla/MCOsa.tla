------------------------------- MODULE MCOsa -------------------------------
(***************************************************************************)
(* What the run OsaEvent checks: the parts of the library osa by which     *)
(* threads and processes wait for each other, beside its queues: event     *)
(* flags (OsaEvent), the semaphore (OsaSem) and the fifo in shared memory  *)
(* (OsaShm).  They share no variable, so each is run by itself while the   *)
(* others stay in an initial state: `part' says which.                     *)
(***************************************************************************)
EXTENDS OsaEvent, OsaSem, OsaShm, TLC

(* The processes of the fifo are alike. *)
ProcSymmetry == Permutations(Procs)

VARIABLE part

mcVars == <<vars, semVars, shmVars, part>>

MCInit ==
  /\ part \in {"event", "sem", "shm"}
  /\ Init /\ SemInit /\ ShmInit
  /\ part = "sem" \/ (maxCount = 1 /\ semCount = 0)

MCNext ==
  /\ UNCHANGED part
  /\ \/ part = "event" /\ Next /\ UNCHANGED <<semVars, shmVars>>
     \/ part = "sem" /\ SemNext /\ UNCHANGED <<vars, shmVars>>
     \/ part = "shm" /\ ShmNext /\ UNCHANGED <<vars, semVars>>

MCSpec == MCInit /\ [][MCNext]_mcVars

(* Every variable of the three modules keeps the values its comment names: *)
(* a semaphore between 0 and its maximum, copies inside the fifo.          *)
TypesOK == TypeOK /\ SemTypeOK /\ ShmTypeOK /\ ShmCopiesInside
=============================================================================
