----------------------------- MODULE OsaSyncProofs -----------------------------
(***************************************************************************)
(* What the run OsaEvent checks on one instance, for any: the event flags  *)
(* of osa_event.c, the semaphore of osa_sem.c and the fifo of osa_shm.c.   *)
(***************************************************************************)
EXTENDS MCOsa, FiniteSetTheorems, SequenceTheorems, TLAPS

(* The signal moves at most one waiter from "asleep" to "woken". *)
LEMMA SignalMoves ==
  ASSUME pc \in [Waiters -> {"idle", "asleep", "woken"}], signal
  PROVE  /\ pc' \in [Waiters -> {"idle", "asleep", "woken"}]
         /\ \A t \in Waiters : pc'[t] = "idle" <=> pc[t] = "idle"
         /\ \A t \in Waiters : pc'[t] = "asleep" => pc[t] = "asleep"
         /\ Asleep # {} => \E t \in Asleep : pc'[t] = "woken"
  BY DEF signal, Asleep

(* The end of a call keeps the types. *)
LEMMA ReturnTypes ==
  ASSUME TypeOK, NEW t \in Waiters, NEW stat \in {"SOK", "EFAIL"},
         NEW flags \in SUBSET Flags, NEW taken \in SUBSET Flags,
         return(t, stat, flags, taken)
  PROVE  /\ eFlags' \subseteq Flags
         /\ pc' \in [Waiters -> {"idle", "asleep", "woken"}]
         /\ pc' = [pc EXCEPT ![t] = "idle"]
         /\ status' \in [Waiters -> {"SOK", "EFAIL"}]
         /\ retrieved' \in [Waiters -> SUBSET Flags]
         /\ consumed' \in [Waiters -> SUBSET Flags]
  BY DEF TypeOK, return

(* Types. *)
THEOREM TypeCorrect == Spec => []TypeOK
<1>1. Init => TypeOK
  BY DEF Init, TypeOK, Operations
<1>2. TypeOK /\ [Next]_vars => TypeOK'
  <2> SUFFICES ASSUME TypeOK, [Next]_vars PROVE TypeOK'
    OBVIOUS
  <2>1. ASSUME NEW mask \in SUBSET Flags, NEW op \in {"AND", "OR"}, EventSet(mask, op)
        PROVE  TypeOK'
    <3>1. eFlags' \subseteq Flags
      BY <2>1 DEF EventSet, TypeOK
    <3> QED
      BY <2>1, <3>1, SignalMoves DEF EventSet, TypeOK
  <2>2. ASSUME NEW t \in Waiters, NEW mask \in Masks, NEW op \in Operations,
               NEW time \in TimeOuts, retrieveNow(t, mask, op, time)
        PROVE  TypeOK'
    <3>1. Taken(op) \in SUBSET Flags /\ eFlags \in SUBSET Flags /\ mask \in SUBSET Flags
      BY DEF Taken, TypeOK, Masks
    <3>2. return(t, "SOK", eFlags, Taken(op))
      BY <2>2 DEF retrieveNow
    <3> QED
      BY <2>2, <3>1, <3>2, ReturnTypes, ZenonT(60) DEF retrieveNow, TypeOK
  <2>3. ASSUME NEW t \in Waiters, NEW mask \in Masks, NEW op \in Operations,
               NEW time \in TimeOuts, retrieveNone(t, mask, op, time)
        PROVE  TypeOK'
    <3>1. mask \in SUBSET Flags
      BY DEF Masks
    <3>2. CASE time = "NO_SUSPEND" /\ return(t, "SOK", {}, {})
      <4>1. {} \in SUBSET Flags
        OBVIOUS
      <4>2. QED
        BY <2>3, <3>1, <3>2, <4>1, ReturnTypes, ZenonT(60) DEF retrieveNone, TypeOK
    <3>3. CASE time # "NO_SUSPEND"
      BY <2>3, <3>1, <3>3 DEF retrieveNone, TypeOK
    <3> QED
      BY <2>3, <3>2, <3>3 DEF retrieveNone
  <2>4. ASSUME NEW t \in Waiters, wake(t)
        PROVE  TypeOK'
    <3>1. Taken(operation[t]) \in SUBSET Flags /\ eFlags \in SUBSET Flags
      BY DEF Taken, TypeOK
    <3>2. CASE return(t, "SOK", eFlags, Taken(operation[t]))
      BY <2>4, <3>1, <3>2, ReturnTypes DEF wake, TypeOK
    <3>3. CASE return(t, "EFAIL", {}, Taken(operation[t]))
      BY <2>4, <3>1, <3>3, ReturnTypes DEF wake, TypeOK
    <3>4. CASE /\ pc' = [pc EXCEPT ![t] = "asleep"]
               /\ UNCHANGED <<eFlags, status, retrieved, consumed>>
      BY <2>4, <3>4 DEF wake, TypeOK
    <3>5. \/ return(t, "SOK", eFlags, Taken(operation[t]))
          \/ return(t, "EFAIL", {}, Taken(operation[t]))
          \/ /\ pc' = [pc EXCEPT ![t] = "asleep"]
             /\ UNCHANGED <<eFlags, status, retrieved, consumed>>
      BY <2>4, Zenon DEF wake
    <3> QED
      BY <3>2, <3>3, <3>4, <3>5
  <2>5. ASSUME NEW t \in Waiters, timedOut(t)
        PROVE  TypeOK'
    <3>1. return(t, "SOK", {}, {})
      BY <2>5 DEF timedOut
    <3>2. /\ eFlags' \subseteq Flags
          /\ pc' = [pc EXCEPT ![t] = "idle"]
          /\ status' \in [Waiters -> {"SOK", "EFAIL"}]
          /\ retrieved' \in [Waiters -> SUBSET Flags]
          /\ consumed' \in [Waiters -> SUBSET Flags]
      <4>1. {} \in SUBSET Flags /\ "SOK" \in {"SOK", "EFAIL"}
        OBVIOUS
      <4> QED
        BY <3>1, <4>1, ReturnTypes, Zenon
    <3> QED
      BY <2>5, <3>2 DEF timedOut, TypeOK
  <2>6. CASE UNCHANGED vars
    BY <2>6 DEF vars, TypeOK
  <2> QED
    BY <2>1, <2>2, <2>3, <2>4, <2>5, <2>6 DEF Next, EventRetrieve
<1> QED
  BY <1>1, <1>2, PTL DEF Spec

(* With one waiter the single signal is enough: it is left asleep only by a *)
(* look that found its flags missing, and every OSA_EventSet after that    *)
(* wakes it.                                                               *)
THEOREM OneWaiterMissesNothing ==
  ASSUME \A s, t \in Waiters : s = t
  PROVE  Spec => []NobodySleepsThrough
<1>1. Init => NobodySleepsThrough
  BY DEF Init, NobodySleepsThrough, Asleep
<1>2. TypeOK /\ NobodySleepsThrough /\ [Next]_vars => NobodySleepsThrough'
  <2> SUFFICES ASSUME TypeOK, NobodySleepsThrough, [Next]_vars
               PROVE  NobodySleepsThrough'
    OBVIOUS
  <2>1. ASSUME NEW mask \in SUBSET Flags, NEW op \in {"AND", "OR"}, EventSet(mask, op)
        PROVE  NobodySleepsThrough'
    <3>1. Asleep' = {}
      BY <2>1, SignalMoves DEF EventSet, TypeOK, Asleep
    <3> QED
      BY <3>1 DEF NobodySleepsThrough
  <2>2. ASSUME NEW t \in Waiters, pc' = [pc EXCEPT ![t] = "idle"]
        PROVE  NobodySleepsThrough'
    <3>1. Asleep' = {}
      BY <2>2 DEF Asleep, TypeOK
    <3> QED
      BY <3>1 DEF NobodySleepsThrough
  <2>3. ASSUME NEW t \in Waiters, NEW mask \in Masks, NEW op \in Operations,
               NEW time \in TimeOuts, retrieveNone(t, mask, op, time)
        PROVE  NobodySleepsThrough'
    <3>1. CASE return(t, "SOK", {}, {})
      BY <3>1, <2>2 DEF return
    <3>2. CASE eFlags' = eFlags
      BY <2>3, <3>2 DEF retrieveNone, NobodySleepsThrough, Asleep, TypeOK
    <3> QED
      BY <2>3, <3>1, <3>2 DEF retrieveNone
  <2>4. ASSUME NEW t \in Waiters, wake(t)
        PROVE  NobodySleepsThrough'
    <3>1. CASE Isolated(request[t], operation[t], eFlags)
      BY <2>4, <3>1, <2>2 DEF wake, return
    <3>2. CASE ~Isolated(request[t], operation[t], eFlags)
      BY <2>4, <3>2 DEF wake, NobodySleepsThrough, Asleep, TypeOK
    <3> QED
      BY <3>1, <3>2
  <2>5. CASE UNCHANGED vars
    BY <2>5 DEF vars, NobodySleepsThrough, Asleep
  <2> QED
    BY <2>1, <2>2, <2>3, <2>4, <2>5 DEF Next, EventRetrieve, retrieveNow, timedOut, return
<1> QED
  BY <1>1, <1>2, TypeCorrect, PTL DEF Spec

(* Whatever else sets, clears and consumes flags, a call without a time    *)
(* returns all the flags it takes out of the event, and succeeds.          *)
THEOREM UntimedCallsReport == Spec => []UntimedIsReported
<1>1. Init => UntimedIsReported
  BY DEF Init, UntimedIsReported, Reported
<1>2. TypeOK /\ UntimedIsReported /\ [Next]_vars => UntimedIsReported'
  <2> SUFFICES ASSUME TypeOK, UntimedIsReported, [Next]_vars
               PROVE  UntimedIsReported'
    OBVIOUS
  <2>1. ASSUME NEW mask \in SUBSET Flags, NEW op \in {"AND", "OR"}, EventSet(mask, op)
        PROVE  UntimedIsReported'
    BY <2>1, SignalMoves DEF EventSet, TypeOK, UntimedIsReported, Reported
  <2>2. ASSUME NEW t \in Waiters, NEW mask \in Masks, NEW op \in Operations,
               NEW time \in TimeOuts, retrieveNow(t, mask, op, time)
        PROVE  UntimedIsReported'
    BY <2>2 DEF retrieveNow, return, Taken, TypeOK, UntimedIsReported, Reported
  <2>3. ASSUME NEW t \in Waiters, NEW mask \in Masks, NEW op \in Operations,
               NEW time \in TimeOuts, retrieveNone(t, mask, op, time)
        PROVE  UntimedIsReported'
    BY <2>3 DEF retrieveNone, return, TypeOK, UntimedIsReported, Reported
  <2>4. ASSUME NEW t \in Waiters, wake(t)
        PROVE  UntimedIsReported'
    <3>1. CASE timeOut[t] = "SUSPEND"
      BY <2>4, <3>1 DEF wake, return, Taken, TypeOK, UntimedIsReported, Reported
    <3>2. CASE timeOut[t] # "SUSPEND"
      <4>1. timeOut[t] = "TIMED"
        BY <2>4, <3>2, EventAssumption DEF wake, TypeOK
      <4> QED
        BY <2>4, <4>1 DEF wake, return, Taken, TypeOK, UntimedIsReported, Reported
    <3> QED
      BY <3>1, <3>2
  <2>5. ASSUME NEW t \in Waiters, timedOut(t)
        PROVE  UntimedIsReported'
    BY <2>5 DEF timedOut, return, TypeOK, UntimedIsReported, Reported
  <2>6. CASE UNCHANGED vars
    BY <2>6 DEF vars, UntimedIsReported, Reported
  <2> QED
    BY <2>1, <2>2, <2>3, <2>4, <2>5, <2>6 DEF Next, EventRetrieve
<1> QED
  BY <1>1, <1>2, TypeCorrect, PTL DEF Spec
-----------------------------------------------------------------------------
(* The semaphore: its types, and that no wakeup is lost. *)

SemInv == SemTypeOK /\ SemNoLostWakeup

(* The users a signal has woken can be counted. *)
LEMMA WokenFinite == IsFiniteSet(Woken) /\ Cardinality(Woken) \in Nat
BY SemAssumption, FS_Subset, FS_CardinalityType DEF Woken

LEMMA WokenFiniteNext == Cardinality(Woken') \in Nat
BY SemAssumption, FS_Subset, FS_CardinalityType DEF Woken

(* OSA_semCreate: nobody sleeps, and its arguments are corrected. *)
LEMMA SemInitInv == SemInit => SemInv
<1> SUFFICES ASSUME SemInit PROVE SemInv
  OBVIOUS
<1>1. Sleepers = {}
  BY DEF SemInit, Sleepers
<1>2. SemTypeOK
  BY SemAssumption DEF SemInit, SemTypeOK
<1>3. QED
  BY <1>1, <1>2 DEF SemInv, SemNoLostWakeup

(* A signal adds a unit and wakes a sleeper for it, if there is one. *)
LEMMA SemSignalPreserves == SemInv /\ semSignal => SemInv'
<1> SUFFICES ASSUME SemInv, semSignal PROVE SemInv'
  OBVIOUS
<1> USE DEF SemInv
<1>1. SemTypeOK'
  BY DEF SemTypeOK, semSignal, Sleepers
<1>2. CASE Sleepers = {} /\ UNCHANGED semPc
  <2>1. Sleepers' = {}
    BY <1>2 DEF Sleepers
  <2>2. QED
    BY <1>1, <2>1 DEF SemNoLostWakeup
<1>3. CASE \E u \in Sleepers : semPc' = [semPc EXCEPT ![u] = "woken"]
  <2>1. PICK u \in Sleepers : semPc' = [semPc EXCEPT ![u] = "woken"]
    BY <1>3
  <2>2. Woken' = Woken \cup {u} /\ u \notin Woken
    BY <2>1 DEF SemTypeOK, Sleepers, Woken
  <2>3. Cardinality(Woken') = Cardinality(Woken) + 1
    BY <2>2, WokenFinite, FS_AddElement
  <2>4. semCount <= Cardinality(Woken)
    BY <2>1 DEF SemNoLostWakeup
  <2>5. semCount' = semCount + 1 /\ semCount \in Nat
    BY DEF semSignal, SemTypeOK
  <2>6. QED
    BY <1>1, <2>3, <2>4, <2>5, WokenFinite DEF SemNoLostWakeup
<1>4. QED
  BY <1>2, <1>3 DEF semSignal

(* A unit is taken by a woken user, or by one who came first. *)
LEMMA TakePreserves ==
  ASSUME NEW u \in Users, SemInv, takeOne(u)
  PROVE  SemInv'
<1> USE DEF SemInv
<1>1. SemTypeOK'
  BY DEF SemTypeOK, takeOne
<1>2. Sleepers' = Sleepers
  BY DEF SemTypeOK, takeOne, Trying, Sleepers
<1>3. Woken' = Woken \ {u}
  BY DEF SemTypeOK, takeOne, Woken
<1>4. Cardinality(Woken') >= Cardinality(Woken) - 1
  BY <1>3, WokenFinite, FS_RemoveElement
<1>5. semCount' = semCount - 1 /\ semCount \in Nat
  BY DEF takeOne, SemTypeOK
<1>6. QED
  BY <1>1, <1>2, <1>4, <1>5, WokenFinite, WokenFiniteNext DEF SemNoLostWakeup

(* Whoever goes to sleep has found no unit. *)
LEMMA SleepPreserves ==
  ASSUME NEW u \in Users, SemInv, sleep(u)
  PROVE  SemInv'
<1>1. SemTypeOK'
  BY DEF SemInv, SemTypeOK, sleep
<1>2. semCount' = 0
  BY DEF sleep
<1>3. QED
  BY <1>1, <1>2, WokenFiniteNext DEF SemInv, SemNoLostWakeup

(* The other steps wake nobody by a signal and put nobody to sleep. *)
LEMMA OtherPreserves ==
  ASSUME NEW u \in Users, SemInv, semWait(u) \/ giveUp(u) \/ wakeUp(u)
  PROVE  SemInv'
<1> USE DEF SemInv, semWait, giveUp, wakeUp
<1>1. SemTypeOK'
  BY DEF SemTypeOK
<1>2. Sleepers' \subseteq Sleepers /\ Woken' = Woken
  BY DEF SemTypeOK, Sleepers, Woken
<1>3. semCount' = semCount
  OBVIOUS
<1>4. QED
  BY <1>1, <1>2, <1>3 DEF SemNoLostWakeup
-----------------------------------------------------------------------------
LEMMA SemInvariance == SemSpec => []SemInv
<1>1. SemInv /\ UNCHANGED semVars => SemInv'
  BY DEF SemInv, SemTypeOK, SemNoLostWakeup, Sleepers, Woken, semVars
<1>2. SemInv /\ [SemNext]_semVars => SemInv'
  BY <1>1, SemSignalPreserves, TakePreserves, SleepPreserves, OtherPreserves DEF SemNext
<1>3. QED
  BY SemInitInv, <1>2, PTL DEF SemSpec

(* OSA_semWait and OSA_semSignal: however many threads use a semaphore,    *)
(* whatever its maximum, and whichever of them is woken or comes first,    *)
(* nobody sleeps while there is a unit that no woken thread will take.     *)
THEOREM SemaphoreLosesNoWakeup == SemSpec => []SemNoLostWakeup
<1>1. SemInv => SemNoLostWakeup
  BY DEF SemInv
<1>2. QED
  BY SemInvariance, <1>1, PTL

(* OSA_semCreate, OSA_semWait, OSA_semSignal: the count stays within what  *)
(* the semaphore was created with.                                         *)
THEOREM SemTypesHold == SemSpec => []SemTypeOK
<1>1. SemInv => SemTypeOK
  BY DEF SemInv
<1>2. QED
  BY SemInvariance, <1>1, PTL
-----------------------------------------------------------------------------
(* The fifo in shared memory: its header, and where a process can be. *)
Header == {"capacity", "isEmpty", "isFull", "use", "curRd", "curWr"}

Places == {"start", "semget", "setval", "ready", "dead"} \cup InSem \cup Header

Without(p) == IF creator = p THEN -1 ELSE creator

(* Who holds the semaphore, or is about to set its value.  A process whose *)
(* semaphore_v failed holds it still, outside its call.                    *)
HoldsSem(p) == undo[p] = 1 \/ shmPc[p] = "setval"

(* Until a call goes on without it the semaphore excludes: one process     *)
(* holds it when it is 0, none when it is 1 or does not exist, and who is  *)
(* in a call holds it.                                                     *)
ShmMutex ==
  ~unguarded =>
    /\ sem \in {-1, 0, 1}
    /\ \A p \in Procs :
         /\ undo[p] \in {0, 1} /\ (sem # 0 => undo[p] = 0)
         /\ shmPc[p] \in InSem => undo[p] = 1
         /\ shmPc[p] = "setval" => sem = 0
    /\ \A p, q \in Procs : HoldsSem(p) /\ HoldsSem(q) => p = q

(* The write half of the header, filled in or not. *)
ShmRoom ==
  ~unguarded =>
    /\ fifo.capacity \in {0, Capacity}
    /\ 0 <= fifo.curWr /\ fifo.curWr <= fifo.capacity
    /\ \A p \in Procs : shmPc[p] = "write1" => fifo.curWr + size[p] <= fifo.capacity

(* Only the creator fills in the header, and once. *)
ShmHeader ==
  /\ \A p \in Procs : shmPc[p] \in Header => creator = p
  /\ \A p \in Procs :
       creator = p => /\ shmPc[p] \notin {"start", "dead"}
                      /\ shmPc[p] \in {"semget", "setval"} \cup Header => ~complete
  /\ complete => creator # 0

(* The header while it is filled in, ... *)
ShmFresh ==
  /\ fifo.isFull = 0 /\ fifo.use = 0 /\ fifo.curRd = 0 /\ fifo.curWr = 0
  /\ unread = <<>>
  /\ \A p \in Procs :
       /\ shmPc[p] \notin InSem
       /\ shmPc[p] \in Header \ {"capacity"} => fifo.capacity = Capacity
       /\ shmPc[p] \in Header \ {"capacity", "isEmpty"} => fifo.isEmpty = 1

Holds ==
  /\ fifo.curWr = fifo.curRd + Len(unread)
  /\ \A i \in 1 .. Len(unread) : mem[fifo.curRd + i - 1] = unread[i]

(* ... and the fifo after that.  Only a reader that has moved curRd and    *)
(* not yet use or, past the end, not yet started again, disturbs it.       *)
ShmFilled ==
  /\ fifo.capacity = Capacity
  /\ fifo.isEmpty \in {0, 1}
  /\ fifo.curRd >= 0
  /\ fifo.curWr <= Capacity
  /\ Holds \/ \E p \in Procs : shmPc[p] \in {"read2", "read3"} /\ fifo.isEmpty = 1
  /\ fifo.use <= Len(unread) \/ \E p \in Procs : shmPc[p] \in {"read2", "read3"}
  /\ \A p \in Procs :
       /\ shmPc[p] = "write1" => fifo.curWr + size[p] <= Capacity
       /\ shmPc[p] = "write2" => fifo.use + size[p] <= Len(unread)
       /\ shmPc[p] = "read1" => fifo.curRd + size[p] <= Capacity
       /\ fifo.isEmpty = 0 =>
            /\ shmPc[p] = "read1" => size[p] <= fifo.use
            /\ shmPc[p] = "read2" => fifo.use - size[p] <= Len(unread)
            /\ shmPc[p] = "read3" => fifo.use <= Len(unread)

ShmData ==
  ~early /\ ~cutShort /\ ~unguarded => IF complete THEN ShmFilled ELSE ShmFresh

ShmInv == ShmTypeOK /\ ShmMutex /\ ShmRoom /\ ShmHeader /\ ShmData

LEMMA FieldNames ==
  /\ {Fields[k] : k \in 1 .. 6} = Header
  /\ \A k \in 1 .. 6 : k # 6 => Fields[k + 1] \in Header
BY DEF Fields, Header

(* What the type invariant says, with the names of the fields. *)
LEMMA ShmTypes ==
  ShmTypeOK <=> /\ fifo \in [Header -> Int]
                /\ mem \in [0 .. Capacity - 1 -> 0 .. written]
                /\ sem \in Nat \cup {-1}
                /\ undo \in [Procs -> Int]
                /\ creator \in Procs \cup {0, -1}
                /\ complete \in BOOLEAN
                /\ shmPc \in [Procs -> Places]
                /\ size \in [Procs -> Nat]
                /\ written \in Nat
                /\ unread \in Seq(1 .. written)
                /\ early \in BOOLEAN /\ cutShort \in BOOLEAN
                /\ fails \in 0 .. MaxFails
                /\ unguarded \in BOOLEAN
BY FieldNames DEF ShmTypeOK, Places

LEMMA ShmTypesNext ==
  ShmTypeOK' <=> /\ fifo' \in [Header -> Int]
                 /\ mem' \in [0 .. Capacity - 1 -> 0 .. written']
                 /\ sem' \in Nat \cup {-1}
                 /\ undo' \in [Procs -> Int]
                 /\ creator' \in Procs \cup {0, -1}
                 /\ complete' \in BOOLEAN
                 /\ shmPc' \in [Procs -> Places]
                 /\ size' \in [Procs -> Nat]
                 /\ written' \in Nat
                 /\ unread' \in Seq(1 .. written')
                 /\ early' \in BOOLEAN /\ cutShort' \in BOOLEAN
                 /\ fails' \in 0 .. MaxFails
                 /\ unguarded' \in BOOLEAN
BY FieldNames DEF ShmTypeOK, Places

LEMMA ShmInitInv == ShmInit => ShmInv
<1> SUFFICES ASSUME ShmInit PROVE ShmInv
  OBVIOUS
<1>0. fifo = [f \in Header |-> 0]
  BY FieldNames, Zenon DEF ShmInit
<1>1. ShmTypeOK
  <2>1. fifo \in [Header -> Int] /\ shmPc \in [Procs -> Places]
    BY <1>0 DEF ShmInit, Places
  <2>2. /\ mem \in [0 .. Capacity - 1 -> 0 .. written]
        /\ size \in [Procs -> Nat] /\ undo \in [Procs -> Int]
        /\ fails \in 0 .. MaxFails
    BY ShmAssumption DEF ShmInit
  <2>3. unread \in Seq(1 .. written) /\ written \in Nat
    BY ShmAssumption DEF ShmInit
  <2> QED
    BY <2>1, <2>2, <2>3, ShmTypes DEF ShmInit
<1>2. ShmMutex /\ ShmHeader
  BY ShmAssumption DEF ShmInit, ShmMutex, HoldsSem, ShmHeader, InSem, Header
<1>3. ShmRoom
  <2>1. fifo.capacity = 0 /\ fifo.curWr = 0
    BY <1>0 DEF Header
  <2>2. \A p \in Procs : shmPc[p] # "write1"
    BY DEF ShmInit
  <2> QED
    BY <2>1, <2>2 DEF ShmRoom
<1>4. ShmData
  BY <1>0 DEF ShmInit, ShmData, ShmFresh, InSem, Header
<1> QED
  BY <1>1, <1>2, <1>3, <1>4 DEF ShmInv

(* What the parts of a step do. *)
LEMMA Moved ==
  ASSUME ShmTypeOK, NEW p \in Procs, NEW place \in Places, goes(p, place)
  PROVE  /\ shmPc' \in [Procs -> Places]
         /\ \A q \in Procs : shmPc'[q] = IF q = p THEN place ELSE shmPc[q]
BY ShmTypes DEF goes

LEMMA Sized ==
  ASSUME ShmTypeOK, NEW p \in Procs, NEW m \in Nat, size' = [size EXCEPT ![p] = m]
  PROVE  /\ size' \in [Procs -> Nat]
         /\ \A q \in Procs : size'[q] = IF q = p THEN m ELSE size[q]
BY ShmTypes

LEMMA SemopMoves ==
  ASSUME ShmTypeOK, NEW p \in Procs, NEW taken \in 0 .. 1, NEW given \in 0 .. 1,
         semop(p, taken, given)
  PROVE  /\ sem \in Nat /\ taken <= sem /\ sem' = sem - taken + given /\ sem' \in Nat
         /\ undo' \in [Procs -> Int]
         /\ \A q \in Procs : undo'[q] = IF q = p THEN undo[p] + taken - given ELSE undo[q]
<1>1. undo \in [Procs -> Int] /\ sem \in Nat \cup {-1} /\ undo[p] \in Int
  BY ShmTypes
<1>2. taken <= sem /\ sem' = sem - taken + given
  BY DEF semop
<1>3. undo' = [undo EXCEPT ![p] = undo[p] + taken - given]
  BY DEF semop
<1>4. undo[p] + taken - given \in Int
  BY <1>1
<1> QED
  BY <1>1, <1>2, <1>3, <1>4

LEMMA FailsCounted ==
  ASSUME ShmTypeOK, NEW n \in 0 .. 2, failed(n)
  PROVE  fails' \in 0 .. MaxFails
BY ShmTypes, ShmAssumption DEF failed

LEMMA GoneMoves ==
  ASSUME ShmTypeOK, NEW p \in Procs, gone(p)
  PROVE  /\ sem' \in Nat \cup {-1}
         /\ undo[p] = 0 => sem' = sem
         /\ undo[p] = 1 => sem' = sem + 1
         /\ undo' \in [Procs -> Int]
         /\ \A q \in Procs : undo'[q] = IF q = p THEN 0 ELSE undo[q]
         /\ creator' = Without(p) /\ creator' \in Procs \cup {0, -1}
         /\ size' \in [Procs -> Nat]
         /\ \A q \in Procs : size'[q] = IF q = p THEN 0 ELSE size[q]
         /\ goes(p, "dead")
<1>1. undo \in [Procs -> Int] /\ sem \in Nat \cup {-1} /\ undo[p] \in Int
  BY ShmTypes
<1>2. sem' = IF undo[p] = 0 THEN sem ELSE IF sem + undo[p] < 0 THEN 0 ELSE sem + undo[p]
  BY DEF gone
<1>3. sem' \in Nat \cup {-1} /\ (undo[p] = 0 => sem' = sem) /\ (undo[p] = 1 => sem' = sem + 1)
  BY <1>1, <1>2
<1>4. undo' = [undo EXCEPT ![p] = 0] /\ size' = [size EXCEPT ![p] = 0] /\ goes(p, "dead")
  BY DEF gone
<1>5. creator' = Without(p) /\ creator' \in Procs \cup {0, -1}
  BY ShmTypes DEF gone, Without
<1>6. /\ undo' \in [Procs -> Int]
      /\ \A q \in Procs : undo'[q] = IF q = p THEN 0 ELSE undo[q]
  BY <1>1, <1>4
<1> QED
  BY <1>3, <1>4, <1>5, <1>6, Sized

(* A process that has the semaphore, or takes it, and then holds it (u is  *)
(* 1) or not: it stays the only one.                                       *)
LEMMA OneHolds ==
  ASSUME ShmMutex, unguarded = FALSE, NEW p \in Procs,
         NEW place \in InSem \cup {"ready", "dead"}, NEW u \in {0, 1},
         \A q \in Procs : shmPc'[q] = IF q = p THEN place ELSE shmPc[q],
         \A q \in Procs : undo'[q] = IF q = p THEN u ELSE undo[q],
         sem = 1 \/ undo[p] = 1,
         sem' = 1 - u,
         place \in InSem => u = 1
  PROVE  ShmMutex'
<1>1. /\ sem \in {-1, 0, 1}
      /\ \A q \in Procs : undo[q] \in {0, 1} /\ (sem # 0 => undo[q] = 0)
      /\ \A q \in Procs : shmPc[q] \in InSem => undo[q] = 1
      /\ \A q \in Procs : shmPc[q] = "setval" => sem = 0
      /\ \A q, r \in Procs : HoldsSem(q) /\ HoldsSem(r) => q = r
  BY DEF ShmMutex
<1>2. \A q \in Procs : q # p => undo[q] = 0 /\ shmPc[q] # "setval"
  BY <1>1 DEF HoldsSem
<1>3. \A q \in Procs : q # p => shmPc[q] \notin InSem
  BY <1>1, <1>2
<1>4. sem' \in {-1, 0, 1} /\ (sem' # 0 => u = 0)
  OBVIOUS
<1>5. \A q \in Procs :
        /\ undo'[q] \in {0, 1} /\ (sem' # 0 => undo'[q] = 0)
        /\ shmPc'[q] \in InSem => undo'[q] = 1
        /\ shmPc'[q] # "setval"
        /\ q # p => undo'[q] = 0
  BY <1>2, <1>3, <1>4 DEF InSem
<1>6. \A q \in Procs : HoldsSem(q)' => q = p
  BY <1>5 DEF HoldsSem
<1> QED
  BY <1>4, <1>5, <1>6 DEF ShmMutex

(* A call leaves the header to its creator. *)
LEMMA HeaderKept ==
  ASSUME NEW p \in Procs, ShmHeader, NEW place \in InSem \cup {"ready", "dead"},
         \A q \in Procs : shmPc'[q] = IF q = p THEN place ELSE shmPc[q],
         creator' = IF place = "dead" THEN Without(p) ELSE creator,
         complete' = complete,
         place # "dead" => shmPc[p] \in InSem \cup {"ready"}
  PROVE  ShmHeader'
<1>1. \A q \in Procs : creator' = q => creator = q /\ (q = p => place # "dead")
  BY ShmAssumption DEF Without
<1>2. \A q \in Procs : shmPc'[q] \in Header => q # p /\ creator' = q
  BY DEF InSem, Header, ShmHeader, Without
<1>3. complete' => creator' # 0
  BY DEF ShmHeader, Without
<1>4. \A q \in Procs :
        creator' = q => /\ shmPc'[q] \notin {"start", "dead"}
                        /\ shmPc'[q] \in {"semget", "setval"} \cup Header => ~complete'
  BY <1>1 DEF InSem, Header, ShmHeader
<1> QED
  BY <1>2, <1>3, <1>4 DEF ShmHeader

(* No step but the creator's and the copy of a write disturbs the write    *)
(* half.                                                                   *)
LEMMA RoomKept ==
  ASSUME ShmRoom, ~unguarded' => ~unguarded,
         fifo'.capacity = fifo.capacity, fifo'.curWr = fifo.curWr,
         \A q \in Procs : shmPc'[q] = "write1" => shmPc[q] = "write1" /\ size'[q] = size[q]
  PROVE  ShmRoom'
BY DEF ShmRoom

(* Creation, but for the header. *)
LEMMA CreatePreserves ==
  ASSUME NEW p \in Procs, ShmInv, getBlock(p) \/ getSem(p) \/ setVal(p)
  PROVE  ShmInv'
<1>0. ShmTypeOK /\ ShmMutex /\ ShmRoom /\ ShmHeader /\ ShmData
  BY DEF ShmInv
<1>1. PICK place \in {"semget", "setval", "capacity", "ready"} : goes(p, place)
  BY DEF getBlock, getSem, setVal, Attached, Fields
<1>2. /\ \A q \in Procs : shmPc'[q] = IF q = p THEN place ELSE shmPc[q]
      /\ shmPc' \in [Procs -> Places]
  BY <1>0, <1>1, Moved DEF Places, Header
<1>3. /\ UNCHANGED <<fifo, mem, complete, size, fails, written, unread, early, cutShort,
                     unguarded>>
      /\ creator' = IF creator = 0 /\ shmPc[p] = "start" THEN p ELSE creator
      /\ sem' \in Nat \cup {-1} /\ undo' \in [Procs -> Int]
      /\ shmPc[p] \in {"start", "semget", "setval"}
  BY <1>0, ShmTypes DEF getBlock, getSem, setVal, pastVars, semopVars
<1>4. ShmTypeOK'
  BY <1>0, <1>2, <1>3, ShmTypes, ShmTypesNext
<1>5. ShmMutex'
  <2> SUFFICES ASSUME unguarded = FALSE
               PROVE  ShmMutex'
    BY <1>0, <1>3, ShmTypes DEF ShmMutex
  <2>0. /\ sem \in {-1, 0, 1}
        /\ \A q \in Procs : undo[q] \in {0, 1} /\ (sem # 0 => undo[q] = 0)
        /\ \A q \in Procs : shmPc[q] \in InSem => undo[q] = 1
        /\ \A q \in Procs : shmPc[q] = "setval" => sem = 0
        /\ \A q, r \in Procs : HoldsSem(q) /\ HoldsSem(r) => q = r
    BY <1>0 DEF ShmMutex
  <2>1. CASE getBlock(p)
    <3>1. UNCHANGED <<sem, undo>> /\ place = "semget"
      BY <2>1, <1>0, <1>2, ShmTypes DEF getBlock, semopVars, goes
    <3>2. \A q \in Procs : HoldsSem(q)' => HoldsSem(q)
      BY <1>2, <3>1 DEF HoldsSem
    <3> QED
      BY <1>2, <1>3, <2>0, <3>1, <3>2 DEF ShmMutex, InSem
  <2>2. CASE getSem(p)
    <3>1. /\ undo' = undo /\ sem' = IF sem = -1 THEN 0 ELSE sem
          /\ place = "setval" => sem = -1
      BY <2>2, <1>0, <1>2, ShmTypes DEF getSem, goes, Attached, Fields
    <3>2. \A q \in Procs : HoldsSem(q)' => HoldsSem(q) \/ (q = p /\ sem = -1)
      BY <1>2, <3>1 DEF HoldsSem
    <3>3. sem = -1 => \A q \in Procs : ~HoldsSem(q)
      BY <2>0 DEF HoldsSem
    <3> QED
      BY <1>2, <1>3, <2>0, <3>1, <3>2, <3>3 DEF ShmMutex, InSem
  <2>3. CASE setVal(p)
    <3>1. /\ sem' = 1 /\ \A q \in Procs : undo'[q] = 0
          /\ shmPc[p] = "setval" /\ place \in {"capacity", "ready"}
      BY <2>3, <1>0, <1>2, ShmTypes DEF setVal, goes, Attached, Fields
    <3>2. \A q \in Procs : shmPc'[q] # "setval" /\ shmPc'[q] \notin InSem
      BY <1>2, <2>0, <3>1 DEF HoldsSem, InSem
    <3> QED
      BY <1>3, <3>1, <3>2 DEF ShmMutex, HoldsSem
  <2> QED
    BY <2>1, <2>2, <2>3
<1>6. ShmHeader'
  BY <1>0, <1>2, <1>3, ShmTypes, ShmAssumption
     DEF ShmHeader, Header, getBlock, getSem, setVal, goes, Attached, Fields
<1>7. ShmRoom'
  BY <1>0, <1>2, <1>3, RoomKept
<1>8. ShmData'
  BY <1>0, <1>2, <1>3, ShmTypes
     DEF ShmData, ShmFresh, ShmFilled, Holds, Header, InSem
<1> QED
  BY <1>4, <1>5, <1>6, <1>7, <1>8 DEF ShmInv

(* The header. *)
LEMMA SetFieldPreserves ==
  ASSUME NEW p \in Procs, ShmInv, NEW k \in 1 .. 6, setField(p, k)
  PROVE  ShmInv'
<1>0. ShmTypeOK /\ ShmMutex /\ ShmRoom /\ ShmHeader /\ ShmData
  BY DEF ShmInv
<1>1. /\ shmPc[p] = Fields[k] /\ Fields[k] \in Header
      /\ shmPc' \in [Procs -> Places]
      /\ \A q \in Procs : shmPc'[q] = IF q = p THEN IF k = 6 THEN "ready" ELSE Fields[k + 1]
                                               ELSE shmPc[q]
  BY <1>0, FieldNames, ShmTypes DEF setField, goes, Places
<1>2. creator = p /\ complete = FALSE
  BY <1>0, <1>1, ShmTypes DEF ShmHeader
<1>3. PICK v \in {0, 1, Capacity} :
         /\ fifo' = [fifo EXCEPT ![Fields[k]] = v]
         /\ Fields[k] = "capacity" => v = Capacity
         /\ Fields[k] = "isEmpty" => v = 1
         /\ Fields[k] \notin {"capacity", "isEmpty"} => v = 0
  BY DEF setField
<1>4. /\ fifo' \in [Header -> Int]
      /\ \A f \in Header : fifo'[f] = IF f = Fields[k] THEN v ELSE fifo[f]
  BY <1>0, <1>1, <1>3, ShmTypes, ShmAssumption
<1>5. /\ UNCHANGED <<mem, sem, undo, fails, creator, size, written, unread, early, cutShort,
                     unguarded>>
      /\ complete' = (k = 6)
  BY DEF setField, pastVars, semopVars
<1>6. ShmTypeOK'
  BY <1>0, <1>1, <1>4, <1>5, ShmTypes, ShmTypesNext
<1>7. ShmMutex'
  <2>1. \A q \in Procs : /\ shmPc'[q] \in InSem \cup {"setval"} => shmPc'[q] = shmPc[q]
    BY <1>1, FieldNames DEF InSem, Header
  <2>2. \A q \in Procs : HoldsSem(q)' => HoldsSem(q)
    BY <1>5, <2>1 DEF HoldsSem
  <2> QED
    BY <1>0, <1>5, <2>1, <2>2 DEF ShmMutex
<1>8. ShmHeader'
  BY <1>0, <1>1, <1>2, <1>5, FieldNames, ShmAssumption DEF ShmHeader, Header
<1>9. ShmRoom'
  <2> SUFFICES ASSUME unguarded = FALSE
               PROVE  /\ fifo'.capacity \in {0, Capacity}
                      /\ 0 <= fifo'.curWr /\ fifo'.curWr <= fifo'.capacity
                      /\ \A q \in Procs : shmPc'[q] = "write1" =>
                                            fifo'.curWr + size'[q] <= fifo'.capacity
    BY <1>0, <1>5, ShmTypes DEF ShmRoom
  <2>1. \A q \in Procs : shmPc'[q] = "write1" => shmPc[q] = "write1" /\ size'[q] = size[q]
    BY <1>1, <1>5, FieldNames DEF Header
  <2>2. /\ fifo'.capacity \in {Capacity, fifo.capacity}
        /\ fifo'.curWr \in {0, fifo.curWr}
    BY <1>3, <1>4 DEF Header
  <2>3. /\ fifo.capacity \in {0, Capacity} /\ Capacity \in Nat
        /\ 0 <= fifo.curWr /\ fifo.curWr <= fifo.capacity /\ fifo.curWr \in Int
        /\ \A q \in Procs : shmPc[q] = "write1" => fifo.curWr + size[q] <= fifo.capacity
        /\ \A q \in Procs : size[q] \in Nat
    BY <1>0, ShmTypes, ShmAssumption DEF ShmRoom, Header
  <2> QED
    BY <2>1, <2>2, <2>3
<1>10. ShmData'
  <2> SUFFICES ASSUME early = FALSE, cutShort = FALSE, unguarded = FALSE
               PROVE  IF k = 6 THEN ShmFilled' ELSE ShmFresh'
    BY <1>0, <1>5, ShmTypes DEF ShmData
  <2>1. ShmFresh
    BY <1>0, <1>2 DEF ShmData
  <2>2. \A q \in Procs : q # p => shmPc[q] \notin Header
    BY <1>0, <1>2 DEF ShmHeader
  <2>3. \A q \in Procs : shmPc'[q] \notin InSem
    BY <1>1, <2>1, FieldNames DEF ShmFresh, InSem, Header
  <2>4. k > 1 => fifo.capacity = Capacity
    BY <1>1, <2>1 DEF ShmFresh, Fields, Header
  <2>5. k > 2 => fifo.isEmpty = 1
    BY <1>1, <2>1 DEF ShmFresh, Fields, Header
  <2>6. /\ fifo'.isFull = 0 /\ fifo'.use = 0 /\ fifo'.curRd = 0 /\ fifo'.curWr = 0
        /\ k >= 1 => fifo'.capacity = Capacity
        /\ k >= 2 => fifo'.isEmpty = 1
    BY <1>3, <1>4, <2>1, <2>4, <2>5 DEF ShmFresh, Fields, Header
  <2>7. CASE k = 6
    BY <1>5, <2>1, <2>3, <2>6, <2>7, ShmAssumption DEF ShmFilled, ShmFresh, Holds, InSem
  <2>8. CASE k # 6
    <3>1. shmPc'[p] # "capacity" /\ (k = 1 => shmPc'[p] = "isEmpty")
      BY <1>1, <2>8 DEF Fields
    <3> QED
      BY <1>1, <1>5, <2>1, <2>2, <2>3, <2>6, <2>8, <3>1, FieldNames DEF ShmFresh, Header
  <2> QED
    BY <2>7, <2>8
<1> QED
  BY <1>6, <1>7, <1>8, <1>9, <1>10 DEF ShmInv

(* How a call begins.  One that has not gone on without the semaphore has  *)
(* found it free, with nobody inside; a copy that follows is of n bytes.   *)
LEMMA EnterPreserves ==
  ASSUME NEW p \in Procs, ShmInv, NEW refused \in BOOLEAN, NEW n \in Int,
         NEW place \in {"write1", "read1"}, enters(p, refused, n, place),
         fifo' \in [Header -> Int]
  PROVE  /\ ShmTypeOK' /\ ShmMutex' /\ ShmHeader'
         /\ \E at \in {"ready", "dead", place} :
              /\ \A q \in Procs : shmPc'[q] = IF q = p THEN at ELSE shmPc[q]
              /\ at = place => size'[p] = n
              /\ \A q \in Procs : q # p => size'[q] = size[q]
         /\ ~unguarded' => /\ ~unguarded
                           /\ \A q \in Procs : shmPc[q] \notin InSem
<1>0. ShmTypeOK /\ ShmMutex /\ ShmHeader
  BY DEF ShmInv
<1>1. /\ shmPc[p] = "ready" /\ early' = (early \/ ~complete)
      /\ UNCHANGED <<mem, complete, written, unread, cutShort>>
  BY DEF enters
<1>2. PICK taken \in 0 .. 1 :
         /\ unguarded' = (unguarded \/ taken = 0)
         /\ \/ /\ refused
               /\ \E given \in 0 .. 1 : semop(p, taken, given) /\ failed(2 - taken - given)
               /\ UNCHANGED <<creator, size, shmPc>>
            \/ /\ ~refused /\ n >= 0
               /\ semop(p, taken, 0) /\ failed(1 - taken)
               /\ size' = [size EXCEPT ![p] = n]
               /\ goes(p, place)
               /\ UNCHANGED creator
            \/ /\ ~refused /\ n < 0
               /\ taken <= sem /\ failed(1 - taken)
               /\ gone(p)
  BY DEF enters
<1>3. ~unguarded' => taken = 1 /\ ~unguarded
  <2>1. taken = 0 \/ taken = 1
    OBVIOUS
  <2> QED
    BY <1>2, <2>1, Zenon
<1>4. \E at \in {"ready", "dead", place}, u \in Int :
        /\ \A q \in Procs : shmPc'[q] = IF q = p THEN at ELSE shmPc[q]
        /\ shmPc' \in [Procs -> Places]
        /\ size' \in [Procs -> Nat]
        /\ at = place => size'[p] = n
        /\ \A q \in Procs : q # p => size'[q] = size[q]
        /\ creator' = IF at = "dead" THEN Without(p) ELSE creator
        /\ creator' \in Procs \cup {0, -1}
        /\ sem' \in Nat \cup {-1} /\ taken <= sem /\ sem \in Int
        /\ undo' \in [Procs -> Int] /\ fails' \in 0 .. MaxFails
        /\ \A q \in Procs : undo'[q] = IF q = p THEN u ELSE undo[q]
        /\ taken = 1 /\ undo[p] = 0 => u \in {0, 1} /\ sem' = sem - u
        /\ at = place => u = undo[p] + taken
  <2>0. place \in Places /\ "dead" \in Places /\ "dead" # place /\ "ready" # place
    BY DEF Places, InSem
  <2>1. CASE refused
    <3>1. PICK given \in 0 .. 1 : semop(p, taken, given) /\ failed(2 - taken - given)
      BY <1>2, <2>1
    <3>2. UNCHANGED <<creator, size, shmPc>>
      BY <1>2, <2>1
    <3>3. /\ sem \in Nat /\ taken <= sem /\ sem' = sem - taken + given /\ sem' \in Nat
          /\ undo' \in [Procs -> Int]
          /\ \A q \in Procs : undo'[q] = IF q = p THEN undo[p] + taken - given ELSE undo[q]
      BY <1>0, <3>1, SemopMoves
    <3>4. fails' \in 0 .. MaxFails
      <4>1. 2 - taken - given \in 0 .. 2
        OBVIOUS
      <4> QED
        BY <1>0, <3>1, <4>1, FailsCounted
    <3>5. PICK u \in Int : u = undo[p] + taken - given
      BY <1>0, ShmTypes
    <3>6. taken = 1 /\ undo[p] = 0 => u \in {0, 1} /\ sem' = sem - u
      BY <3>3, <3>5
    <3>7. \A q \in Procs : undo'[q] = IF q = p THEN u ELSE undo[q]
      BY <3>3, <3>5
    <3> QED
      <4>1. "ready" \in {"ready", "dead", place}
        OBVIOUS
      <4>2. \A q \in Procs : shmPc'[q] = IF q = p THEN "ready" ELSE shmPc[q]
        BY <1>1, <3>2
      <4>3. creator' = IF "ready" = "dead" THEN Without(p) ELSE creator
        BY <3>2
      <4>4. /\ shmPc' \in [Procs -> Places] /\ size' \in [Procs -> Nat]
            /\ creator' \in Procs \cup {0, -1}
            /\ \A q \in Procs : q # p => size'[q] = size[q]
            /\ sem \in Int /\ sem' \in Nat \cup {-1}
        BY <1>0, <3>2, <3>3, ShmTypes
      <4> QED
        BY <2>0, <3>3, <3>4, <3>6, <3>7, <4>1, <4>2, <4>3, <4>4, Zenon
  <2>2. CASE ~refused /\ n >= 0
    <3>1. /\ semop(p, taken, 0) /\ failed(1 - taken)
          /\ size' = [size EXCEPT ![p] = n]
          /\ goes(p, place)
          /\ UNCHANGED creator
      BY <1>2, <2>2
    <3>2. /\ sem \in Nat /\ taken <= sem /\ sem' = sem - taken + 0 /\ sem' \in Nat
          /\ undo' \in [Procs -> Int]
          /\ \A q \in Procs : undo'[q] = IF q = p THEN undo[p] + taken - 0 ELSE undo[q]
      BY <1>0, <3>1, SemopMoves
    <3>3. fails' \in 0 .. MaxFails
      <4>1. 1 - taken \in 0 .. 2
        OBVIOUS
      <4> QED
        BY <1>0, <3>1, <4>1, FailsCounted
    <3>4. PICK u \in Int : u = undo[p] + taken
      BY <1>0, ShmTypes
    <3>5. taken = 1 /\ undo[p] = 0 => u \in {0, 1} /\ sem' = sem - u
      BY <3>2, <3>4
    <3>6. \A q \in Procs : undo'[q] = IF q = p THEN u ELSE undo[q]
      BY <3>2, <3>4
    <3>7. /\ shmPc' \in [Procs -> Places]
          /\ \A q \in Procs : shmPc'[q] = IF q = p THEN place ELSE shmPc[q]
      BY <1>0, <2>0, <3>1, Moved
    <3>8. /\ size' \in [Procs -> Nat]
          /\ \A q \in Procs : size'[q] = IF q = p THEN n ELSE size[q]
      <4>1. n \in Nat
        BY <2>2
      <4> QED
        BY <1>0, <3>1, <4>1, Sized
    <3> QED
      <4>1. creator' = (IF place = "dead" THEN Without(p) ELSE creator)
        BY <2>0, <3>1
      <4>2. creator' \in Procs \cup {0, -1} /\ sem \in Int /\ sem' \in Nat \cup {-1}
        BY <1>0, <3>1, <3>2, ShmTypes
      <4> QED
        BY <3>2, <3>3, <3>4, <3>5, <3>6, <3>7, <3>8, <4>1, <4>2, Zenon
  <2>3. CASE ~refused /\ n < 0
    <3>1. taken <= sem /\ failed(1 - taken) /\ gone(p)
      BY <1>2, <2>3
    <3>2. /\ sem' \in Nat \cup {-1} /\ (undo[p] = 0 => sem' = sem)
          /\ undo' \in [Procs -> Int]
          /\ \A q \in Procs : undo'[q] = IF q = p THEN 0 ELSE undo[q]
          /\ creator' = Without(p) /\ creator' \in Procs \cup {0, -1}
          /\ size' \in [Procs -> Nat]
          /\ \A q \in Procs : size'[q] = IF q = p THEN 0 ELSE size[q]
          /\ goes(p, "dead")
      BY <1>0, <3>1, GoneMoves
    <3>3. fails' \in 0 .. MaxFails
      <4>1. 1 - taken \in 0 .. 2
        OBVIOUS
      <4> QED
        BY <1>0, <3>1, <4>1, FailsCounted
    <3>4. /\ shmPc' \in [Procs -> Places]
          /\ \A q \in Procs : shmPc'[q] = IF q = p THEN "dead" ELSE shmPc[q]
      BY <1>0, <2>0, <3>2, Moved
    <3>5. sem \in Int /\ (taken = 1 /\ undo[p] = 0 => 0 \in {0, 1} /\ sem' = sem - 0)
      <4>1. sem \in Int
        BY <1>0, ShmTypes
      <4> QED
        BY <3>2, <4>1
    <3>6. 0 \in Int /\ creator' = (IF "dead" = "dead" THEN Without(p) ELSE creator)
      BY <3>2
    <3> QED
      BY <2>0, <3>1, <3>2, <3>3, <3>4, <3>5, <3>6, Zenon
  <2> QED
    BY <2>1, <2>2, <2>3
<1>5. PICK at \in {"ready", "dead", place}, u \in Int :
        /\ \A q \in Procs : shmPc'[q] = IF q = p THEN at ELSE shmPc[q]
        /\ shmPc' \in [Procs -> Places]
        /\ size' \in [Procs -> Nat]
        /\ at = place => size'[p] = n
        /\ \A q \in Procs : q # p => size'[q] = size[q]
        /\ creator' = IF at = "dead" THEN Without(p) ELSE creator
        /\ creator' \in Procs \cup {0, -1}
        /\ sem' \in Nat \cup {-1} /\ taken <= sem /\ sem \in Int
        /\ undo' \in [Procs -> Int] /\ fails' \in 0 .. MaxFails
        /\ \A q \in Procs : undo'[q] = IF q = p THEN u ELSE undo[q]
        /\ taken = 1 /\ undo[p] = 0 => u \in {0, 1} /\ sem' = sem - u
        /\ at = place => u = undo[p] + taken
  BY <1>4
<1>6. at \in InSem \cup {"ready", "dead"} /\ (at \in InSem => at = place)
  BY DEF InSem
<1>7. ShmTypeOK'
  <2>1. early' \in BOOLEAN /\ unguarded' \in BOOLEAN
    BY <1>1, <1>2
  <2> QED
    BY <1>0, <1>1, <1>5, <2>1, ShmTypes, ShmTypesNext
<1>8. ASSUME unguarded' = FALSE
      PROVE  /\ sem = 1 /\ \A q \in Procs : undo[q] = 0 /\ shmPc[q] \notin InSem
             /\ unguarded = FALSE
             /\ ShmMutex'
  <2>1. taken = 1 /\ unguarded = FALSE
    BY <1>0, <1>3, <1>8, ShmTypes
  <2>2. /\ sem \in {-1, 0, 1}
        /\ \A q \in Procs : sem # 0 => undo[q] = 0
        /\ \A q \in Procs : shmPc[q] \in InSem => undo[q] = 1
    BY <1>0, <2>1 DEF ShmMutex
  <2>3. sem = 1
    BY <1>5, <2>1, <2>2
  <2>4. \A q \in Procs : undo[q] = 0 /\ shmPc[q] \notin InSem
    BY <2>2, <2>3
  <2>5. u \in {0, 1} /\ sem' = 1 - u /\ (at \in InSem => u = 1)
    BY <1>5, <1>6, <2>1, <2>3, <2>4
  <2>6. ShmMutex'
    BY <1>0, <1>5, <1>6, <2>1, <2>3, <2>5, OneHolds, ZenonT(60)
  <2> QED
    BY <2>1, <2>3, <2>4, <2>6
<1>9. ShmMutex'
  BY <1>7, <1>8, ShmTypesNext DEF ShmMutex
<1>10. ShmHeader'
  BY <1>0, <1>1, <1>5, <1>6, HeaderKept
<1>11. ~unguarded' => ~unguarded /\ \A q \in Procs : shmPc[q] \notin InSem
  BY <1>7, <1>8, ShmTypesNext
<1> QED
  BY <1>5, <1>7, <1>9, <1>10, <1>11

(* OSA_fifoWrite, up to the copy: it fits. *)
LEMMA WriteEntersPreserves ==
  ASSUME NEW p \in Procs, ShmInv, NEW len \in Lens, fifoWrite(p, len)
  PROVE  ShmInv'
<1>0. ShmTypeOK /\ ShmRoom /\ ShmData
  BY DEF ShmInv
<1> DEFINE beyond == fifo.capacity < fifo.curWr + len
           n == IF beyond THEN fifo.capacity - fifo.curWr ELSE Least(len, fifo.capacity)
<1>1. /\ enters(p, fifo.isFull = 1, n, "write1")
      /\ fifo' = IF fifo.isFull = 0 /\ beyond THEN [fifo EXCEPT !.isFull = 1] ELSE fifo
  BY DEF fifoWrite
<1>2. /\ fifo \in [Header -> Int] /\ len \in Nat
      /\ fifo.capacity \in Int /\ fifo.curWr \in Int /\ fifo.curRd \in Int /\ fifo.use \in Int
  BY <1>0, ShmTypes, ShmAssumption DEF Header
<1>3. n \in Int /\ fifo.curWr + n <= fifo.capacity
  BY <1>2 DEF Least
<1>4. fifo' \in [Header -> Int]
  BY <1>1, <1>2 DEF Header
<1>5. /\ fifo'.capacity = fifo.capacity /\ fifo'.use = fifo.use /\ fifo'.isEmpty = fifo.isEmpty
      /\ fifo'.curRd = fifo.curRd /\ fifo'.curWr = fifo.curWr
  BY <1>1, <1>2 DEF Header
<1> HIDE DEF n
<1>6. /\ ShmTypeOK' /\ ShmMutex' /\ ShmHeader'
      /\ \E at \in {"ready", "dead", "write1"} :
           /\ \A q \in Procs : shmPc'[q] = IF q = p THEN at ELSE shmPc[q]
           /\ at = "write1" => size'[p] = n
           /\ \A q \in Procs : q # p => size'[q] = size[q]
      /\ ~unguarded' => ~unguarded /\ \A q \in Procs : shmPc[q] \notin InSem
  BY <1>1, <1>3, <1>4, EnterPreserves
<1>7. PICK at \in {"ready", "dead", "write1"} :
        /\ \A q \in Procs : shmPc'[q] = IF q = p THEN at ELSE shmPc[q]
        /\ at = "write1" => size'[p] = n
        /\ \A q \in Procs : q # p => size'[q] = size[q]
  BY <1>6
<1>8. ShmRoom'
  <2> SUFFICES ASSUME ~unguarded'
               PROVE  /\ fifo'.capacity \in {0, Capacity}
                      /\ 0 <= fifo'.curWr /\ fifo'.curWr <= fifo'.capacity
                      /\ \A q \in Procs : shmPc'[q] = "write1" =>
                                            fifo'.curWr + size'[q] <= fifo'.capacity
    BY DEF ShmRoom
  <2>1. \A q \in Procs : shmPc'[q] = "write1" => q = p /\ size'[p] = n
    BY <1>6, <1>7 DEF InSem
  <2> QED
    BY <1>0, <1>3, <1>5, <1>6, <2>1 DEF ShmRoom
<1>9. ShmData'
  <2> SUFFICES ASSUME ~early', ~cutShort', ~unguarded'
               PROVE  complete' /\ ShmFilled'
    BY DEF ShmData
  <2>1. ~early /\ ~cutShort /\ ~unguarded /\ complete /\ complete'
    BY <1>1, <1>6 DEF enters
  <2>2. ShmFilled
    BY <1>0, <2>1 DEF ShmData
  <2>3. \A q \in Procs : shmPc[q] \notin InSem
    BY <1>6
  <2>4. Holds /\ fifo.use <= Len(unread) /\ UNCHANGED <<mem, unread>>
    BY <1>1, <2>2, <2>3 DEF ShmFilled, InSem, enters
  <2>5. \A q \in Procs : shmPc'[q] = "write1" => fifo'.curWr + size'[q] <= Capacity
    <3>1. \A q \in Procs : shmPc'[q] = "write1" => q = p /\ size'[p] = n
      BY <1>7, <2>3 DEF InSem
    <3> QED
      BY <1>3, <1>5, <2>2, <3>1 DEF ShmFilled
  <2>6. \A q \in Procs : shmPc'[q] \notin {"write2", "read1", "read2", "read3"}
    BY <1>7, <2>3 DEF InSem
  <2>7. Holds'
    BY <1>5, <2>4 DEF Holds
  <2> QED
    BY <1>5, <2>1, <2>2, <2>4, <2>5, <2>6, <2>7 DEF ShmFilled
<1> QED
  BY <1>6, <1>8, <1>9 DEF ShmInv

(* OSA_fifoRead, up to the copy: short of the end it reads what is there. *)
LEMMA ReadEntersPreserves ==
  ASSUME NEW p \in Procs, ShmInv, NEW len \in Lens, fifoRead(p, len)
  PROVE  ShmInv'
<1>0. ShmTypeOK /\ ShmRoom /\ ShmData
  BY DEF ShmInv
<1> DEFINE beyond == fifo.capacity < fifo.curRd + len
           n == IF beyond THEN fifo.capacity - fifo.curWr ELSE Least(len, fifo.use)
<1>1. /\ enters(p, fifo.isEmpty = 1, n, "read1")
      /\ fifo' = IF fifo.isEmpty = 0 /\ beyond THEN [fifo EXCEPT !.isEmpty = 1] ELSE fifo
  BY DEF fifoRead
<1>2. /\ fifo \in [Header -> Int] /\ len \in Nat
      /\ fifo.capacity \in Int /\ fifo.curWr \in Int /\ fifo.curRd \in Int /\ fifo.use \in Int
  BY <1>0, ShmTypes, ShmAssumption DEF Header
<1>3. /\ fifo'.capacity = fifo.capacity /\ fifo'.use = fifo.use
      /\ fifo'.curRd = fifo.curRd /\ fifo'.curWr = fifo.curWr
      /\ fifo'.isEmpty \in {1, fifo.isEmpty}
      /\ fifo'.isEmpty = 0 => fifo.isEmpty = 0 /\ ~beyond
  BY <1>1, <1>2 DEF Header
<1>4. n \in Int /\ (fifo'.isEmpty = 0 => n <= fifo.use)
  BY <1>2, <1>3 DEF Least
<1>5. fifo' \in [Header -> Int]
  BY <1>1, <1>2 DEF Header
<1> HIDE DEF n
<1>6. /\ ShmTypeOK' /\ ShmMutex' /\ ShmHeader'
      /\ \E at \in {"ready", "dead", "read1"} :
           /\ \A q \in Procs : shmPc'[q] = IF q = p THEN at ELSE shmPc[q]
           /\ at = "read1" => size'[p] = n
           /\ \A q \in Procs : q # p => size'[q] = size[q]
      /\ ~unguarded' => ~unguarded /\ \A q \in Procs : shmPc[q] \notin InSem
  BY <1>1, <1>4, <1>5, EnterPreserves
<1>7. PICK at \in {"ready", "dead", "read1"} :
        /\ \A q \in Procs : shmPc'[q] = IF q = p THEN at ELSE shmPc[q]
        /\ at = "read1" => size'[p] = n
        /\ \A q \in Procs : q # p => size'[q] = size[q]
  BY <1>6
<1>8. ShmRoom'
  <2>1. \A q \in Procs : shmPc'[q] = "write1" => shmPc[q] = "write1" /\ size'[q] = size[q]
    BY <1>7
  <2> QED
    BY <1>0, <1>3, <1>6, <2>1, RoomKept
<1>9. ShmData'
  <2> SUFFICES ASSUME ~early', ~cutShort', ~unguarded'
               PROVE  complete' /\ ShmFilled'
    BY DEF ShmData
  <2>1. ~early /\ ~cutShort /\ ~unguarded /\ complete /\ complete'
    BY <1>1, <1>6 DEF enters
  <2>2. ShmFilled
    BY <1>0, <2>1 DEF ShmData
  <2>3. \A q \in Procs : shmPc[q] \notin InSem
    BY <1>6
  <2>4. Holds /\ fifo.use <= Len(unread) /\ UNCHANGED <<mem, unread>>
    BY <1>1, <2>2, <2>3 DEF ShmFilled, InSem, enters
  <2>5. \A q \in Procs : shmPc'[q] = "read1" => q = p /\ size'[p] = n
    BY <1>7, <2>3 DEF InSem
  <2>6. \A q \in Procs : shmPc'[q] = "read1" /\ fifo'.isEmpty = 0 => size'[q] <= fifo'.use
    BY <1>3, <1>4, <2>5
  <2>7. \A q \in Procs : shmPc'[q] \notin {"write1", "write2", "read2", "read3"}
    BY <1>7, <2>3 DEF InSem
  <2>8. Holds'
    BY <1>3, <2>4 DEF Holds
  <2>9. \A q \in Procs : shmPc'[q] = "read1" => fifo'.curRd + size'[q] <= Capacity
    <3>1. PICK rd \in Int, wr \in Int, us \in Int, k \in Nat, c \in Int :
             /\ rd = fifo.curRd /\ wr = fifo.curWr /\ us = fifo.use
             /\ k = Len(unread) /\ c = fifo.capacity
      BY <1>0, <1>2, LenProperties, ShmTypes
    <3>2. wr = rd + k /\ us <= k /\ wr <= c /\ c = Capacity
      BY <2>2, <2>4, <3>1 DEF Holds, ShmFilled
    <3>3. n = IF c < rd + len THEN c - wr ELSE Least(len, us)
      BY <3>1 DEF n
    <3>4. rd + n <= Capacity
      BY <1>2, <3>2, <3>3 DEF Least
    <3> QED
      BY <1>3, <2>5, <3>1, <3>4
  <2> QED
    BY <1>3, <2>1, <2>2, <2>4, <2>6, <2>7, <2>8, <2>9 DEF ShmFilled
<1> QED
  BY <1>6, <1>8, <1>9 DEF ShmInv

(* One field of the header is changed. *)
LEMMA UseChanged ==
  ASSUME fifo \in [Header -> Int], NEW v \in Int, fifo' = [fifo EXCEPT !.use = v]
  PROVE  /\ fifo' \in [Header -> Int] /\ fifo'.use = v
         /\ UNCHANGED <<fifo.capacity, fifo.isEmpty, fifo.curRd, fifo.curWr>>
BY DEF Header

LEMMA CurRdChanged ==
  ASSUME fifo \in [Header -> Int], NEW v \in Int, fifo' = [fifo EXCEPT !.curRd = v]
  PROVE  /\ fifo' \in [Header -> Int] /\ fifo'.curRd = v
         /\ UNCHANGED <<fifo.capacity, fifo.isEmpty, fifo.use, fifo.curWr>>
BY DEF Header

LEMMA CurWrChanged ==
  ASSUME fifo \in [Header -> Int], NEW v \in Int, fifo' = [fifo EXCEPT !.curWr = v]
  PROVE  /\ fifo' \in [Header -> Int] /\ fifo'.curWr = v
         /\ UNCHANGED <<fifo.capacity, fifo.isEmpty, fifo.use, fifo.curRd>>
BY DEF Header

LEMMA HeaderAtEnd ==
  ASSUME fifo \in [Header -> Int], NEW v \in Int,
         \/ fifo' = [fifo EXCEPT !.isEmpty = v]
         \/ fifo' = [fifo EXCEPT !.isFull = v]
         \/ fifo' = [fifo EXCEPT !.curRd = v, !.curWr = v, !.use = v, !.isFull = v]
  PROVE  fifo' \in [Header -> Int]
<1>1. CASE fifo' = [fifo EXCEPT !.isEmpty = v]
  BY <1>1
<1>2. CASE fifo' = [fifo EXCEPT !.isFull = v]
  BY <1>2
<1>3. CASE fifo' = [fifo EXCEPT !.curRd = v, !.curWr = v, !.use = v, !.isFull = v]
  BY <1>3
<1> QED
  BY <1>1, <1>2, <1>3

(* The values the header has. *)
LEMMA HeaderValues ==
  ASSUME fifo \in [Header -> Int]
  PROVE  \E rd, wr, us \in Int : rd = fifo.curRd /\ wr = fifo.curWr /\ us = fifo.use
<1>1. fifo.curRd \in Int /\ fifo.curWr \in Int /\ fifo.use \in Int
  BY DEF Header
<1> QED
  BY <1>1, Zenon

LEMMA FunIsSeq ==
  ASSUME NEW S, NEW n \in Nat, NEW s \in [1 .. n -> S]
  PROVE  s \in Seq(S)
OBVIOUS

(* The bytes written are numbered. *)
LEMMA NumbersAppended ==
  ASSUME NEW w \in Nat, NEW n \in Nat, NEW s \in Seq(1 .. w),
         NEW t, t = s \o [i \in 1 .. n |-> w + i]
  PROVE  /\ t \in Seq(1 .. w + n)
         /\ Len(t) = Len(s) + n /\ Len(s) \in Nat
         /\ \A i \in 1 .. Len(t) : t[i] = IF i <= Len(s) THEN s[i] ELSE w + (i - Len(s))
<1> DEFINE new == [i \in 1 .. n |-> w + i]
<1>1. PICK S : S = 1 .. w + n
  OBVIOUS
<1>2. new \in [1 .. n -> S]
  BY <1>1
<1>3. new \in Seq(S) /\ Len(new) = n /\ \A i \in 1 .. n : new[i] = w + i
  <2>1. new \in Seq(S)
    BY <1>2, FunIsSeq
  <2>2. Len(new) \in Nat /\ DOMAIN new = 1 .. Len(new) /\ DOMAIN new = 1 .. n
    BY <2>1, LenProperties
  <2> QED
    BY <2>1, <2>2
<1>4. s \in Seq(S) /\ Len(s) \in Nat
  BY <1>1, LenProperties
<1> HIDE DEF new
<1>5. /\ s \o new \in Seq(S)
      /\ Len(s \o new) = Len(s) + n
      /\ \A i \in 1 .. Len(s) + n :
           (s \o new)[i] = IF i <= Len(s) THEN s[i] ELSE new[i - Len(s)]
  BY <1>3, <1>4, ConcatProperties
<1>6. \A i \in 1 .. Len(s) + n : i > Len(s) => i - Len(s) \in 1 .. n
  BY <1>4
<1>7. \A i \in 1 .. Len(s) + n :
        (s \o new)[i] = IF i <= Len(s) THEN s[i] ELSE w + (i - Len(s))
  BY <1>3, <1>4, <1>5, <1>6
<1> QED
  BY <1>1, <1>4, <1>5, <1>7 DEF new

(* A step inside a call. *)
LEMMA InsidePreserves ==
  ASSUME NEW p \in Procs, ShmMutex, ShmHeader, NEW place \in InSem,
         \A q \in Procs : shmPc'[q] = IF q = p THEN place ELSE shmPc[q],
         shmPc[p] \in InSem,
         UNCHANGED <<sem, undo, creator, complete, unguarded>>
  PROVE  /\ ShmMutex' /\ ShmHeader'
         /\ ~unguarded => \A q \in Procs : q # p => shmPc[q] \notin InSem
<1>1. ShmHeader'
  BY HeaderKept DEF InSem
<1>2. place # "setval" /\ shmPc[p] # "setval"
  BY DEF InSem
<1>3. \A q \in Procs : HoldsSem(q)' <=> HoldsSem(q)
  BY <1>2 DEF HoldsSem
<1>4. ShmMutex'
  BY <1>2, <1>3 DEF ShmMutex
<1>5. ~unguarded => \A q \in Procs : q # p => shmPc[q] \notin InSem
  BY DEF ShmMutex, HoldsSem
<1> QED
  BY <1>1, <1>4, <1>5

(* OSA_fifoWrite copies its bytes behind those that are there. *)
LEMMA WriteCopyPreserves ==
  ASSUME NEW p \in Procs, ShmInv, writeCopy(p)
  PROVE  ShmInv'
<1>0. ShmTypeOK /\ ShmMutex /\ ShmRoom /\ ShmHeader /\ ShmData
  BY DEF ShmInv
<1>1. /\ shmPc[p] = "write1"
      /\ fifo' = [fifo EXCEPT !.curWr = @ + size[p]]
      /\ goes(p, "write2")
      /\ UNCHANGED <<sem, undo, fails, creator, complete, size, early, cutShort, unguarded>>
      /\ written' = written + size[p]
      /\ unread' = unread \o [i \in 1 .. size[p] |-> written + i]
      /\ mem' = [i \in DOMAIN mem |->
                   IF i \in fifo.curWr .. fifo.curWr + size[p] - 1
                     THEN written + 1 + i - fifo.curWr ELSE mem[i]]
  BY DEF writeCopy, semopVars
<1>2. /\ fifo \in [Header -> Int] /\ size[p] \in Nat /\ written \in Nat
      /\ unread \in Seq(1 .. written) /\ Capacity \in Nat
      /\ mem \in [0 .. Capacity - 1 -> 0 .. written]
  BY <1>0, ShmTypes, ShmAssumption
<1>3. PICK rd \in Int, wr \in Int, us \in Int, n \in Nat :
         rd = fifo.curRd /\ wr = fifo.curWr /\ us = fifo.use /\ n = size[p]
  BY <1>2, HeaderValues
<1>4. /\ fifo' \in [Header -> Int] /\ fifo'.curWr = wr + n
      /\ UNCHANGED <<fifo.capacity, fifo.isEmpty, fifo.use, fifo.curRd>>
  <2>1. fifo' = [fifo EXCEPT !.curWr = wr + n] /\ wr + n \in Int
    BY <1>1, <1>3
  <2> QED
    BY <1>2, <2>1, CurWrChanged
<1>5. /\ unread' \in Seq(1 .. written')
      /\ Len(unread') = Len(unread) + n /\ Len(unread) \in Nat
      /\ \A i \in 1 .. Len(unread') :
           unread'[i] = IF i <= Len(unread) THEN unread[i] ELSE written + (i - Len(unread))
  <2>1. unread' = unread \o [i \in 1 .. n |-> written + i] /\ written' = written + n
    BY <1>1, <1>3
  <2> QED
    BY <1>2, <2>1, NumbersAppended
<1>6. /\ mem' \in [0 .. Capacity - 1 -> 0 .. written']
      /\ \A i \in 0 .. Capacity - 1 :
           mem'[i] = IF i \in wr .. wr + n - 1 THEN written + 1 + i - wr ELSE mem[i]
  <2> DEFINE f(i) == IF i \in wr .. wr + n - 1 THEN written + 1 + i - wr ELSE mem[i]
  <2>1. mem' = [i \in 0 .. Capacity - 1 |-> f(i)]
    BY <1>1, <1>2, <1>3
  <2>2. ASSUME NEW i \in 0 .. Capacity - 1
        PROVE  f(i) \in 0 .. written'
    <3>1. written' = written + n /\ mem[i] \in 0 .. written
      BY <1>1, <1>2, <1>3
    <3>2. i \in wr .. wr + n - 1 => written + 1 + i - wr \in 0 .. written + n
      BY <1>2
    <3>3. mem[i] \in 0 .. written + n
      BY <1>2, <3>1
    <3> QED
      BY <3>1, <3>2, <3>3
  <2> QED
    BY <2>1, <2>2
<1>7. /\ shmPc' \in [Procs -> Places]
      /\ \A q \in Procs : shmPc'[q] = IF q = p THEN "write2" ELSE shmPc[q]
  <2>1. "write2" \in Places
    BY DEF Places, InSem
  <2> QED
    BY <1>0, <1>1, <2>1, Moved
<1>8. ShmTypeOK'
  <2>1. written' \in Nat
    BY <1>1, <1>2
  <2> QED
    BY <1>0, <1>1, <1>4, <1>5, <1>6, <1>7, <2>1, ShmTypes, ShmTypesNext
<1>9. /\ ShmMutex' /\ ShmHeader'
      /\ ~unguarded => \A q \in Procs : q # p => shmPc[q] \notin InSem
  BY <1>0, <1>1, <1>7, InsidePreserves DEF InSem
<1>10. ShmRoom'
  <2> SUFFICES ASSUME ~unguarded
               PROVE  /\ fifo'.capacity \in {0, Capacity}
                      /\ 0 <= fifo'.curWr /\ fifo'.curWr <= fifo'.capacity
                      /\ \A q \in Procs : shmPc'[q] # "write1"
    BY <1>1 DEF ShmRoom
  <2>1. \A q \in Procs : shmPc'[q] # "write1"
    BY <1>7, <1>9 DEF InSem
  <2>2. /\ fifo.capacity \in {0, Capacity} /\ 0 <= wr /\ wr + n <= fifo.capacity
    BY <1>0, <1>1, <1>3 DEF ShmRoom
  <2> QED
    BY <1>4, <2>1, <2>2
<1>11. ShmData'
  <2> SUFFICES ASSUME early = FALSE, cutShort = FALSE, unguarded = FALSE
               PROVE  complete' /\ ShmFilled'
    BY <1>1, <1>8, ShmTypesNext DEF ShmData
  <2>1. complete' /\ ShmFilled
    BY <1>0, <1>1, ShmTypes DEF ShmData, ShmFresh, InSem
  <2>2. /\ wr = rd + Len(unread)
        /\ \A i \in 1 .. Len(unread) : mem[rd + i - 1] = unread[i]
        /\ us <= Len(unread) /\ wr + n <= Capacity /\ rd >= 0
    BY <1>1, <1>3, <1>9, <2>1 DEF ShmFilled, Holds, InSem
  <2>3. Holds'
    <3>1. fifo'.curWr = fifo'.curRd + Len(unread')
      <4>1. wr + n = rd + Len(unread')
        BY <1>5, <2>2
      <4> QED
        BY <1>3, <1>4, <4>1
    <3>2. ASSUME NEW i \in 1 .. Len(unread')
          PROVE  mem'[rd + i - 1] = unread'[i]
      <4>1. rd + i - 1 \in 0 .. Capacity - 1
        <5>1. i \in Int /\ 1 <= i /\ i <= Len(unread) + n
          BY <1>5
        <5> QED
          BY <1>2, <1>5, <2>2, <5>1
      <4>2. CASE i <= Len(unread)
        <5>1. i \in 1 .. Len(unread) /\ rd + i - 1 \notin wr .. wr + n - 1
          BY <1>5, <2>2, <4>2
        <5>2. mem'[rd + i - 1] = mem[rd + i - 1]
          BY <1>6, <4>1, <5>1
        <5> QED
          BY <1>5, <2>2, <4>2, <5>1, <5>2
      <4>3. CASE i > Len(unread)
        <5>1. /\ rd + i - 1 \in wr .. wr + n - 1
              /\ written + 1 + (rd + i - 1) - wr = written + (i - Len(unread))
          BY <1>2, <1>5, <2>2, <4>3, SMTT(40)
        <5> QED
          BY <1>5, <1>6, <4>1, <4>3, <5>1
      <4> QED
        BY <1>5, <4>2, <4>3
    <3> QED
      BY <1>3, <1>4, <3>1, <3>2 DEF Holds
  <2>4. \A q \in Procs : /\ shmPc'[q] \notin {"write1", "read1", "read2", "read3"}
                         /\ shmPc'[q] = "write2" => q = p
    BY <1>7, <1>9 DEF InSem
  <2>5. /\ fifo'.use <= Len(unread') /\ fifo'.use + size'[p] <= Len(unread')
        /\ fifo'.curWr <= Capacity /\ fifo'.curRd >= 0
    <3>1. us <= Len(unread') /\ us + n <= Len(unread')
      BY <1>5, <2>2
    <3> QED
      BY <1>1, <1>3, <1>4, <2>2, <3>1
  <2> QED
    BY <1>4, <2>1, <2>3, <2>4, <2>5 DEF ShmFilled
<1> QED
  BY <1>8, <1>9, <1>10, <1>11 DEF ShmInv

(* A reader takes bytes from the front, and leaves the rest. *)
LEMMA FrontTaken ==
  ASSUME NEW S, NEW s \in Seq(S), NEW n \in Nat, NEW t, t = SubSeq(s, n + 1, Len(s))
  PROVE  /\ t \in Seq(S)
         /\ n <= Len(s) => /\ Len(t) = Len(s) - n
                           /\ \A i \in 1 .. Len(t) : t[i] = s[n + i]
         /\ Len(s) \in Nat /\ Len(t) \in Nat
<1>1. Len(s) \in Nat /\ \A i \in n + 1 .. Len(s) : s[i] \in S
  BY ElementOfSeq, LenProperties
<1>2. PICK a \in Int, b \in Int : a = n + 1 /\ b = Len(s)
  BY <1>1
<1>3. /\ SubSeq(s, a, b) \in Seq(S)
      /\ Len(SubSeq(s, a, b)) = IF a <= b THEN b - a + 1 ELSE 0
      /\ \A i \in 1 .. b - a + 1 : SubSeq(s, a, b)[i] = s[a + i - 1]
  BY <1>1, <1>2, SubSeqProperties
<1>4. t = SubSeq(s, a, b)
  BY <1>2
<1>5. n <= Len(s) => Len(t) = Len(s) - n
  BY <1>1, <1>2, <1>3, <1>4
<1>6. ASSUME n <= Len(s), NEW i \in 1 .. Len(t)
      PROVE  t[i] = s[n + i]
  <2>1. i \in 1 .. b - a + 1 /\ a + i - 1 = n + i
    BY <1>1, <1>2, <1>5, <1>6
  <2> QED
    BY <1>3, <1>4, <2>1
<1>7. t \in Seq(S) /\ Len(t) \in Nat
  BY <1>3, <1>4, LenProperties
<1> QED
  BY <1>1, <1>5, <1>6, <1>7

(* OSA_fifoRead moves curRd past what it has copied. *)
LEMMA ReadCopyPreserves ==
  ASSUME NEW p \in Procs, ShmInv, readCopy(p)
  PROVE  ShmInv'
<1>0. ShmTypeOK /\ ShmMutex /\ ShmRoom /\ ShmHeader /\ ShmData
  BY DEF ShmInv
<1>1. /\ shmPc[p] = "read1"
      /\ fifo' = [fifo EXCEPT !.curRd = @ + size[p]]
      /\ unread' = IF fifo.isEmpty = 1 THEN unread
                   ELSE SubSeq(unread, size[p] + 1, Len(unread))
      /\ goes(p, "read2")
      /\ UNCHANGED <<mem, sem, undo, fails, creator, complete, size, written, early, cutShort,
                     unguarded>>
  BY DEF readCopy, semopVars
<1>2. /\ fifo \in [Header -> Int] /\ size[p] \in Nat
      /\ unread \in Seq(1 .. written)
  BY <1>0, <1>1, ShmTypes
<1>3. PICK rd \in Int, wr \in Int, us \in Int, n \in Nat :
         rd = fifo.curRd /\ wr = fifo.curWr /\ us = fifo.use /\ n = size[p]
  BY <1>2, HeaderValues
<1>4. /\ fifo' \in [Header -> Int] /\ fifo'.curRd = rd + n
      /\ UNCHANGED <<fifo.capacity, fifo.isEmpty, fifo.use, fifo.curWr>>
  <2>1. fifo' = [fifo EXCEPT !.curRd = rd + n] /\ rd + n \in Int
    BY <1>1, <1>3
  <2> QED
    BY <1>2, <2>1, CurRdChanged
<1>5. PICK rest : rest = SubSeq(unread, n + 1, Len(unread))
  OBVIOUS
<1>6. /\ rest \in Seq(1 .. written)
      /\ n <= Len(unread) => /\ Len(rest) = Len(unread) - n
                             /\ \A i \in 1 .. Len(rest) : rest[i] = unread[n + i]
      /\ Len(unread) \in Nat /\ Len(rest) \in Nat
  <2>1. PICK S : S = 1 .. written
    OBVIOUS
  <2>2. unread \in Seq(S) /\ n \in Nat
    BY <1>2, <2>1
  <2>3. /\ rest \in Seq(S)
        /\ n <= Len(unread) => /\ Len(rest) = Len(unread) - n
                               /\ \A i \in 1 .. Len(rest) : rest[i] = unread[n + i]
        /\ Len(unread) \in Nat /\ Len(rest) \in Nat
    BY <1>5, <2>2, FrontTaken
  <2> QED
    BY <2>1, <2>3
<1>7. unread' = IF fifo.isEmpty = 1 THEN unread ELSE rest
  BY <1>1, <1>3, <1>5
<1>8. /\ shmPc' \in [Procs -> Places]
      /\ \A q \in Procs : shmPc'[q] = IF q = p THEN "read2" ELSE shmPc[q]
  <2>1. "read2" \in Places
    BY DEF Places, InSem
  <2> QED
    BY <1>0, <1>1, <2>1, Moved
<1>9. ShmTypeOK'
  <2>1. unread' \in Seq(1 .. written')
    BY <1>1, <1>2, <1>6, <1>7
  <2> QED
    BY <1>0, <1>1, <1>4, <1>8, <2>1, ShmTypes, ShmTypesNext
<1>10. /\ ShmMutex' /\ ShmHeader'
       /\ ~unguarded => \A q \in Procs : q # p => shmPc[q] \notin InSem
  BY <1>0, <1>1, <1>8, InsidePreserves DEF InSem
<1>11. ShmRoom'
  <2>1. \A q \in Procs : shmPc'[q] = "write1" => shmPc[q] = "write1" /\ size'[q] = size[q]
    BY <1>1, <1>8
  <2> QED
    BY <1>0, <1>1, <1>4, <2>1, RoomKept
<1>12. ShmData'
  <2> SUFFICES ASSUME early = FALSE, cutShort = FALSE, unguarded = FALSE
               PROVE  complete' /\ ShmFilled'
    BY <1>1, <1>9, ShmTypesNext DEF ShmData
  <2>1. complete' /\ ShmFilled
    BY <1>0, <1>1, ShmTypes DEF ShmData, ShmFresh, InSem
  <2>2. /\ wr = rd + Len(unread)
        /\ \A i \in 1 .. Len(unread) : mem[rd + i - 1] = unread[i]
        /\ us <= Len(unread) /\ wr <= Capacity /\ rd >= 0
        /\ fifo.isEmpty = 0 => n <= us
    BY <1>1, <1>3, <1>10, <2>1 DEF ShmFilled, Holds, InSem
  <2>3. CASE fifo.isEmpty = 0
    <3>1. /\ unread' = rest
          /\ Len(rest) = Len(unread) - n
          /\ \A i \in 1 .. Len(rest) : rest[i] = unread[n + i]
      BY <1>6, <1>7, <2>2, <2>3
    <3>2. wr = rd + n + Len(rest) /\ us - n <= Len(rest) /\ rd + n >= 0
      BY <1>6, <2>2, <3>1
    <3>3. ASSUME NEW i \in 1 .. Len(rest)
          PROVE  mem[rd + n + i - 1] = rest[i]
      <4>1. n + i \in 1 .. Len(unread) /\ rd + (n + i) - 1 = rd + n + i - 1
        BY <1>6, <3>1
      <4> QED
        BY <2>2, <3>1, <4>1
    <3>4. Holds'
      BY <1>1, <1>3, <1>4, <3>1, <3>2, <3>3 DEF Holds
    <3>5. \A q \in Procs : /\ shmPc'[q] \notin {"write1", "write2", "read1", "read3"}
                           /\ shmPc'[q] = "read2" => q = p
      BY <1>8, <1>10 DEF InSem
    <3>6. /\ fifo'.use - size'[p] <= Len(unread') /\ fifo'.curRd >= 0 /\ shmPc'[p] = "read2"
      BY <1>1, <1>3, <1>4, <1>8, <3>1, <3>2
    <3> QED
      BY <1>4, <2>1, <2>3, <3>4, <3>5, <3>6 DEF ShmFilled
  <2>4. CASE fifo.isEmpty = 1
    <3>1. /\ \A q \in Procs : shmPc'[q] \notin {"write1", "write2", "read1"}
          /\ shmPc'[p] = "read2"
      BY <1>8, <1>10 DEF InSem
    <3>2. rd + n >= 0
      BY <2>2
    <3> QED
      BY <1>4, <2>1, <2>4, <3>1, <3>2 DEF ShmFilled
  <2> QED
    BY <2>1, <2>3, <2>4 DEF ShmFilled
<1> QED
  BY <1>9, <1>10, <1>11, <1>12 DEF ShmInv

(* The other steps inside a call. *)
LEMMA WriteUsePreserves ==
  ASSUME NEW p \in Procs, ShmInv, writeUse(p)
  PROVE  ShmInv'
<1>0. ShmTypeOK /\ ShmMutex /\ ShmRoom /\ ShmHeader /\ ShmData
  BY DEF ShmInv
<1>1. /\ shmPc[p] = "write2"
      /\ fifo' = [fifo EXCEPT !.use = @ + size[p]]
      /\ goes(p, "write3")
      /\ UNCHANGED <<mem, sem, undo, fails, creator, complete, size, written, unread, early,
                     cutShort, unguarded>>
  BY DEF writeUse, pastVars, semopVars
<1>2. fifo \in [Header -> Int] /\ size[p] \in Nat
  BY <1>0, ShmTypes
<1>3. PICK us \in Int, n \in Nat : us = fifo.use /\ n = size[p]
  BY <1>2, HeaderValues
<1>4. /\ fifo' \in [Header -> Int] /\ fifo'.use = us + n
      /\ UNCHANGED <<fifo.capacity, fifo.isEmpty, fifo.curRd, fifo.curWr>>
  <2>1. fifo' = [fifo EXCEPT !.use = us + n] /\ us + n \in Int
    BY <1>1, <1>3
  <2> QED
    BY <1>2, <2>1, UseChanged
<1>5. /\ shmPc' \in [Procs -> Places]
      /\ \A q \in Procs : shmPc'[q] = IF q = p THEN "write3" ELSE shmPc[q]
  <2>1. "write3" \in Places
    BY DEF Places, InSem
  <2> QED
    BY <1>0, <1>1, <2>1, Moved
<1>6. ShmTypeOK'
  BY <1>0, <1>1, <1>4, <1>5, ShmTypes, ShmTypesNext
<1>7. /\ ShmMutex' /\ ShmHeader'
      /\ ~unguarded => \A q \in Procs : q # p => shmPc[q] \notin InSem
  BY <1>0, <1>1, <1>5, InsidePreserves DEF InSem
<1>8. ShmRoom'
  <2>1. \A q \in Procs : shmPc'[q] = "write1" => shmPc[q] = "write1" /\ size'[q] = size[q]
    BY <1>1, <1>5
  <2> QED
    BY <1>0, <1>1, <1>4, <2>1, RoomKept
<1>9. ShmData'
  <2> SUFFICES ASSUME early = FALSE, cutShort = FALSE, unguarded = FALSE
               PROVE  complete' /\ ShmFilled'
    BY <1>1, <1>6, ShmTypesNext DEF ShmData
  <2>1. complete' /\ ShmFilled
    BY <1>0, <1>1, ShmTypes DEF ShmData, ShmFresh, InSem
  <2>2. Holds /\ us + n <= Len(unread)
    BY <1>1, <1>3, <1>7, <2>1 DEF ShmFilled, InSem
  <2>3. \A q \in Procs : shmPc'[q] \notin {"write1", "write2", "read1", "read2", "read3"}
    BY <1>5, <1>7 DEF InSem
  <2>4. Holds'
    BY <1>1, <1>4, <2>2 DEF Holds
  <2> QED
    BY <1>1, <1>4, <2>1, <2>2, <2>3, <2>4 DEF ShmFilled
<1> QED
  BY <1>6, <1>7, <1>8, <1>9 DEF ShmInv

LEMMA ReadUsePreserves ==
  ASSUME NEW p \in Procs, ShmInv, readUse(p)
  PROVE  ShmInv'
<1>0. ShmTypeOK /\ ShmMutex /\ ShmRoom /\ ShmHeader /\ ShmData
  BY DEF ShmInv
<1>1. /\ shmPc[p] = "read2"
      /\ fifo' = [fifo EXCEPT !.use = @ - size[p]]
      /\ goes(p, "read3")
      /\ UNCHANGED <<mem, sem, undo, fails, creator, complete, size, written, unread, early,
                     cutShort, unguarded>>
  BY DEF readUse, pastVars, semopVars
<1>2. fifo \in [Header -> Int] /\ size[p] \in Nat
  BY <1>0, ShmTypes
<1>3. PICK us \in Int, n \in Nat : us = fifo.use /\ n = size[p]
  BY <1>2, HeaderValues
<1>4. /\ fifo' \in [Header -> Int] /\ fifo'.use = us - n
      /\ UNCHANGED <<fifo.capacity, fifo.isEmpty, fifo.curRd, fifo.curWr>>
  <2>1. fifo' = [fifo EXCEPT !.use = us - n] /\ us - n \in Int
    BY <1>1, <1>3
  <2> QED
    BY <1>2, <2>1, UseChanged
<1>5. /\ shmPc' \in [Procs -> Places]
      /\ \A q \in Procs : shmPc'[q] = IF q = p THEN "read3" ELSE shmPc[q]
  <2>1. "read3" \in Places
    BY DEF Places, InSem
  <2> QED
    BY <1>0, <1>1, <2>1, Moved
<1>6. ShmTypeOK'
  BY <1>0, <1>1, <1>4, <1>5, ShmTypes, ShmTypesNext
<1>7. /\ ShmMutex' /\ ShmHeader'
      /\ ~unguarded => \A q \in Procs : q # p => shmPc[q] \notin InSem
  BY <1>0, <1>1, <1>5, InsidePreserves DEF InSem
<1>8. ShmRoom'
  <2>1. \A q \in Procs : shmPc'[q] = "write1" => shmPc[q] = "write1" /\ size'[q] = size[q]
    BY <1>1, <1>5
  <2> QED
    BY <1>0, <1>1, <1>4, <2>1, RoomKept
<1>9. ShmData'
  <2> SUFFICES ASSUME early = FALSE, cutShort = FALSE, unguarded = FALSE
               PROVE  complete' /\ ShmFilled'
    BY <1>1, <1>6, ShmTypesNext DEF ShmData
  <2>1. complete' /\ ShmFilled
    BY <1>0, <1>1, ShmTypes DEF ShmData, ShmFresh, InSem
  <2>2. /\ fifo.isEmpty = 0 => Holds /\ us - n <= Len(unread)
    BY <1>1, <1>3, <1>7, <2>1 DEF ShmFilled, InSem
  <2>3. \A q \in Procs : shmPc'[q] \notin {"write1", "write2", "read1", "read2"}
    BY <1>5, <1>7 DEF InSem
  <2>4. fifo.isEmpty = 0 => Holds'
    BY <1>1, <1>4, <2>2 DEF Holds
  <2>5. shmPc'[p] = "read3"
    BY <1>5
  <2> QED
    BY <1>1, <1>4, <2>1, <2>2, <2>3, <2>4, <2>5 DEF ShmFilled
<1> QED
  BY <1>6, <1>7, <1>8, <1>9 DEF ShmInv

(* The end of a call, whether or not semaphore_v fails. *)
LEMMA EndPreserves ==
  ASSUME NEW p \in Procs, ShmInv, writeEnd(p) \/ readEnd(p)
  PROVE  ShmInv'
<1>0. ShmTypeOK /\ ShmMutex /\ ShmRoom /\ ShmHeader /\ ShmData
  BY DEF ShmInv
<1>1. /\ shmPc[p] \in {"write3", "read3"} /\ leaves(p)
      /\ UNCHANGED <<mem, creator, complete, written, early, cutShort, unguarded>>
  BY DEF writeEnd, readEnd, pastVars
<1>2. fifo \in [Header -> Int] /\ unread \in Seq(1 .. written)
  BY <1>0, ShmTypes
<1>3. \/ /\ shmPc[p] = "write3"
         /\ fifo' = [fifo EXCEPT !.isEmpty = 0]
         /\ unread' = unread
      \/ /\ shmPc[p] = "read3" /\ fifo.isEmpty = 1
         /\ fifo' = [fifo EXCEPT !.curRd = 0, !.curWr = 0, !.use = 0, !.isFull = 0]
         /\ unread' = <<>>
      \/ /\ shmPc[p] = "read3" /\ fifo.isEmpty = 0
         /\ fifo' = [fifo EXCEPT !.isFull = 0]
         /\ unread' = unread
  BY DEF writeEnd, readEnd, pastVars
<1>4. fifo' \in [Header -> Int] /\ unread' \in Seq(1 .. written)
  <2>1. unread' \in Seq(1 .. written)
    BY <1>2, <1>3, EmptySeq, ZenonT(60)
  <2>2. fifo' \in [Header -> Int]
    <3>1. 0 \in Int
      OBVIOUS
    <3> QED
      BY <1>2, <1>3, <3>1, HeaderAtEnd, Zenon
  <2> QED
    BY <2>1, <2>2
<1>5. PICK given \in 0 .. 1 : semop(p, 0, given) /\ failed(1 - given)
  BY <1>1 DEF leaves
<1>6. /\ sem \in Nat /\ sem' = sem + given /\ sem' \in Nat
      /\ undo' \in [Procs -> Int]
      /\ \A q \in Procs : undo'[q] = IF q = p THEN undo[p] - given ELSE undo[q]
      /\ undo[p] \in Int
  <2>1. /\ sem \in Nat /\ sem' = sem - 0 + given /\ sem' \in Nat
        /\ undo' \in [Procs -> Int]
        /\ \A q \in Procs : undo'[q] = IF q = p THEN undo[p] + 0 - given ELSE undo[q]
    BY <1>0, <1>5, SemopMoves
  <2>2. undo[p] \in Int
    BY <1>0, ShmTypes
  <2> QED
    BY <2>1, <2>2
<1>7. /\ shmPc' \in [Procs -> Places]
      /\ \A q \in Procs : shmPc'[q] = IF q = p THEN "ready" ELSE shmPc[q]
      /\ size' \in [Procs -> Nat]
  <2>1. "ready" \in Places /\ 0 \in Nat /\ goes(p, "ready") /\ size' = [size EXCEPT ![p] = 0]
    BY <1>1 DEF Places, leaves
  <2> QED
    BY <1>0, <2>1, Moved, Sized
<1>8. ShmTypeOK'
  <2>1. fails' \in 0 .. MaxFails
    <3>1. 1 - given \in 0 .. 2
      OBVIOUS
    <3> QED
      BY <1>0, <1>5, <3>1, FailsCounted
  <2> QED
    BY <1>0, <1>1, <1>4, <1>6, <1>7, <2>1, ShmTypes, ShmTypesNext
<1>9. ASSUME unguarded = FALSE
      PROVE  ShmMutex' /\ \A q \in Procs : q # p => shmPc[q] \notin InSem
  <2>1. undo[p] = 1 /\ sem = 0 /\ \A q \in Procs : q # p => shmPc[q] \notin InSem
    BY <1>0, <1>1, <1>6, <1>9 DEF ShmMutex, HoldsSem, InSem
  <2>2. PICK u \in {0, 1} : u = 1 - given
    OBVIOUS
  <2>3. /\ sem' = 1 - u
        /\ \A q \in Procs : undo'[q] = IF q = p THEN u ELSE undo[q]
    BY <1>6, <2>1, <2>2
  <2>4. ShmMutex'
    BY <1>0, <1>7, <1>9, <2>1, <2>3, OneHolds, ZenonT(60) DEF InSem
  <2> QED
    BY <2>1, <2>4
<1>10. ShmMutex' /\ (~unguarded => \A q \in Procs : shmPc'[q] \notin InSem)
  <2>1. ShmMutex'
    BY <1>1, <1>8, <1>9, ShmTypesNext DEF ShmMutex
  <2>2. ~unguarded => \A q \in Procs : shmPc'[q] \notin InSem
    <3>1. unguarded = FALSE => \A q \in Procs : shmPc'[q] \notin InSem
      BY <1>7, <1>9 DEF InSem
    <3> QED
      BY <1>0, <3>1, ShmTypes
  <2> QED
    BY <2>1, <2>2
<1>11. ShmHeader'
  BY <1>0, <1>1, <1>7, HeaderKept DEF InSem
<1>12. ShmRoom'
  <2> SUFFICES ASSUME ~unguarded
               PROVE  /\ fifo'.capacity \in {0, Capacity}
                      /\ 0 <= fifo'.curWr /\ fifo'.curWr <= fifo'.capacity
                      /\ \A q \in Procs : shmPc'[q] # "write1"
    BY <1>1 DEF ShmRoom
  <2>1. \A q \in Procs : shmPc'[q] # "write1"
    BY <1>10 DEF InSem
  <2>2. /\ fifo'.capacity = fifo.capacity
        /\ fifo'.curWr \in {0, fifo.curWr}
    BY <1>2, <1>3 DEF Header
  <2>3. /\ fifo.capacity \in {0, Capacity}
        /\ 0 <= fifo.curWr /\ fifo.curWr <= fifo.capacity
        /\ Capacity \in Nat
    BY <1>0, ShmAssumption DEF ShmRoom
  <2> QED
    BY <2>1, <2>2, <2>3
<1>13. ShmData'
  <2> SUFFICES ASSUME early = FALSE, cutShort = FALSE, unguarded = FALSE
               PROVE  complete' /\ ShmFilled'
    BY <1>1, <1>8, ShmTypesNext DEF ShmData
  <2>1. complete' /\ ShmFilled
    BY <1>0, <1>1, ShmTypes DEF ShmData, ShmFresh, InSem
  <2>2. CASE /\ fifo.isEmpty = 1 /\ shmPc[p] = "read3"
             /\ fifo' = [fifo EXCEPT !.curRd = 0, !.curWr = 0, !.use = 0, !.isFull = 0]
             /\ unread' = <<>>
    <3>1. /\ fifo'.capacity = fifo.capacity /\ fifo'.isEmpty = fifo.isEmpty
          /\ fifo'.curRd = 0 /\ fifo'.curWr = 0 /\ fifo'.use = 0
      BY <1>2, <2>2 DEF Header
    <3>2. Len(unread') = 0
      BY <2>2
    <3>3. Holds'
      BY <3>1, <3>2 DEF Holds
    <3>4. fifo'.use <= Len(unread') /\ fifo'.curRd >= 0 /\ fifo'.curWr <= Capacity
      BY <3>1, <3>2, ShmAssumption
    <3> QED
      BY <1>10, <2>1, <3>1, <3>3, <3>4 DEF ShmFilled, InSem
  <2>3. CASE ~(fifo.isEmpty = 1 /\ shmPc[p] = "read3")
    <3>1. /\ UNCHANGED <<fifo.capacity, fifo.use, fifo.curRd, fifo.curWr, unread>>
          /\ fifo'.isEmpty \in {0, fifo.isEmpty}
      BY <1>2, <1>3, <2>3 DEF Header
    <3>2. Holds /\ fifo.use <= Len(unread)
      BY <1>1, <1>3, <1>9, <2>1, <2>3 DEF ShmFilled, InSem
    <3>3. Holds'
      BY <1>1, <3>1, <3>2 DEF Holds
    <3> QED
      BY <1>10, <2>1, <3>1, <3>2, <3>3 DEF ShmFilled, InSem
  <2> QED
    BY <1>3, <2>2, <2>3
<1> QED
  BY <1>8, <1>10, <1>11, <1>12, <1>13 DEF ShmInv

(* A process that dies leaves the header as it is and, when it held the    *)
(* semaphore, the semaphore free.                                          *)
LEMMA DiePreserves ==
  ASSUME NEW p \in Procs, ShmInv, die(p)
  PROVE  ShmInv'
<1>0. ShmTypeOK /\ ShmMutex /\ ShmRoom /\ ShmHeader /\ ShmData
  BY DEF ShmInv
<1>1. /\ UNCHANGED <<fifo, mem, complete, written, unread, early, fails, unguarded>>
      /\ gone(p)
      /\ cutShort' = (cutShort \/ shmPc[p] \in {"read2", "read3"})
  BY DEF die
<1>2. /\ sem' \in Nat \cup {-1}
      /\ undo[p] = 0 => sem' = sem
      /\ undo[p] = 1 => sem' = sem + 1
      /\ undo' \in [Procs -> Int]
      /\ \A q \in Procs : undo'[q] = IF q = p THEN 0 ELSE undo[q]
      /\ creator' = Without(p) /\ creator' \in Procs \cup {0, -1}
      /\ size' \in [Procs -> Nat]
      /\ \A q \in Procs : size'[q] = IF q = p THEN 0 ELSE size[q]
      /\ goes(p, "dead")
  BY <1>0, <1>1, GoneMoves
<1>3. /\ shmPc' \in [Procs -> Places]
      /\ \A q \in Procs : shmPc'[q] = IF q = p THEN "dead" ELSE shmPc[q]
  <2>1. "dead" \in Places
    BY DEF Places
  <2> QED
    BY <1>0, <1>2, <2>1, Moved
<1>4. ShmTypeOK'
  <2>1. cutShort' \in BOOLEAN
    BY <1>0, <1>1, ShmTypes
  <2> QED
    BY <1>0, <1>1, <1>2, <1>3, <2>1, ShmTypes, ShmTypesNext
<1>5. ShmMutex'
  <2> SUFFICES ASSUME unguarded = FALSE
               PROVE  ShmMutex'
    BY <1>0, <1>1, ShmTypes DEF ShmMutex
  <2>0. undo[p] \in {0, 1} /\ (undo[p] = 1 => sem = 0)
    BY <1>0 DEF ShmMutex
  <2>1. CASE undo[p] = 1
    <3>1. PICK u \in {0, 1} : u = 0
      OBVIOUS
    <3>2. sem' = 1 - u /\ \A q \in Procs : undo'[q] = IF q = p THEN u ELSE undo[q]
      BY <1>2, <2>0, <2>1, <3>1
    <3> QED
      BY <1>0, <1>3, <2>1, <3>2, OneHolds, ZenonT(60) DEF InSem
  <2>2. CASE undo[p] = 0
    <3>1. sem' = sem /\ \A q \in Procs : undo'[q] = undo[q]
      BY <1>2, <2>2
    <3>2. \A q \in Procs : shmPc'[q] \in InSem \cup {"setval"} => shmPc'[q] = shmPc[q]
      BY <1>3 DEF InSem
    <3>3. \A q \in Procs : HoldsSem(q)' => HoldsSem(q)
      BY <3>1, <3>2 DEF HoldsSem
    <3> QED
      BY <1>0, <1>1, <3>1, <3>2, <3>3 DEF ShmMutex
  <2> QED
    BY <2>0, <2>1, <2>2
<1>6. ShmHeader'
  BY <1>0, <1>1, <1>2, <1>3, HeaderKept
<1>7. ShmRoom'
  <2>1. \A q \in Procs : shmPc'[q] = "write1" => shmPc[q] = "write1" /\ size'[q] = size[q]
    BY <1>2, <1>3
  <2> QED
    BY <1>0, <1>1, <2>1, RoomKept
<1>8. ShmData'
  <2> SUFFICES ASSUME early = FALSE, cutShort' = FALSE, unguarded = FALSE
               PROVE  IF complete THEN ShmFilled' ELSE ShmFresh'
    BY <1>1, <1>4, ShmTypesNext DEF ShmData
  <2>1. ~early /\ ~cutShort /\ ~unguarded /\ shmPc[p] \notin {"read2", "read3"}
    BY <1>0, <1>1, ShmTypes
  <2>2. CASE complete
    <3>1. ShmFilled
      BY <1>0, <2>1, <2>2 DEF ShmData
    <3>2. Holds => Holds'
      BY <1>1 DEF Holds
    <3>3. \A q \in Procs : shmPc[q] \in {"read2", "read3"} => shmPc'[q] = shmPc[q]
      BY <1>3, <2>1
    <3>4. \A q \in Procs : shmPc'[q] # "dead" => shmPc'[q] = shmPc[q] /\ size'[q] = size[q]
      BY <1>2, <1>3
    <3> QED
      BY <1>1, <2>2, <3>1, <3>2, <3>3, <3>4 DEF ShmFilled
  <2>3. CASE ~complete
    <3>1. ShmFresh
      BY <1>0, <2>1, <2>3 DEF ShmData
    <3> QED
      BY <1>1, <1>3, <2>3, <3>1 DEF ShmFresh, Header, InSem
  <2> QED
    BY <2>2, <2>3
<1> QED
  BY <1>4, <1>5, <1>6, <1>7, <1>8 DEF ShmInv

LEMMA RestartPreserves ==
  ASSUME NEW p \in Procs, ShmInv, restart(p)
  PROVE  ShmInv'
<1>0. ShmTypeOK /\ ShmMutex /\ ShmRoom /\ ShmHeader /\ ShmData
  BY DEF ShmInv
<1>1. /\ UNCHANGED <<fifo, mem, sem, undo, fails, creator, complete, size, written, unread,
                     early, cutShort, unguarded>>
      /\ shmPc[p] = "dead" /\ goes(p, "start")
  BY DEF restart, pastVars, semopVars
<1>2. /\ shmPc' \in [Procs -> Places]
      /\ \A q \in Procs : shmPc'[q] = IF q = p THEN "start" ELSE shmPc[q]
  <2>1. "start" \in Places
    BY DEF Places
  <2> QED
    BY <1>0, <1>1, <2>1, Moved
<1>3. ShmTypeOK'
  BY <1>0, <1>1, <1>2, ShmTypes, ShmTypesNext
<1>4. ShmMutex'
  <2>1. \A q \in Procs : HoldsSem(q)' => HoldsSem(q)
    BY <1>1, <1>2 DEF HoldsSem
  <2> QED
    BY <1>0, <1>1, <1>2, <2>1 DEF ShmMutex, InSem
<1>5. ShmHeader'
  BY <1>0, <1>1, <1>2 DEF ShmHeader, Header
<1>6. ShmRoom'
  BY <1>0, <1>1, <1>2, RoomKept
<1>7. ShmFilled => ShmFilled'
  BY <1>1, <1>2 DEF ShmFilled, Holds
<1>8. ShmFresh => ShmFresh'
  BY <1>1, <1>2 DEF ShmFresh, Header, InSem
<1>9. ShmData'
  BY <1>0, <1>1, <1>7, <1>8 DEF ShmData
<1> QED
  BY <1>3, <1>4, <1>5, <1>6, <1>9 DEF ShmInv

LEMMA ShmInvariance == ShmSpec => []ShmInv
<1>1. ShmInv /\ [ShmNext]_shmVars => ShmInv'
  <2> SUFFICES ASSUME ShmInv, [ShmNext]_shmVars PROVE ShmInv'
    OBVIOUS
  <2>1. CASE UNCHANGED shmVars
    <3>1. /\ UNCHANGED <<fifo, mem, sem, undo, creator, complete, shmPc, size, written, unread>>
          /\ UNCHANGED <<early, cutShort, fails, unguarded>>
      BY <2>1 DEF shmVars
    <3>2. ShmTypeOK' /\ ShmHeader'
      BY <3>1 DEF ShmInv, ShmTypeOK, ShmHeader
    <3>3. ShmMutex' /\ ShmRoom'
      BY <3>1 DEF ShmInv, ShmMutex, HoldsSem, ShmRoom
    <3>4. ShmData'
      BY <3>1 DEF ShmInv, ShmData, ShmFilled, ShmFresh, Holds
    <3> QED
      BY <3>2, <3>3, <3>4 DEF ShmInv
  <2>2. ASSUME NEW p \in Procs, shmStep(p)
        PROVE  ShmInv'
    <3>1. CASE getBlock(p) \/ getSem(p) \/ setVal(p)
      BY <3>1, CreatePreserves
    <3>2. CASE \E k \in 1 .. 6 : setField(p, k)
      BY <3>2, SetFieldPreserves
    <3>3. CASE \E len \in Lens : fifoWrite(p, len) \/ fifoRead(p, len)
      BY <3>3, WriteEntersPreserves, ReadEntersPreserves
    <3>4. CASE writeCopy(p) \/ writeUse(p) \/ readCopy(p) \/ readUse(p)
      BY <3>4, WriteCopyPreserves, WriteUsePreserves, ReadCopyPreserves, ReadUsePreserves
    <3>5. CASE writeEnd(p) \/ readEnd(p) \/ die(p) \/ restart(p)
      BY <3>5, EndPreserves, DiePreserves, RestartPreserves
    <3> QED
      BY <2>2, <3>1, <3>2, <3>3, <3>4, <3>5 DEF shmStep
  <2> QED
    BY <2>1, <2>2 DEF ShmNext
<1> QED
  BY ShmInitInv, <1>1, PTL DEF ShmSpec

(* osa_shm.c: only bytes that were written lie in the block and are still  *)
(* to be read, and no length that is copied is negative, whoever creates   *)
(* the block, dies, is started again or goes on without the semaphore.     *)
THEOREM ShmTypesHold == ShmSpec => []ShmTypeOK
<1>1. ShmInv => ShmTypeOK
  BY DEF ShmInv
<1> QED
  BY ShmInvariance, <1>1, PTL

(* OSA_fifoWrite, OSA_fifoRead: for any number of processes, any size of   *)
(* the block and any lengths, what is written and not yet read stays in    *)
(* the fifo, in its order, while the semaphore can be taken; also after    *)
(* the death of a writer at any point, and of a reader that had not moved  *)
(* curRd.  Calls of semop may fail, any number of them: it ends with the   *)
(* first read or write that goes on without the semaphore.                 *)
THEOREM UnreadIsHeld == ShmSpec => []ShmHoldsUnread
<1>1. ShmInv => ShmHoldsUnread
  <2> SUFFICES ASSUME ShmInv, sem > 0, ~early, ~cutShort, ~unguarded
               PROVE  /\ Holds /\ fifo.use <= Len(unread)
    BY DEF ShmHoldsUnread, Holds
  <2>1. \A p \in Procs : shmPc[p] \notin InSem
    BY DEF ShmInv, ShmMutex
  <2>2. CASE complete
    BY <2>1, <2>2 DEF ShmInv, ShmData, ShmFilled, InSem
  <2>3. CASE ~complete
    <3>1. /\ fifo.use = 0 /\ fifo.curRd = 0 /\ fifo.curWr = 0
          /\ unread = <<>>
      BY <2>3 DEF ShmInv, ShmData, ShmFresh
    <3>2. Len(unread) = 0
      BY <3>1
    <3> QED
      BY <3>1, <3>2 DEF Holds
  <2> QED
    BY <2>2, <2>3
<1> QED
  BY ShmInvariance, <1>1, PTL

(* OSA_fifoWrite, OSA_fifoRead: what they copy lies inside the fifo, also  *)
(* the read past its end, which takes its length from the room left; and   *)
(* what a write copies also while the creator is filling in the header.    *)
(* It ends with the first call that goes on without the semaphore.         *)
THEOREM CopiesStayInside == ShmSpec => []ShmCopiesInside
<1>1. ShmInv => ShmCopiesInside
  <2> SUFFICES ASSUME ShmInv, ~unguarded, NEW p \in Procs
               PROVE  /\ shmPc[p] = "write1" => fifo.curWr >= 0 /\ fifo.curWr + size[p] <= Capacity
                      /\ shmPc[p] = "read1" /\ ~early /\ ~cutShort =>
                           fifo.curRd >= 0 /\ fifo.curRd + size[p] <= Capacity
    BY DEF ShmCopiesInside
  <2>1. ASSUME shmPc[p] = "write1"
        PROVE  fifo.curWr >= 0 /\ fifo.curWr + size[p] <= Capacity
    <3>1. /\ fifo.capacity \in {0, Capacity} /\ Capacity \in Nat
          /\ 0 <= fifo.curWr /\ fifo.curWr + size[p] <= fifo.capacity
      BY <2>1, ShmAssumption DEF ShmInv, ShmRoom
    <3>2. fifo.curWr \in Int /\ size[p] \in Nat
      BY ShmTypes DEF ShmInv, Header
    <3> QED
      BY <3>1, <3>2
  <2>2. ASSUME shmPc[p] = "read1", ~early, ~cutShort
        PROVE  fifo.curRd >= 0 /\ fifo.curRd + size[p] <= Capacity
    <3>1. ShmFilled
      BY <2>2 DEF ShmInv, ShmData, ShmFresh, InSem
    <3> QED
      BY <2>2, <3>1 DEF ShmFilled
  <2> QED
    BY <2>1, <2>2
<1> QED
  BY ShmInvariance, <1>1, PTL
-----------------------------------------------------------------------------
(* The three together: each is run by itself, and keeps its types.         *)
THEOREM TogetherTyped == MCSpec => []TypesOK
<1>1. MCInit => Init /\ SemInit /\ ShmInit
  BY DEF MCInit
<1>2. [MCNext]_mcVars => [Next]_vars /\ [SemNext]_semVars /\ [ShmNext]_shmVars
  BY Zenon DEF MCNext, mcVars, vars, semVars, shmVars
<1>3. TypeOK /\ SemTypeOK /\ ShmTypeOK /\ ShmCopiesInside => TypesOK
  BY DEF TypesOK
<1>4. MCSpec => Spec /\ SemSpec /\ ShmSpec
  BY <1>1, <1>2, PTL DEF MCSpec, Spec, SemSpec, ShmSpec
<1> QED
  BY <1>3, <1>4, TypeCorrect, SemTypesHold, ShmTypesHold, CopiesStayInside, PTL
=============================================================================
