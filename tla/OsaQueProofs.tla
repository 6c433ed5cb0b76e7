---------------------------- MODULE OsaQueProofs ----------------------------
(***************************************************************************)
(* The queue of osa_que.c for any number of callers and any length: its    *)
(* ring stays consistent, no wake-up is lost, and it implements Fifo.      *)
(***************************************************************************)
EXTENDS OsaQue, FiniteSetTheorems, SequenceTheorems, TLAPS

(* A place of the ring and the k places after it. *)
LEMMA RingIndex ==
  ASSUME NEW r \in Places, NEW k \in 0 .. MaxLen
  PROVE  /\ (r + k) % MaxLen = IF r + k < MaxLen THEN r + k ELSE r + k - MaxLen
         /\ (r + k) % MaxLen \in Places
<1>1. r + k \in 0 .. 2 * MaxLen - 1 /\ MaxLen \in Nat \ {0}
  BY QueAssumption DEF Places
<1>2. ASSUME NEW a \in 0 .. 2 * MaxLen - 1
      PROVE  a % MaxLen = IF a < MaxLen THEN a ELSE a - MaxLen
  <2>1. CASE a < MaxLen
    BY <1>1, <2>1
  <2>2. CASE ~(a < MaxLen)
    BY <1>1, <2>2
  <2>3. QED
    BY <2>1, <2>2
<1>3. QED
  BY <1>1, <1>2 DEF Places

(* The callers at a place can be counted. *)
LEMMA AtFinite ==
  ASSUME NEW place
  PROVE  IsFiniteSet(At(place)) /\ Cardinality(At(place)) \in Nat
BY QueAssumption, FS_Subset, FS_CardinalityType DEF At

LEMMA AtFiniteNext ==
  ASSUME NEW place
  PROVE  Cardinality(At(place)') \in Nat
BY QueAssumption, FS_Subset, FS_CardinalityType DEF At

(* The ring after a put: written where it was free, and read as before. *)
LEMMA StoreRing ==
  ASSUME RingOK, RingInv, NEW t \in Threads, pc[t] = "put", store(t)
  PROVE  /\ RingOK'
         /\ curWr' = (curRd' + count') % MaxLen
         /\ \A i \in 0 .. count - 1 :
              queue'[(curRd' + i) % MaxLen] = queue[(curRd + i) % MaxLen]
         /\ queue'[(curRd' + count) % MaxLen] = value[t]
         /\ value[t] \in Values
<1> USE QueAssumption DEF store
<1>1. /\ curRd \in Places /\ count \in 0 .. MaxLen - 1
      /\ count' = count + 1 /\ curRd' = curRd
      /\ curWr \in Places
      /\ curWr = (curRd + count) % MaxLen
  BY DEF RingOK, RingInv
<1>2. value[t] \in Values
  BY DEF RingInv
<1>3. curWr' \in Places /\ curWr' = (curRd' + count') % MaxLen
  <2>1. count \in 0 .. MaxLen /\ count + 1 \in 0 .. MaxLen /\ 1 \in 0 .. MaxLen
    BY <1>1
  <2>2. (curRd + count) % MaxLen =
          IF curRd + count < MaxLen THEN curRd + count ELSE curRd + count - MaxLen
    BY <1>1, <2>1, RingIndex
  <2>3. (curRd + (count + 1)) % MaxLen =
          IF curRd + (count + 1) < MaxLen THEN curRd + (count + 1)
                                          ELSE curRd + (count + 1) - MaxLen
    BY <1>1, <2>1, RingIndex
  <2>4. /\ (curWr + 1) % MaxLen = IF curWr + 1 < MaxLen THEN curWr + 1 ELSE curWr + 1 - MaxLen
        /\ (curWr + 1) % MaxLen \in Places
    BY <1>1, <2>1, RingIndex
  <2>5. QED
    BY <1>1, <2>2, <2>3, <2>4 DEF Places
<1>4. ASSUME NEW i \in 0 .. count - 1
      PROVE  queue'[(curRd' + i) % MaxLen] = queue[(curRd + i) % MaxLen]
  <2>1. i \in 0 .. MaxLen /\ count \in 0 .. MaxLen
    BY <1>1
  <2>2. /\ (curRd + i) % MaxLen = IF curRd + i < MaxLen THEN curRd + i
                                                       ELSE curRd + i - MaxLen
        /\ (curRd + i) % MaxLen \in Places
        /\ (curRd + count) % MaxLen = IF curRd + count < MaxLen THEN curRd + count
                                                               ELSE curRd + count - MaxLen
    BY <1>1, <2>1, RingIndex
  <2>3. (curRd + i) % MaxLen # curWr
    BY <1>1, <2>2 DEF Places
  <2>4. QED
    BY <1>1, <2>2, <2>3 DEF RingOK
<1>5. queue'[(curRd' + count) % MaxLen] = value[t]
  BY <1>1 DEF RingOK
<1>6. RingOK'
  BY <1>1, <1>2, <1>3 DEF RingOK
<1>7. QED
  BY <1>1, <1>2, <1>3, <1>4, <1>5, <1>6

(* The ring after a get: one place shorter at its front. *)
LEMMA FetchRing ==
  ASSUME RingOK, RingInv, NEW t \in Threads, fetch(t)
  PROVE  /\ RingOK'
         /\ curWr' = (curRd' + count') % MaxLen
         /\ \A i \in 0 .. count - 2 :
              queue'[(curRd' + i) % MaxLen] = queue[(curRd + (i + 1)) % MaxLen]
         /\ queue[curRd] = queue[(curRd + 0) % MaxLen]
<1> USE QueAssumption DEF fetch
<1>1. /\ curRd \in Places /\ count \in 1 .. MaxLen
      /\ count' = count - 1 /\ curRd' = (curRd + 1) % MaxLen
      /\ curWr' = curWr /\ queue' = queue
      /\ curWr = (curRd + count) % MaxLen
  BY DEF RingOK, RingInv
<1>2. curRd' \in Places
  BY <1>1, RingIndex DEF Places
<1>3. \A i \in 0 .. count - 1 : (curRd' + i) % MaxLen = (curRd + (i + 1)) % MaxLen
  <2> TAKE i \in 0 .. count - 1
  <2>1. i \in 0 .. MaxLen /\ i + 1 \in 0 .. MaxLen /\ 1 \in 0 .. MaxLen
    BY <1>1
  <2>2. (curRd' + i) % MaxLen =
          IF curRd' + i < MaxLen THEN curRd' + i ELSE curRd' + i - MaxLen
    BY <1>2, <2>1, RingIndex
  <2>3. (curRd + (i + 1)) % MaxLen =
          IF curRd + (i + 1) < MaxLen THEN curRd + (i + 1) ELSE curRd + (i + 1) - MaxLen
    BY <1>1, <2>1, RingIndex
  <2>4. (curRd + 1) % MaxLen = IF curRd + 1 < MaxLen THEN curRd + 1 ELSE curRd + 1 - MaxLen
    BY <1>1, <2>1, RingIndex
  <2>5. QED
    BY <1>1, <2>1, <2>2, <2>3, <2>4 DEF Places
<1>4. curWr' = (curRd' + count') % MaxLen
  BY <1>1, <1>3
<1>5. (curRd + 0) % MaxLen = curRd
  <2>1. 0 \in 0 .. MaxLen
    BY <1>1
  <2>2. (curRd + 0) % MaxLen =
          IF curRd + 0 < MaxLen THEN curRd + 0 ELSE curRd + 0 - MaxLen
    BY <1>1, <2>1, RingIndex
  <2>3. QED
    BY <1>1, <2>2 DEF Places
<1>6. RingOK'
  BY <1>1, <1>2 DEF RingOK
<1>7. QED
  BY <1>1, <1>3, <1>4, <1>5, <1>6

(* A step that moves one caller: it leaves one place and joins another. *)
LEMMA Moved ==
  ASSUME CallsOK, NEW t \in Threads, NEW here, NEW to, pc[t] = here, here # to,
         pc' = [pc EXCEPT ![t] = to]
  PROVE  /\ Cardinality(At(here)') = Cardinality(At(here)) - 1
         /\ Cardinality(At(to)') = Cardinality(At(to)) + 1
         /\ \A place : place # here /\ place # to => At(place)' = At(place)
<1>1. t \in At(here) /\ t \notin At(to)
  BY DEF At
<1>2. At(here)' = At(here) \ {t} /\ At(to)' = At(to) \cup {t}
  BY DEF At, CallsOK
<1>3. \A place : place # here /\ place # to => At(place)' = At(place)
  BY DEF At, CallsOK
<1>4. Cardinality(At(here) \ {t}) = Cardinality(At(here)) - 1
  BY <1>1, AtFinite, FS_RemoveElement
<1>5. Cardinality(At(to) \cup {t}) = Cardinality(At(to)) + 1
  BY <1>1, AtFinite, FS_AddElement
<1>6. QED
  BY <1>2, <1>3, <1>4, <1>5, Zenon

(* A signal: the signaller is gone from its place, and unless nobody waits *)
(* one more caller is on its way.                                          *)
LEMMA Signalled ==
  ASSUME CallsOK, NEW t \in Threads, NEW here, pc[t] = here, NEW waiting, NEW again, NEW other,
         here \notin {"idle", waiting, again, other},
         waiting \notin {"idle", again, other}, again \notin {"idle", other},
         other # "idle",
         signalAndReturn(t, waiting, again)
  PROVE  /\ Cardinality(At(here)') = Cardinality(At(here)) - 1
         /\ At(other)' = At(other)
         /\ At(waiting)' # {} =>
              At(waiting) # {} /\ Cardinality(At(again)') = Cardinality(At(again)) + 1
<1>1. At(here)' = At(here) \ {t} /\ t \in At(here)
  BY DEF At, CallsOK, signalAndReturn
<1>2. At(other)' = At(other)
  BY DEF At, CallsOK, signalAndReturn
<1>3. CASE At(waiting) = {} /\ pc' = [pc EXCEPT ![t] = "idle"]
  <2>1. At(waiting)' = {}
    BY <1>3 DEF At, CallsOK
  <2>2. QED
    BY <1>1, <1>2, <2>1, AtFinite, FS_RemoveElement
<1>4. ASSUME NEW w \in At(waiting), pc' = [pc EXCEPT ![t] = "idle", ![w] = again]
      PROVE  Cardinality(At(again)') = Cardinality(At(again)) + 1
  <2>1. At(again)' = At(again) \cup {w} /\ w \notin At(again)
    BY <1>4 DEF At, CallsOK
  <2>2. QED
    BY <2>1, AtFinite, FS_AddElement
<1>5. QED
  BY <1>1, <1>2, <1>3, <1>4, AtFinite, FS_RemoveElement, ZenonT(60) DEF signalAndReturn

LEMMA InitIInv == Init => IInv
<1> SUFFICES ASSUME Init
             PROVE  IInv
  OBVIOUS
<1> USE QueAssumption DEF Init
<1>1. RingOK
  BY DEF RingOK, Places
<1>2. CallsOK
  BY DEF CallsOK
<1>3. curWr = (curRd + count) % MaxLen
  BY RingIndex DEF Places
<1>4. RingInv
  BY <1>3 DEF RingInv
<1>5. At("waitRd") = {} /\ At("waitWr") = {}
  BY DEF At
<1>6. QED
  BY <1>1, <1>2, <1>4, <1>5 DEF IInv, TypeOK, NoLostWakeup

(* A put that finds room. *)
LEMMA StorePreserves ==
  ASSUME IInv, NEW t \in Threads, store(t)
  PROVE  IInv'
<1>a. RingOK /\ CallsOK /\ RingInv /\ NoLostWakeup /\ pc[t] = "put"
  BY DEF IInv, TypeOK, store
<1>b. /\ count < MaxLen /\ count' = count + 1 /\ count \in Nat /\ MaxLen \in Nat
      /\ signalAndReturn(t, "waitRd", "get")
      /\ value' = [value EXCEPT ![t] = NoValue] /\ forever' = forever
  BY <1>a, QueAssumption DEF store, RingOK
<1>1. RingOK'
  BY <1>a, StoreRing
<1>2. CallsOK'
  BY <1>a, <1>b DEF CallsOK, signalAndReturn, At
<1>3. RingInv'
  <2>1. curWr' = (curRd' + count') % MaxLen
    BY <1>a, StoreRing
  <2>2. ASSUME NEW i \in 0 .. count' - 1
        PROVE  queue'[(curRd' + i) % MaxLen] \in Values
    <3>1. CASE i \in 0 .. count - 1
      BY <3>1, <1>a, StoreRing DEF RingInv
    <3>2. CASE i = count
      BY <3>2, <1>a, StoreRing
    <3>3. QED
      BY <1>b, <3>1, <3>2
  <2>3. ASSUME NEW u \in Threads, pc'[u] \in {"put", "waitWr"}
        PROVE  value'[u] \in Values
    <3>1. u # t /\ pc[u] \in {"put", "waitWr"}
      BY <1>a, <1>b, <2>3 DEF CallsOK, signalAndReturn, At
    <3>2. QED
      BY <1>a, <1>b, <3>1 DEF RingInv, CallsOK
  <2>4. QED
    BY <2>1, <2>2, <2>3 DEF RingInv
<1>4. NoLostWakeup'
  <2>1. /\ Cardinality(At("put")') = Cardinality(At("put")) - 1
        /\ At("waitWr")' = At("waitWr")
        /\ At("waitRd")' # {} =>
             At("waitRd") # {} /\ Cardinality(At("get")') = Cardinality(At("get")) + 1
    <3>1. /\ "put" \notin {"idle", "waitRd", "get", "waitWr"}
          /\ "waitRd" \notin {"idle", "get", "waitWr"}
          /\ "get" \notin {"idle", "waitWr"}
          /\ "waitWr" # "idle"
      OBVIOUS
    <3>2. CallsOK /\ pc[t] = "put" /\ signalAndReturn(t, "waitRd", "get")
      BY <1>a, <1>b
    <3>3. QED
      BY ONLY <3>1, <3>2, t \in Threads, Signalled, SMTT(60)
  <2>2. Cardinality(At("put")) \in Nat /\ Cardinality(At("get")) \in Nat
    BY AtFinite
  <2>3. QED
    BY <1>a, <1>b, <2>1, <2>2 DEF NoLostWakeup
<1>5. QED
  BY <1>1, <1>2, <1>3, <1>4 DEF IInv, TypeOK

(* A get that finds a value. *)
LEMMA FetchPreserves ==
  ASSUME IInv, NEW t \in Threads, fetch(t)
  PROVE  IInv'
<1>a. RingOK /\ CallsOK /\ RingInv /\ NoLostWakeup /\ pc[t] = "get"
  BY DEF IInv, TypeOK, fetch
<1>b. /\ count > 0 /\ count' = count - 1 /\ count \in Nat /\ MaxLen \in Nat
      /\ signalAndReturn(t, "waitWr", "put")
      /\ value' = value /\ forever' = forever
  BY <1>a, QueAssumption DEF fetch, RingOK
<1>1. RingOK'
  BY <1>a, FetchRing
<1>2. CallsOK'
  BY <1>a, <1>b DEF CallsOK, signalAndReturn, At
<1>3. RingInv'
  <2>1. curWr' = (curRd' + count') % MaxLen
    BY <1>a, FetchRing
  <2>2. ASSUME NEW i \in 0 .. count' - 1
        PROVE  queue'[(curRd' + i) % MaxLen] \in Values
    <3>1. i \in 0 .. count - 2 /\ i + 1 \in 0 .. count - 1
      BY <1>b
    <3>2. queue'[(curRd' + i) % MaxLen] = queue[(curRd + (i + 1)) % MaxLen]
      BY <1>a, <3>1, FetchRing
    <3>3. QED
      BY <1>a, <3>1, <3>2 DEF RingInv
  <2>3. ASSUME NEW u \in Threads, pc'[u] \in {"put", "waitWr"}
        PROVE  value'[u] \in Values
    <3>1. pc[u] \in {"put", "waitWr"}
      BY <1>a, <1>b, <2>3 DEF CallsOK, signalAndReturn, At
    <3>2. QED
      BY <1>a, <1>b, <3>1 DEF RingInv
  <2>4. QED
    BY <2>1, <2>2, <2>3 DEF RingInv
<1>4. NoLostWakeup'
  <2>1. /\ Cardinality(At("get")') = Cardinality(At("get")) - 1
        /\ At("waitRd")' = At("waitRd")
        /\ At("waitWr")' # {} =>
             At("waitWr") # {} /\ Cardinality(At("put")') = Cardinality(At("put")) + 1
    BY <1>a, <1>b, Signalled
  <2>2. Cardinality(At("put")) \in Nat /\ Cardinality(At("get")) \in Nat
    BY AtFinite
  <2>3. QED
    BY <1>a, <1>b, <2>1, <2>2 DEF NoLostWakeup
<1>5. QED
  BY <1>1, <1>2, <1>3, <1>4 DEF IInv, TypeOK

(* A step that leaves the ring alone and moves one caller at most. *)
LEMMA OtherPreserves ==
  ASSUME IInv, NEW t \in Threads,
         call(t) \/ refusePut(t) \/ waitPut(t) \/ refuseGet(t) \/ waitGet(t) \/ spurious(t)
  PROVE  IInv'
<1>a. RingOK /\ CallsOK /\ RingInv /\ NoLostWakeup
  BY DEF IInv, TypeOK
<1>b. count \in 0 .. MaxLen /\ MaxLen \in Nat
  BY <1>a, QueAssumption DEF RingOK
<1>c. UNCHANGED ringVars
  BY DEF call, callPut, callGet, quePeek, queGetQueuedCount, refusePut, waitPut, refuseGet,
     waitGet, spurious
<1>1. RingOK'
  BY <1>a, <1>c DEF RingOK, ringVars
<1>2. CallsOK'
  <2> USE DEF CallsOK
  <2>1. CASE call(t)
    BY <1>a, <2>1 DEF call, callPut, callGet, quePeek, queGetQueuedCount, callVars
  <2>2. CASE refusePut(t) \/ waitPut(t)
    BY <1>a, <2>2 DEF refusePut, waitPut
  <2>3. CASE refuseGet(t) \/ waitGet(t) \/ spurious(t)
    BY <1>a, <2>3 DEF refuseGet, waitGet, spurious
  <2>4. QED
    BY <2>1, <2>2, <2>3
<1>3. RingInv'
  <2>1. ASSUME NEW u \in Threads, pc'[u] \in {"put", "waitWr"}
        PROVE  value'[u] \in Values
    <3> USE DEF CallsOK, RingInv
    <3>1. CASE call(t)
      BY <1>a, <2>1, <3>1 DEF call, callPut, callGet, quePeek, queGetQueuedCount, callVars
    <3>2. CASE refusePut(t) \/ waitPut(t)
      BY <1>a, <2>1, <3>2 DEF refusePut, waitPut
    <3>3. CASE refuseGet(t) \/ waitGet(t) \/ spurious(t)
      BY <1>a, <2>1, <3>3 DEF refuseGet, waitGet, spurious
    <3>4. QED
      BY <3>1, <3>2, <3>3
  <2>2. QED
    BY <1>a, <1>c, <2>1 DEF RingInv, ringVars
<1>4. NoLostWakeup'
  <2>1. \A place : Cardinality(At(place)) \in Nat
    BY AtFinite
  <2> USE <1>a, <1>b, <2>1 DEF NoLostWakeup, ringVars
  <2>2. CASE \E v \in Values, f \in BOOLEAN : callPut(t, v, f)
    <3>1. pc[t] = "idle" /\ pc' = [pc EXCEPT ![t] = "put"] /\ "idle" # "put"
      BY <2>2 DEF callPut
    <3>2. Cardinality(At("put")') = Cardinality(At("put")) + 1
      BY <3>1, Moved
    <3>3. At("get")' = At("get") /\ At("waitRd")' = At("waitRd") /\ At("waitWr")' = At("waitWr")
      BY <3>1 DEF At, CallsOK
    <3>4. QED
      BY <3>2, <3>3, <1>c
  <2>3. CASE \E f \in BOOLEAN : callGet(t, f)
    <3>1. pc[t] = "idle" /\ pc' = [pc EXCEPT ![t] = "get"] /\ "idle" # "get"
      BY <2>3 DEF callGet
    <3>2. Cardinality(At("get")') = Cardinality(At("get")) + 1
      BY <3>1, Moved
    <3>3. At("put")' = At("put") /\ At("waitRd")' = At("waitRd") /\ At("waitWr")' = At("waitWr")
      BY <3>1 DEF At, CallsOK
    <3>4. QED
      BY <3>2, <3>3, <1>c
  <2>4. CASE quePeek(t) \/ queGetQueuedCount(t)
    BY <2>4, <1>c DEF quePeek, queGetQueuedCount, callVars, At
  <2>5. CASE refusePut(t) \/ waitPut(t)
    <3>1. count = MaxLen /\ count' = MaxLen
      BY <2>5, <1>c DEF refusePut, waitPut
    <3>2. \A place : Cardinality(At(place)') \in Nat
      BY AtFiniteNext
    <3>3. At("get")' = At("get") /\ At("waitRd")' = At("waitRd")
      BY <2>5 DEF refusePut, waitPut, At, CallsOK
    <3>4. QED
      BY <3>1, <3>2, <3>3
  <2>6. CASE refuseGet(t) \/ waitGet(t)
    <3>1. count = 0 /\ count' = 0
      BY <2>6, <1>c DEF refuseGet, waitGet
    <3>2. \A place : Cardinality(At(place)') \in Nat
      BY AtFiniteNext
    <3>3. At("put")' = At("put") /\ At("waitWr")' = At("waitWr")
      BY <2>6 DEF refuseGet, waitGet, At, CallsOK
    <3>4. QED
      BY <3>1, <3>2, <3>3
  <2>7. CASE spurious(t) /\ pc[t] = "waitWr"
    <3>1. pc' = [pc EXCEPT ![t] = "put"] /\ "waitWr" # "put"
      BY <2>7 DEF spurious
    <3>2. At("waitWr") # {}
      BY <2>7 DEF At
    <3>3. Cardinality(At("put")') = Cardinality(At("put")) + 1
      BY <2>7, <3>1, Moved
    <3>4. At("get")' = At("get") /\ At("waitRd")' = At("waitRd")
      BY <2>7, <3>1 DEF At, CallsOK
    <3>5. QED
      BY <3>2, <3>3, <3>4, <1>c
  <2>8. CASE spurious(t) /\ pc[t] = "waitRd"
    <3>1. pc' = [pc EXCEPT ![t] = "get"] /\ "waitRd" # "get"
      BY <2>8 DEF spurious
    <3>2. At("waitRd") # {}
      BY <2>8 DEF At
    <3>3. Cardinality(At("get")') = Cardinality(At("get")) + 1
      BY <2>8, <3>1, Moved
    <3>4. At("put")' = At("put") /\ At("waitWr")' = At("waitWr")
      BY <2>8, <3>1 DEF At, CallsOK
    <3>5. QED
      BY <3>2, <3>3, <3>4, <1>c
  <2>9. QED
    BY <2>2, <2>3, <2>4, <2>5, <2>6, <2>7, <2>8 DEF call, spurious
<1>5. QED
  BY <1>1, <1>2, <1>3, <1>4 DEF IInv, TypeOK

(* IInv is an invariant of the queue. *)
THEOREM Invariance == Spec => []IInv
<1>1. IInv /\ UNCHANGED vars => IInv'
  BY DEF vars, ringVars, callVars, IInv, TypeOK, RingOK, CallsOK, RingInv, NoLostWakeup, At
<1>2. IInv /\ [Next]_vars => IInv'
  BY StorePreserves, FetchPreserves, OtherPreserves, <1>1 DEF Next, quePut, queGet
<1>3. QED
  BY InitIInv, <1>2, PTL DEF Spec

(* The counter of the ring stays in its range and its places inside the    *)
(* array that OSA_queCreate allocates.                                     *)
THEOREM TypesHold == Spec => []TypeOK
<1>1. IInv => TypeOK
  BY DEF IInv
<1>2. QED
  BY Invariance, <1>1, PTL

(* No wake-up is lost in OSA_quePut and OSA_queGet, whatever the number of *)
(* callers, the length and the spurious wake-ups.                          *)
THEOREM NoWakeupIsLost == Spec => []NoLostWakeup
<1>1. IInv => NoLostWakeup
  BY DEF IInv
<1>2. QED
  BY Invariance, <1>1, PTL

(* OSA_quePut and OSA_queGet never leave all their callers asleep with     *)
(* something to do for one of them.                                        *)
THEOREM NeverAllAsleep == Spec => []AllAsleep
<1>1. IInv => AllAsleep
  <2> SUFFICES ASSUME IInv, Threads = At("waitRd") \cup At("waitWr")
               PROVE  \/ At("waitWr") = {} /\ count = 0
                      \/ At("waitRd") = {} /\ count = MaxLen
    BY DEF AllAsleep
  <2>1. At("get") = {} /\ At("put") = {}
    BY DEF At
  <2>2. Cardinality(At("get")) = 0 /\ Cardinality(At("put")) = 0
    BY <2>1, FS_EmptySet
  <2>3. count \in 0 .. MaxLen /\ MaxLen \in Nat \ {0}
    BY QueAssumption DEF IInv, TypeOK, RingOK
  <2>4. /\ At("waitRd") # {} => count <= 0
        /\ At("waitWr") # {} => MaxLen - count <= 0
    BY <2>2 DEF IInv, NoLostWakeup
  <2>5. At("waitRd") # {} \/ At("waitWr") # {}
    BY QueAssumption
  <2>6. QED
    BY <2>3, <2>4, <2>5
<1>2. QED
  BY Invariance, <1>1, PTL

(* What is read from a ring q at c places from r on is a sequence. *)
LEMMA ReadSeq ==
  ASSUME NEW r \in Int, NEW c \in Nat, NEW q, NEW s,
         \A i \in 0 .. c - 1 : q[(r + i) % MaxLen] \in Values,
         s = [i \in 1 .. c |-> q[(r + i - 1) % MaxLen]]
  PROVE  /\ s \in Seq(Values)
         /\ Len(s) = c
         /\ \A i \in 1 .. c : s[i] = q[(r + (i - 1)) % MaxLen]
<1>1. ASSUME NEW i \in 1 .. c
      PROVE  /\ r + i - 1 = r + (i - 1)
             /\ q[(r + (i - 1)) % MaxLen] \in Values
  <2>1. i - 1 \in 0 .. c - 1
    OBVIOUS
  <2>2. QED
    BY <2>1
<1>2. s = [i \in 1 .. c |-> q[(r + (i - 1)) % MaxLen]]
  BY <1>1
<1>3. QED
  BY <1>1, <1>2

LEMMA ContentsSeq ==
  ASSUME RingOK, RingInv
  PROVE  /\ contents \in Seq(Values)
         /\ Len(contents) = count
         /\ \A i \in 1 .. count : contents[i] = queue[(curRd + (i - 1)) % MaxLen]
<1>1. count \in Nat /\ curRd \in Int
  BY QueAssumption DEF RingOK, Places
<1>2. \A i \in 0 .. count - 1 : queue[(curRd + i) % MaxLen] \in Values
  BY DEF RingInv
<1>3. contents = [i \in 1 .. count |-> queue[(curRd + i - 1) % MaxLen]]
  BY DEF contents
<1>4. QED
  BY ONLY <1>1, <1>2, <1>3, ReadSeq

LEMMA ContentsSeqNext ==
  ASSUME RingOK', RingInv'
  PROVE  /\ contents' \in Seq(Values)
         /\ Len(contents') = count'
         /\ \A i \in 1 .. count' : contents'[i] = queue'[(curRd' + (i - 1)) % MaxLen]
<1>1. count' \in Nat /\ curRd' \in Int
  BY QueAssumption DEF RingOK, Places
<1>2. \A i \in 0 .. count' - 1 : queue'[(curRd' + i) % MaxLen] \in Values
  BY DEF RingInv
<1>3. contents' = [i \in 1 .. count' |-> queue'[(curRd' + i - 1) % MaxLen]]
  BY DEF contents
<1>4. ASSUME NEW r, NEW c, NEW q, NEW s,
             r = curRd', c = count', q = queue', s = contents'
      PROVE  /\ s \in Seq(Values)
             /\ Len(s) = c
             /\ \A i \in 1 .. c : s[i] = q[(r + (i - 1)) % MaxLen]
  <2>1. /\ r \in Int /\ c \in Nat
        /\ \A i \in 0 .. c - 1 : q[(r + i) % MaxLen] \in Values
        /\ s = [i \in 1 .. c |-> q[(r + i - 1) % MaxLen]]
    BY <1>1, <1>2, <1>3, <1>4
  <2>2. ASSUME NEW i \in 1 .. c
        PROVE  s[i] = q[(r + (i - 1)) % MaxLen] /\ s[i] \in Values
    <3>1. r + i - 1 = r + (i - 1) /\ i - 1 \in 0 .. c - 1
      BY ONLY <2>1
    <3>2. q[(r + (i - 1)) % MaxLen] \in Values
      BY ONLY <2>1, <3>1
    <3>3. s[i] = q[(r + i - 1) % MaxLen]
      BY ONLY <2>1
    <3>4. QED
      BY ONLY <3>1, <3>2, <3>3
  <2>3. QED
    BY ONLY <2>1, <2>2
<1>5. QED
  BY <1>4

(* A put that finds room appends. *)
LEMMA StoreAppends ==
  ASSUME IInv, NEW t \in Threads, store(t)
  PROVE  \E v \in Values : F!Put(t, v)
<1>a. RingOK /\ RingInv /\ RingOK' /\ RingInv' /\ pc[t] = "put"
  BY StorePreserves DEF IInv, TypeOK, store
<1>b. /\ count < MaxLen /\ count' = count + 1 /\ count \in Nat
      /\ result' = Outcome("put", t, SOK, value[t])
  BY <1>a, QueAssumption DEF store, RingOK
<1>1. value[t] \in Values
  BY <1>a, StoreRing
<1>2. /\ contents \in Seq(Values) /\ Len(contents) = count
      /\ \A i \in 1 .. count : contents[i] = queue[(curRd + (i - 1)) % MaxLen]
  BY <1>a, ContentsSeq
<1>3. /\ contents' \in Seq(Values) /\ Len(contents') = count'
      /\ \A i \in 1 .. count' : contents'[i] = queue'[(curRd' + (i - 1)) % MaxLen]
  BY <1>a, ContentsSeqNext
<1>4. ASSUME NEW i \in 1 .. count'
      PROVE  contents'[i] = Append(contents, value[t])[i]
  <2>1. CASE i \in 1 .. count
    <3>1. i - 1 \in 0 .. count - 1
      BY <1>b, <2>1
    <3>2. queue'[(curRd' + (i - 1)) % MaxLen] = queue[(curRd + (i - 1)) % MaxLen]
      BY <3>1, <1>a, StoreRing
    <3>3. Append(contents, value[t])[i] = contents[i]
      BY <1>1, <1>2, <2>1, AppendProperties
    <3>4. QED
      BY <1>2, <1>3, <2>1, <3>2, <3>3
  <2>2. CASE i = count + 1
    <3>1. i - 1 = count
      BY <1>b, <2>2
    <3>2. queue'[(curRd' + count) % MaxLen] = value[t]
      BY <1>a, StoreRing
    <3>3. Append(contents, value[t])[count + 1] = value[t]
      BY <1>1, <1>2, AppendProperties
    <3>4. QED
      BY <1>3, <2>2, <3>1, <3>2, <3>3
  <2>3. i \in 1 .. count \/ i = count + 1
    BY <1>b
  <2>4. QED
    BY <2>1, <2>2, <2>3
<1>5. /\ Append(contents, value[t]) \in Seq(Values)
      /\ Len(Append(contents, value[t])) = count'
  BY <1>1, <1>2, <1>b, AppendProperties
<1>6. contents' = Append(contents, value[t])
  BY <1>3, <1>4, <1>5, SeqEqual
<1>7. F!Put(t, value[t])
  BY <1>2, <1>6, <1>b DEF F!Put, Outcome, F!Outcome, SOK, F!SOK
<1>8. QED
  BY <1>1, <1>7

(* A get that finds a value takes the first. *)
LEMMA FetchTakesHead ==
  ASSUME IInv, NEW t \in Threads, fetch(t)
  PROVE  F!Get(t)
<1>a. RingOK /\ RingInv /\ RingOK' /\ RingInv'
  BY FetchPreserves DEF IInv, TypeOK
<1>b. /\ count' = count - 1 /\ count \in Nat \ {0}
      /\ result' = Outcome("get", t, SOK, queue[curRd])
  BY <1>a, QueAssumption DEF fetch, RingOK
<1>2. /\ contents \in Seq(Values) /\ Len(contents) = count
      /\ \A i \in 1 .. count : contents[i] = queue[(curRd + (i - 1)) % MaxLen]
  BY <1>a, ContentsSeq
<1>3. /\ contents' \in Seq(Values) /\ Len(contents') = count'
      /\ \A i \in 1 .. count' : contents'[i] = queue'[(curRd' + (i - 1)) % MaxLen]
  BY <1>a, ContentsSeqNext
<1>4. contents # <<>>
  BY <1>2, <1>b
<1>5. Head(contents) = queue[curRd]
  <2>1. 1 \in 1 .. count /\ 1 - 1 = 0
    BY <1>b
  <2>2. contents[1] = queue[(curRd + 0) % MaxLen]
    BY <1>2, <2>1
  <2>3. QED
    BY <1>2, <1>4, <2>2, <1>a, FetchRing
<1>6. /\ Tail(contents) \in Seq(Values) /\ Len(Tail(contents)) = count'
      /\ \A i \in 1 .. Len(Tail(contents)) : Tail(contents)[i] = contents[i + 1]
  BY <1>2, <1>4, <1>b, HeadTailProperties
<1>7. ASSUME NEW i \in 1 .. count'
      PROVE  contents'[i] = Tail(contents)[i]
  <2>1. i - 1 \in 0 .. count - 2 /\ i + 1 \in 1 .. count /\ (i + 1) - 1 = (i - 1) + 1
    BY <1>b
  <2>2. queue'[(curRd' + (i - 1)) % MaxLen] = queue[(curRd + ((i - 1) + 1)) % MaxLen]
    BY <2>1, <1>a, FetchRing
  <2>3. contents[i + 1] = queue[(curRd + ((i + 1) - 1)) % MaxLen]
    BY <1>2, <2>1
  <2>4. contents'[i] = queue'[(curRd' + (i - 1)) % MaxLen]
    BY <1>3
  <2>5. Tail(contents)[i] = contents[i + 1]
    BY <1>6
  <2>6. QED
    BY <2>1, <2>2, <2>3, <2>4, <2>5
<1>8. contents' = Tail(contents)
  BY <1>3, <1>6, <1>7, SeqEqual
<1>9. QED
  BY <1>4, <1>5, <1>8, <1>b DEF F!Get, Outcome, F!Outcome, SOK, F!SOK

(* The queue of osa_que.c implements the bounded queue of Fifo: put        *)
(* appends, get takes the first value, waiting and waking change nothing.  *)
THEOREM ImplementsFifo == Spec => FifoSpec
<1>1. Init => F!Init
  BY DEF Init, F!Init, contents, Outcome, F!Outcome, SOK, F!SOK
<1>2. ASSUME IInv, NEW t \in Threads,
             call(t) \/ refusePut(t) \/ waitPut(t) \/ refuseGet(t) \/ waitGet(t) \/ spurious(t)
      PROVE  F!Next \/ UNCHANGED <<contents, result>>
  <2>1. /\ contents \in Seq(Values) /\ Len(contents) = count
        /\ \A i \in 1 .. count : contents[i] = queue[(curRd + (i - 1)) % MaxLen]
        /\ count \in 0 .. MaxLen /\ curRd \in Places
    BY <1>2, ContentsSeq DEF IInv, TypeOK, RingOK
  <2>2. UNCHANGED ringVars
    BY <1>2 DEF call, callPut, callGet, quePeek, queGetQueuedCount, refusePut, waitPut,
       refuseGet, waitGet, spurious
  <2>3. contents' = contents
    BY <2>2 DEF contents, ringVars
  <2>4. CASE UNCHANGED result
    BY <2>3, <2>4
  <2>5. CASE quePeek(t)
    <3>1. CASE count > 0
      <4>1. contents # <<>> /\ Head(contents) = contents[1] /\ 1 \in 1 .. count /\ 1 - 1 = 0
        BY <2>1, <3>1
      <4>2. (curRd + 0) % MaxLen = curRd
        BY <2>1, QueAssumption DEF Places
      <4>3. Head(contents) = queue[curRd]
        BY <2>1, <4>1, <4>2
      <4>4. QED
        BY <2>3, <2>5, <3>1, <4>1, <4>3
        DEF quePeek, F!Next, F!Peek, Outcome, F!Outcome, EFAIL, F!EFAIL
    <3>2. CASE ~(count > 0)
      <4>1. contents = <<>>
        BY <2>1, <3>2
      <4>2. QED
        BY <2>3, <2>5, <3>2, <4>1
        DEF quePeek, F!Next, F!Peek, Outcome, F!Outcome, EFAIL, F!EFAIL
    <3>3. QED
      BY <3>1, <3>2
  <2>6. CASE queGetQueuedCount(t)
    BY <2>1, <2>3, <2>6 DEF queGetQueuedCount, F!Next, F!Count, Outcome, F!Outcome
  <2>7. CASE refusePut(t)
    <3>1. value[t] \in Values
      BY <1>2, <2>7 DEF refusePut, IInv, RingInv
    <3>2. Len(contents) = MaxLen
      BY <2>1, <2>7, QueAssumption DEF refusePut
    <3>3. F!PutRefused(t, value[t])
      BY <2>3, <2>7, <3>2 DEF refusePut, F!PutRefused, Outcome, F!Outcome, EFAIL, F!EFAIL
    <3>4. QED
      BY <3>1, <3>3 DEF F!Next
  <2>8. CASE refuseGet(t)
    <3>1. contents = <<>>
      BY <2>1, <2>8 DEF refuseGet
    <3>2. F!GetRefused(t)
      BY <2>3, <2>8, <3>1 DEF refuseGet, F!GetRefused, Outcome, F!Outcome, EFAIL, F!EFAIL
    <3>3. QED
      BY <3>2 DEF F!Next
  <2>9. QED
    BY <1>2, <2>4, <2>5, <2>6, <2>7, <2>8 DEF call, callPut, callGet, waitPut, waitGet, spurious
<1>3. IInv /\ Next => F!Next \/ UNCHANGED <<contents, result>>
  BY <1>2, StoreAppends, FetchTakesHead DEF Next, quePut, queGet, F!Next
<1>4. UNCHANGED vars => UNCHANGED <<contents, result>>
  BY DEF vars, ringVars, contents
<1>5. IInv /\ [Next]_vars => [F!Next]_<<contents, result>>
  BY <1>3, <1>4
<1>6. QED
  BY Invariance, <1>1, <1>5, PTL DEF Spec, FifoSpec, F!Spec
=============================================================================
