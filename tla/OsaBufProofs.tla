----------------------------- MODULE OsaBufProofs -----------------------------
(***************************************************************************)
(* The buffer exchange of osa_buf.c for any number of producers, consumers *)
(* and buffers: nobody has a buffer that somebody else has too, and the    *)
(* calls that put one back need not wait.                                  *)
(***************************************************************************)
EXTENDS OsaBuf, SeqLemmas

Queues == {"empty", "full"}

(* What is in the queues and in the callers' hands has nothing in common,  *)
(* and is every buffer there is.                                           *)
ApartInv ==
  /\ \A q \in Queues : Distinct(que[q])
  /\ Elems(que["empty"]) \cap Elems(que["full"]) = {}
  /\ \A c \in Clients, q \in Queues : HeldBy(c) \cap Elems(que[q]) = {}
  /\ \A c, d \in Clients : c # d => HeldBy(c) \cap HeldBy(d) = {}
  /\ \A c \in Clients : newBufId[c] = bufId[c] => bufId[c] = Invalid

NoneLost ==
  \A b \in Bufs :
    \/ \E q \in Queues : b \in Elems(que[q])
    \/ \E c \in Clients : b \in HeldBy(c)

(* A new buffer is at hand between the halves of a Switch call only. *)
SwitchInv == \A c \in Clients : newBufId[c] # Invalid <=> bpc[c] = "put"

IInv == TypeOK /\ ApartInv /\ NoneLost /\ SwitchInv
-----------------------------------------------------------------------------
LEMMA QueTypes ==
  ASSUME TypeOK, NEW q \in Queues
  PROVE  /\ que[q] \in Seq(Bufs) /\ Len(que[q]) \in Nat /\ Len(que[q]) <= NumBuf
         /\ Elems(que[q]) \subseteq Bufs
BY BufAssumption, BoundedSeqDef, ElemsIn, LenProperties DEF TypeOK, Queues

LEMMA QueExcept ==
  ASSUME TypeOK, NEW q \in Queues, NEW s \in Seq(Bufs), Len(s) <= NumBuf
  PROVE  [que EXCEPT ![q] = s] \in [Queues -> BoundedSeq(Bufs, NumBuf)]
<1>1. s \in BoundedSeq(Bufs, NumBuf)
  BY BufAssumption, BoundedSeqDef
<1>2. QED
  BY <1>1 DEF TypeOK, Queues

LEMMA QueuesOf ==
  ASSUME NEW c \in Clients
  PROVE  /\ Source(c) \in Queues /\ Target(c) \in Queues /\ Source(c) # Target(c)
         /\ Queues = {Source(c), Target(c)}
BY DEF Source, Target, Queues

LEMMA InvalidIsNone == Invalid \notin Bufs
BY BufAssumption DEF Invalid, Bufs

(* A caller takes a buffer: it is in no queue any more, and in no hands    *)
(* before.                                                                 *)
LEMMA Taken ==
  ASSUME IInv, NEW q \in Queues, que[q] # <<>>, NEW b, b = Head(que[q]),
         que' = [que EXCEPT ![q] = Tail(@)]
  PROVE  /\ b \in Bufs /\ b \in Elems(que[q])
         /\ que' \in [Queues -> BoundedSeq(Bufs, NumBuf)]
         /\ \A r \in Queues : Distinct(que'[r])
         /\ \A r \in Queues : Elems(que'[r]) = Elems(que[r]) \ {b}
         /\ \A c \in Clients : b \notin HeldBy(c)
<1>1. TypeOK /\ ApartInv
  BY DEF IInv
<1>2. /\ que[q] \in Seq(Bufs) /\ Len(que[q]) <= NumBuf /\ Len(que[q]) \in Nat
      /\ Distinct(que[q])
  BY <1>1, QueTypes DEF ApartInv
<1>3. /\ b \in Bufs /\ b \in Elems(que[q])
      /\ Tail(que[q]) \in Seq(Bufs) /\ Len(Tail(que[q])) = Len(que[q]) - 1
      /\ Distinct(Tail(que[q])) /\ Elems(Tail(que[q])) = Elems(que[q]) \ {b}
  BY <1>2, ElemsTail
<1>4. Len(Tail(que[q])) <= NumBuf
  BY <1>2, <1>3, BufAssumption
<1>5. que' \in [Queues -> BoundedSeq(Bufs, NumBuf)]
  BY <1>1, <1>3, <1>4, QueExcept
<1>6. \A r \in Queues : que'[r] = IF r = q THEN Tail(que[q]) ELSE que[r]
  BY <1>1 DEF TypeOK, Queues
<1>7. \A r \in Queues : r # q => b \notin Elems(que[r])
  BY <1>1, <1>3 DEF ApartInv, Queues
<1>8. \A r \in Queues : Distinct(que'[r])
  BY <1>1, <1>3, <1>6 DEF ApartInv
<1>9. \A r \in Queues : Elems(que'[r]) = Elems(que[r]) \ {b}
  BY <1>3, <1>6, <1>7
<1>10. \A c \in Clients : b \notin HeldBy(c)
  BY <1>1, <1>3 DEF ApartInv
<1>11. QED
  BY <1>3, <1>5, <1>8, <1>9, <1>10

(* A caller puts a buffer it holds. *)
LEMMA Stored ==
  ASSUME IInv, NEW c \in Clients, NEW b \in HeldBy(c), NEW q \in Queues,
         Len(que[q]) < NumBuf, que' = [que EXCEPT ![q] = Append(@, b)]
  PROVE  /\ b \in Bufs
         /\ que' \in [Queues -> BoundedSeq(Bufs, NumBuf)]
         /\ \A r \in Queues : Distinct(que'[r])
         /\ \A r \in Queues : b \notin Elems(que[r])
         /\ \A r \in Queues :
              Elems(que'[r]) = IF r = q THEN Elems(que[r]) \cup {b} ELSE Elems(que[r])
<1>1. TypeOK /\ ApartInv /\ b \in Bufs
  BY DEF IInv, TypeOK, HeldBy
<1>2. /\ que[q] \in Seq(Bufs) /\ Len(que[q]) \in Nat /\ Distinct(que[q])
      /\ \A r \in Queues : b \notin Elems(que[r])
  BY <1>1, QueTypes DEF ApartInv
<1>3. /\ Append(que[q], b) \in Seq(Bufs) /\ Len(Append(que[q], b)) = Len(que[q]) + 1
      /\ Elems(Append(que[q], b)) = Elems(que[q]) \cup {b}
      /\ Distinct(Append(que[q], b))
  BY <1>1, <1>2, ElemsAppend
<1>4. Len(Append(que[q], b)) <= NumBuf
  BY <1>2, <1>3, BufAssumption
<1>5. que' \in [Queues -> BoundedSeq(Bufs, NumBuf)]
  BY <1>1, <1>3, <1>4, QueExcept
<1>6. \A r \in Queues : que'[r] = IF r = q THEN Append(que[q], b) ELSE que[r]
  BY <1>1 DEF TypeOK, Queues
<1>7. \A r \in Queues : Distinct(que'[r])
  BY <1>1, <1>3, <1>6 DEF ApartInv
<1>8. \A r \in Queues :
        Elems(que'[r]) = IF r = q THEN Elems(que[r]) \cup {b} ELSE Elems(que[r])
  <2> TAKE r \in Queues
  <2>1. CASE r = q
    BY <1>3, <1>6, <2>1
  <2>2. CASE r # q
    BY <1>6, <2>2
  <2>3. QED
    BY <2>1, <2>2
<1>9. QED
  BY <1>1, <1>2, <1>5, <1>7, <1>8

(* OSA_bufCreate: all buffers in the empty queue. *)
LEMMA InitIInv == Init => IInv
<1> SUFFICES ASSUME Init PROVE IInv
  OBVIOUS
<1> DEFINE all == [i \in 1 .. NumBuf |-> i - 1]
<1>1. que = [empty |-> all, full |-> <<>>]
  BY DEF Init
<1>2. que["empty"] = all /\ que["full"] = <<>> /\ DOMAIN que = Queues
  BY <1>1 DEF Queues
<1>3. NumBuf \in Nat /\ \A i \in 1 .. NumBuf : i - 1 \in Bufs
  <2>1. NumBuf \in Nat
    BY BufAssumption
  <2>2. \A i \in 1 .. NumBuf : i - 1 \in 0 .. NumBuf - 1
    BY <2>1
  <2>3. QED
    BY <2>1, <2>2 DEF Bufs
<1>4. all \in Seq(Bufs) /\ Len(all) = NumBuf
  BY <1>3, IsASeq
<1>5. all \in BoundedSeq(Bufs, NumBuf) /\ <<>> \in BoundedSeq(Bufs, NumBuf)
  <2> HIDE DEF all
  <2>1. <<>> \in Seq(Bufs) /\ Len(<<>>) = 0
    OBVIOUS
  <2>2. Len(all) <= NumBuf /\ Len(<<>>) <= NumBuf
    BY <1>3, <1>4, <2>1
  <2>3. QED
    BY <1>3, <1>4, <2>1, <2>2, BoundedSeqDef
<1>6. que \in [Queues -> BoundedSeq(Bufs, NumBuf)]
  <2> HIDE DEF all
  <2>1. que = [q \in Queues |-> que[q]]
    BY <1>1 DEF Queues
  <2>2. QED
    BY <1>2, <1>5, <2>1 DEF Queues
<1>7. TypeOK
  BY <1>6 DEF Init, TypeOK, Queues
<1>8. Distinct(all) /\ Elems(all) = Bufs
  <2>1. \A i \in 1 .. NumBuf : all[i] = i - 1
    OBVIOUS
  <2>2. Distinct(all)
    BY <1>3, <1>4, <2>1 DEF Distinct
  <2>3. \A b \in Bufs : b + 1 \in 1 .. NumBuf /\ all[b + 1] = b
    BY <1>3 DEF Bufs
  <2> HIDE DEF all
  <2>4. Elems(all) = {all[i] : i \in 1 .. NumBuf}
    BY ONLY <1>4 DEF Elems
  <2>5. Elems(all) \subseteq Bufs
    BY ONLY <1>3, <2>1, <2>4
  <2>6. Bufs \subseteq Elems(all)
    BY ONLY <2>3, <2>4
  <2>7. QED
    BY ONLY <2>2, <2>5, <2>6
<1>9. \A c \in Clients : HeldBy(c) = {}
  BY DEF Init, HeldBy
<1>10. ApartInv
  BY <1>2, <1>8, <1>9, ElemsEmpty DEF ApartInv, Init, Queues
<1>11. NoneLost
  BY <1>2, <1>8 DEF NoneLost, Queues
<1>12. SwitchInv
  BY DEF Init, SwitchInv
<1>13. QED
  BY <1>7, <1>10, <1>11, <1>12 DEF IInv

(* A get, by itself or as the first half of a Switch call. *)
LEMMA GetApart ==
  ASSUME IInv, NEW c \in Clients, NEW q \in Queues, que[q] # <<>>, NEW b, b = Head(que[q]),
         que' = [que EXCEPT ![q] = Tail(@)],
         HeldBy(c)' = HeldBy(c) \cup {b},
         \A d \in Clients : d # c =>
           HeldBy(d)' = HeldBy(d) /\ bufId'[d] = bufId[d] /\ newBufId'[d] = newBufId[d],
         newBufId'[c] = bufId'[c] => bufId'[c] = Invalid
  PROVE  que' \in [Queues -> BoundedSeq(Bufs, NumBuf)] /\ ApartInv' /\ NoneLost'
<1>1. ApartInv /\ NoneLost
  BY DEF IInv
<1>2. /\ b \in Bufs /\ b \in Elems(que[q])
      /\ que' \in [Queues -> BoundedSeq(Bufs, NumBuf)]
      /\ \A r \in Queues : Distinct(que'[r])
      /\ \A r \in Queues : Elems(que'[r]) = Elems(que[r]) \ {b}
      /\ \A d \in Clients : b \notin HeldBy(d)
  BY Taken
<1>3. Elems(que'["empty"]) \cap Elems(que'["full"]) = {}
  BY <1>1, <1>2 DEF ApartInv, Queues
<1>4. ASSUME NEW d \in Clients, NEW r \in Queues
      PROVE  HeldBy(d)' \cap Elems(que'[r]) = {}
  <2>1. HeldBy(d) \cap Elems(que[r]) = {} /\ Elems(que'[r]) = Elems(que[r]) \ {b}
    BY <1>1, <1>2 DEF ApartInv
  <2>2. HeldBy(d)' = HeldBy(d) \/ HeldBy(d)' = HeldBy(d) \cup {b}
    OBVIOUS
  <2>3. QED
    BY <2>1, <2>2
<1>5. ASSUME NEW d \in Clients, NEW e \in Clients, d # e
      PROVE  HeldBy(d)' \cap HeldBy(e)' = {}
  <2>1. HeldBy(d) \cap HeldBy(e) = {} /\ b \notin HeldBy(d) /\ b \notin HeldBy(e)
    BY <1>1, <1>2, <1>5 DEF ApartInv
  <2>2. CASE d = c
    BY <1>5, <2>1, <2>2
  <2>3. CASE e = c
    BY <1>5, <2>1, <2>3
  <2>4. CASE d # c /\ e # c
    BY <2>1, <2>4
  <2>5. QED
    BY <2>2, <2>3, <2>4
<1>6. \A d \in Clients : newBufId'[d] = bufId'[d] => bufId'[d] = Invalid
  BY <1>1 DEF ApartInv
<1>7. ApartInv'
  BY <1>2, <1>3, <1>4, <1>5, <1>6 DEF ApartInv
<1>8. ASSUME NEW a \in Bufs
      PROVE  (\E r \in Queues : a \in Elems(que'[r])) \/ (\E d \in Clients : a \in HeldBy(d)')
  <2>1. CASE a = b
    BY <2>1
  <2>2. CASE a # b
    <3>1. \A d \in Clients : a \in HeldBy(d) => a \in HeldBy(d)'
      BY <2>2
    <3>2. \A r \in Queues : a \in Elems(que[r]) => a \in Elems(que'[r])
      BY <1>2, <2>2
    <3>3. QED
      BY <1>1, <3>1, <3>2 DEF NoneLost
  <2>3. QED
    BY <2>1, <2>2
<1>9. NoneLost'
  BY <1>8 DEF NoneLost
<1>10. QED
  BY <1>2, <1>7, <1>9

(* A put, by itself or as the second half of a Switch call. *)
LEMMA PutApart ==
  ASSUME IInv, NEW c \in Clients, NEW q \in Queues, NEW b \in HeldBy(c),
         Len(que[q]) < NumBuf, que' = [que EXCEPT ![q] = Append(@, b)],
         HeldBy(c)' = HeldBy(c) \ {b},
         \A d \in Clients : d # c =>
           HeldBy(d)' = HeldBy(d) /\ bufId'[d] = bufId[d] /\ newBufId'[d] = newBufId[d],
         newBufId'[c] = bufId'[c] => bufId'[c] = Invalid
  PROVE  que' \in [Queues -> BoundedSeq(Bufs, NumBuf)] /\ ApartInv' /\ NoneLost'
<1>1. ApartInv /\ NoneLost
  BY DEF IInv
<1>2. /\ b \in Bufs
      /\ que' \in [Queues -> BoundedSeq(Bufs, NumBuf)]
      /\ \A r \in Queues : Distinct(que'[r])
      /\ \A r \in Queues : b \notin Elems(que[r])
      /\ \A r \in Queues :
           Elems(que'[r]) = IF r = q THEN Elems(que[r]) \cup {b} ELSE Elems(que[r])
  BY Stored
<1>3. Elems(que'["empty"]) \cap Elems(que'["full"]) = {}
  BY <1>1, <1>2 DEF ApartInv, Queues
<1>4. \A d \in Clients : b \notin HeldBy(d)'
  BY <1>1 DEF ApartInv
<1>5. \A d \in Clients : HeldBy(d)' \subseteq HeldBy(d)
  OBVIOUS
<1>6. ASSUME NEW d \in Clients, NEW r \in Queues
      PROVE  HeldBy(d)' \cap Elems(que'[r]) = {}
  <2>1. HeldBy(d) \cap Elems(que[r]) = {} /\ Elems(que'[r]) \subseteq Elems(que[r]) \cup {b}
    BY <1>1, <1>2 DEF ApartInv
  <2>2. QED
    BY <1>4, <1>5, <2>1
<1>7. ASSUME NEW d \in Clients, NEW e \in Clients, d # e
      PROVE  HeldBy(d)' \cap HeldBy(e)' = {}
  <2>1. HeldBy(d) \cap HeldBy(e) = {}
    BY <1>1, <1>7 DEF ApartInv
  <2>2. QED
    BY <1>5, <2>1
<1>8. \A d \in Clients : newBufId'[d] = bufId'[d] => bufId'[d] = Invalid
  BY <1>1 DEF ApartInv
<1>9. ApartInv'
  BY <1>2, <1>3, <1>6, <1>7, <1>8 DEF ApartInv
<1>10. ASSUME NEW a \in Bufs
       PROVE  (\E r \in Queues : a \in Elems(que'[r])) \/ (\E d \in Clients : a \in HeldBy(d)')
  <2>1. CASE a = b
    BY <1>2, <2>1
  <2>2. CASE a # b
    <3>1. \A d \in Clients : a \in HeldBy(d) => a \in HeldBy(d)'
      BY <2>2
    <3>2. \A r \in Queues : a \in Elems(que[r]) => a \in Elems(que'[r])
      BY <1>2
    <3>3. QED
      BY <1>1, <3>1, <3>2 DEF NoneLost
  <2>3. QED
    BY <2>1, <2>2
<1>11. NoneLost'
  BY <1>10 DEF NoneLost
<1>12. QED
  BY <1>2, <1>9, <1>11

(* OSA_bufGetEmpty, OSA_bufGetFull. *)
LEMMA GetPreserves ==
  ASSUME IInv, NEW c \in Clients, get(c)
  PROVE  IInv'
<1>a. TypeOK /\ SwitchInv /\ Source(c) \in Queues
  BY QueuesOf DEF IInv
<1>b. PICK b : b = Head(que[Source(c)])
  OBVIOUS
<1>c. /\ que[Source(c)] # <<>> /\ bpc[c] = "idle" /\ bufId[c] = Invalid
      /\ bufId' = [bufId EXCEPT ![c] = b]
      /\ que' = [que EXCEPT ![Source(c)] = Tail(@)]
      /\ newBufId' = newBufId /\ bpc' = bpc
  BY <1>b DEF get
<1>d. b \in Bufs /\ b # Invalid
  BY <1>a, <1>b, <1>c, Taken, InvalidIsNone
<1>e. newBufId[c] = Invalid
  BY <1>a, <1>c DEF SwitchInv
<1>f. \A d \in Clients : bufId'[d] = IF d = c THEN b ELSE bufId[d]
  BY <1>a, <1>c DEF TypeOK
<1>1. que' \in [Queues -> BoundedSeq(Bufs, NumBuf)] /\ ApartInv' /\ NoneLost'
  <2>1. HeldBy(c) = {} /\ HeldBy(c)' = {b}
    BY <1>c, <1>d, <1>e, <1>f DEF HeldBy
  <2>2. \A d \in Clients : d # c =>
          HeldBy(d)' = HeldBy(d) /\ bufId'[d] = bufId[d] /\ newBufId'[d] = newBufId[d]
    BY <1>c, <1>f DEF HeldBy
  <2>3. newBufId'[c] # bufId'[c]
    BY <1>c, <1>d, <1>e, <1>f
  <2>4. QED
    BY <1>a, <1>b, <1>c, <2>1, <2>2, <2>3, GetApart
<1>2. TypeOK'
  BY <1>a, <1>c, <1>d, <1>1 DEF TypeOK, Queues
<1>3. SwitchInv'
  BY <1>a, <1>c DEF SwitchInv
<1>4. QED
  BY <1>1, <1>2, <1>3 DEF IInv

(* OSA_bufPutFull, OSA_bufPutEmpty. *)
LEMMA PutPreserves ==
  ASSUME IInv, NEW c \in Clients, put(c)
  PROVE  IInv'
<1>a. TypeOK /\ SwitchInv /\ Target(c) \in Queues
  BY QueuesOf DEF IInv
<1>b. PICK b : b = bufId[c]
  OBVIOUS
<1>c. /\ Len(que[Target(c)]) < NumBuf /\ bpc[c] = "idle" /\ b # Invalid
      /\ bufId' = [bufId EXCEPT ![c] = Invalid]
      /\ que' = [que EXCEPT ![Target(c)] = Append(@, b)]
      /\ newBufId' = newBufId /\ bpc' = bpc
  BY <1>b DEF put
<1>d. newBufId[c] = Invalid
  BY <1>a, <1>c DEF SwitchInv
<1>e. \A d \in Clients : bufId'[d] = IF d = c THEN Invalid ELSE bufId[d]
  BY <1>a, <1>c DEF TypeOK
<1>1. que' \in [Queues -> BoundedSeq(Bufs, NumBuf)] /\ ApartInv' /\ NoneLost'
  <2>1. b \in HeldBy(c) /\ HeldBy(c)' = HeldBy(c) \ {b}
    BY <1>b, <1>c, <1>d, <1>e DEF HeldBy
  <2>2. \A d \in Clients : d # c =>
          HeldBy(d)' = HeldBy(d) /\ bufId'[d] = bufId[d] /\ newBufId'[d] = newBufId[d]
    BY <1>c, <1>e DEF HeldBy
  <2>3. bufId'[c] = Invalid
    BY <1>e
  <2>4. QED
    BY <1>a, <1>c, <2>1, <2>2, <2>3, PutApart
<1>2. TypeOK'
  BY <1>a, <1>c, <1>1 DEF TypeOK, Queues
<1>3. SwitchInv'
  BY <1>a, <1>c DEF SwitchInv
<1>4. QED
  BY <1>1, <1>2, <1>3 DEF IInv

(* OSA_bufSwitchFull, OSA_bufSwitchEmpty: the first half ... *)
LEMMA SwitchGetPreserves ==
  ASSUME IInv, NEW c \in Clients, switchGet(c)
  PROVE  IInv'
<1>a. TypeOK /\ SwitchInv /\ Source(c) \in Queues
  BY QueuesOf DEF IInv
<1>b. PICK b : b = Head(que[Source(c)])
  OBVIOUS
<1>c. /\ que[Source(c)] # <<>> /\ bpc[c] = "idle"
      /\ newBufId' = [newBufId EXCEPT ![c] = b]
      /\ que' = [que EXCEPT ![Source(c)] = Tail(@)]
      /\ bpc' = [bpc EXCEPT ![c] = "put"]
      /\ bufId' = bufId
  BY <1>b DEF switchGet
<1>d. b \in Bufs /\ b # Invalid /\ b \notin HeldBy(c)
  BY <1>a, <1>b, <1>c, Taken, InvalidIsNone
<1>e. newBufId[c] = Invalid
  BY <1>a, <1>c DEF SwitchInv
<1>f. /\ \A d \in Clients : newBufId'[d] = IF d = c THEN b ELSE newBufId[d]
      /\ \A d \in Clients : bpc'[d] = IF d = c THEN "put" ELSE bpc[d]
  BY <1>a, <1>c DEF TypeOK
<1>1. que' \in [Queues -> BoundedSeq(Bufs, NumBuf)] /\ ApartInv' /\ NoneLost'
  <2>1. HeldBy(c)' = HeldBy(c) \cup {b}
    BY <1>c, <1>d, <1>e, <1>f DEF HeldBy
  <2>2. \A d \in Clients : d # c =>
          HeldBy(d)' = HeldBy(d) /\ bufId'[d] = bufId[d] /\ newBufId'[d] = newBufId[d]
    BY <1>c, <1>f DEF HeldBy
  <2>3. newBufId'[c] # bufId'[c]
    BY <1>c, <1>d, <1>f DEF HeldBy
  <2>4. QED
    BY <1>a, <1>b, <1>c, <2>1, <2>2, <2>3, GetApart
<1>2. TypeOK'
  BY <1>a, <1>c, <1>d, <1>1 DEF TypeOK, Queues
<1>3. SwitchInv'
  BY <1>a, <1>d, <1>f DEF SwitchInv
<1>4. QED
  BY <1>1, <1>2, <1>3 DEF IInv

(* ... and the second. *)
LEMMA SwitchPutPreserves ==
  ASSUME IInv, NEW c \in Clients, switchPut(c)
  PROVE  IInv'
<1>a. TypeOK /\ ApartInv /\ NoneLost /\ SwitchInv /\ Target(c) \in Queues
  BY QueuesOf DEF IInv
<1>b. PICK b : b = bufId[c]
  OBVIOUS
<1>c. /\ bpc[c] = "put"
      /\ \/ b # Invalid /\ Len(que[Target(c)]) < NumBuf
              /\ que' = [que EXCEPT ![Target(c)] = Append(@, b)]
         \/ b = Invalid /\ que' = que
      /\ bufId' = [bufId EXCEPT ![c] = newBufId[c]]
      /\ newBufId' = [newBufId EXCEPT ![c] = Invalid]
      /\ bpc' = [bpc EXCEPT ![c] = "idle"]
  BY <1>b DEF switchPut
<1>d. newBufId[c] # Invalid /\ newBufId[c] # b
  BY <1>a, <1>b, <1>c DEF SwitchInv, ApartInv
<1>e. /\ \A d \in Clients : bufId'[d] = IF d = c THEN newBufId[c] ELSE bufId[d]
      /\ \A d \in Clients : newBufId'[d] = IF d = c THEN Invalid ELSE newBufId[d]
      /\ \A d \in Clients : bpc'[d] = IF d = c THEN "idle" ELSE bpc[d]
  BY <1>a, <1>c DEF TypeOK
<1>f. /\ HeldBy(c)' = {newBufId[c]} /\ newBufId'[c] # bufId'[c]
      /\ \A d \in Clients : d # c =>
           HeldBy(d)' = HeldBy(d) /\ bufId'[d] = bufId[d] /\ newBufId'[d] = newBufId[d]
  BY <1>d, <1>e DEF HeldBy
<1>1. que' \in [Queues -> BoundedSeq(Bufs, NumBuf)] /\ ApartInv' /\ NoneLost'
  <2>1. CASE /\ b # Invalid /\ Len(que[Target(c)]) < NumBuf
             /\ que' = [que EXCEPT ![Target(c)] = Append(@, b)]
    <3>1. b \in HeldBy(c) /\ HeldBy(c)' = HeldBy(c) \ {b}
      BY <1>b, <1>d, <1>f, <2>1 DEF HeldBy
    <3>2. QED
      BY <1>a, <1>f, <2>1, <3>1, PutApart
  <2>2. CASE b = Invalid /\ que' = que
    <3>1. \A d \in Clients : HeldBy(d)' = HeldBy(d)
      BY <1>b, <1>d, <1>f, <2>2, ZenonT(60) DEF HeldBy
    <3>2. ApartInv'
      BY <1>a, <1>f, <2>2, <3>1 DEF ApartInv
    <3>3. NoneLost'
      BY <1>a, <2>2, <3>1 DEF NoneLost
    <3>4. QED
      BY <1>a, <2>2, <3>2, <3>3 DEF TypeOK, Queues
  <2>3. QED
    BY <1>c, <2>1, <2>2
<1>2. TypeOK'
  BY <1>a, <1>c, <1>1 DEF TypeOK, Queues
<1>3. SwitchInv'
  BY <1>a, <1>e DEF SwitchInv
<1>4. QED
  BY <1>1, <1>2, <1>3 DEF IInv

THEOREM IInvHolds == Spec => []IInv
<1>1. ASSUME IInv, [Next]_vars
      PROVE  IInv'
  <2>1. ASSUME NEW c \in Clients, step(c)
        PROVE  IInv'
    BY <1>1, <2>1, GetPreserves, PutPreserves, SwitchGetPreserves, SwitchPutPreserves DEF step
  <2>2. CASE UNCHANGED vars
    BY <1>1, <2>2 DEF vars, IInv, TypeOK, ApartInv, NoneLost, SwitchInv, HeldBy
  <2>3. QED
    BY <1>1, <2>1, <2>2 DEF Next
<1>2. QED
  BY <1>1, InitIInv, PTL DEF Spec
-----------------------------------------------------------------------------
THEOREM TypesHold == Spec => []TypeOK
BY IInvHolds, PTL DEF IInv

(* OSA_quePut waits with OSA_TIMEOUT_FOREVER for room in a queue as long   *)
(* as the number of buffers: a caller that has one to put finds it.        *)
THEOREM PutNeverWaitsHolds == Spec => []PutNeverWaits
<1>1. IInv => PutNeverWaits
  <2> SUFFICES ASSUME IInv, NEW c \in Clients, HeldBy(c) # {}
               PROVE  Len(que[Target(c)]) < NumBuf
    BY DEF PutNeverWaits
  <2> DEFINE q == Target(c)
  <2>1. q \in Queues /\ TypeOK /\ ApartInv
    BY QueuesOf DEF IInv
  <2>2. PICK b \in HeldBy(c) : b \in Bufs /\ b \notin Elems(que[q])
    BY <2>1 DEF ApartInv, HeldBy, TypeOK
  <2>3. IsFiniteSet(Bufs) /\ Cardinality(Bufs) = NumBuf
    BY BufAssumption, FS_Interval DEF Bufs
  <2>4. IsFiniteSet(Bufs \ {b}) /\ Cardinality(Bufs \ {b}) = NumBuf - 1
    BY <2>2, <2>3, FS_RemoveElement
  <2>5. Elems(que[q]) \in SUBSET (Bufs \ {b})
    BY <2>1, <2>2, QueTypes
  <2>6. Cardinality(Elems(que[q])) <= NumBuf - 1
    BY <2>4, <2>5, FS_Subset
  <2>7. que[q] \in Seq(Bufs) /\ Distinct(que[q]) /\ Len(que[q]) \in Nat
    BY <2>1, QueTypes DEF ApartInv
  <2>8. Cardinality(Elems(que[q])) = Len(que[q])
    BY <2>7, DistinctLen
  <2>9. QED
    BY <2>6, <2>7, <2>8, BufAssumption
<1>2. QED
  BY <1>1, IInvHolds, PTL

(* Each buffer is once in a queue or with one caller: nobody reads what    *)
(* another is writing, and none is lost, whatever mix of get, put and      *)
(* Switch calls the callers use.                                           *)
THEOREM EachBufferOnceHolds == Spec => []EachBufferOnce
<1>1. ASSUME IInv, NEW b \in Bufs
      PROVE  Cardinality(Queued(b)) + Cardinality(InHands(b)) = 1
  <2>a. /\ TypeOK /\ ApartInv /\ NoneLost /\ b # Invalid
        /\ \A q \in Queues : Len(que[q]) \in Nat /\ Len(que[q]) <= NumBuf
    BY <1>1, InvalidIsNone, QueTypes DEF IInv
  <2>b. \A q \in Queues : \A i \in 1 .. NumBuf :
          <<q, i>> \in Queued(b) <=> i <= Len(que[q]) /\ que[q][i] = b
    BY DEF Queued, Queues
  <2>c. \A x \in Queued(b) : \E q \in Queues, i \in 1 .. NumBuf :
          x = <<q, i>> /\ i \in 1 .. Len(que[q]) /\ que[q][i] = b
    BY <2>a DEF Queued, Queues
  <2>d. \A x \in InHands(b) : \E c \in Clients, f \in {"bufId", "newBufId"} :
          x = <<c, f>> /\ b \in HeldBy(c)
          /\ b = IF f = "bufId" THEN bufId[c] ELSE newBufId[c]
    BY <2>a DEF InHands, HeldBy
  <2>1. ASSUME NEW q \in Queues, b \in Elems(que[q])
        PROVE  Cardinality(Queued(b)) = 1 /\ Cardinality(InHands(b)) = 0
    <3>1. PICK i \in 1 .. Len(que[q]) : que[q][i] = b
      BY <2>1 DEF Elems
    <3>2. i \in 1 .. NumBuf /\ <<q, i>> \in Queued(b)
      <4>1. i \in 1 .. NumBuf
        BY <2>a, <3>1, BufAssumption
      <4>2. QED
        BY <2>b, <3>1, <4>1
    <3>3. ASSUME NEW x \in Queued(b)
          PROVE  x = <<q, i>>
      <4>1. PICK r \in Queues, j \in 1 .. NumBuf :
              x = <<r, j>> /\ j \in 1 .. Len(que[r]) /\ que[r][j] = b
        BY <2>c
      <4>2. b \in Elems(que[r])
        BY <4>1 DEF Elems
      <4>3. r = q
        BY <2>1, <2>a, <4>2 DEF ApartInv, Queues
      <4>4. j = i
        BY <2>a, <3>1, <4>1, <4>3 DEF ApartInv, Distinct
      <4>5. QED
        BY <4>1, <4>3, <4>4
    <3>4. Queued(b) = {<<q, i>>}
      BY <3>2, <3>3
    <3>5. InHands(b) = {}
      BY <2>1, <2>a, <2>d DEF ApartInv
    <3>6. QED
      BY <3>4, <3>5, FS_Singleton, FS_EmptySet
  <2>2. ASSUME NEW c \in Clients, b \in HeldBy(c)
        PROVE  Cardinality(Queued(b)) = 0 /\ Cardinality(InHands(b)) = 1
    <3>1. Queued(b) = {}
      <4>1. \A q \in Queues : b \notin Elems(que[q])
        BY <2>a, <2>2 DEF ApartInv
      <4>2. QED
        BY <2>c, <4>1 DEF Elems
    <3>2. PICK f \in {"bufId", "newBufId"} :
            b = IF f = "bufId" THEN bufId[c] ELSE newBufId[c]
      BY <2>2 DEF HeldBy
    <3>3. <<c, f>> \in InHands(b)
      BY <3>2 DEF InHands
    <3>4. ASSUME NEW x \in InHands(b)
          PROVE  x = <<c, f>>
      <4>1. PICK d \in Clients, g \in {"bufId", "newBufId"} :
              x = <<d, g>> /\ b \in HeldBy(d)
              /\ b = IF g = "bufId" THEN bufId[d] ELSE newBufId[d]
        BY <2>d
      <4>2. d = c
        BY <2>a, <2>2, <4>1 DEF ApartInv
      <4>3. newBufId[c] # bufId[c]
        BY <2>a, <3>2 DEF ApartInv
      <4>4. g = f
        BY <3>2, <4>1, <4>2, <4>3
      <4>5. QED
        BY <4>1, <4>2, <4>4
    <3>5. InHands(b) = {<<c, f>>}
      BY <3>3, <3>4
    <3>6. QED
      BY <3>1, <3>5, FS_Singleton, FS_EmptySet
  <2>3. QED
    BY <2>1, <2>2, <2>a DEF NoneLost
<1>2. IInv => EachBufferOnce
  BY <1>1 DEF EachBufferOnce
<1>3. QED
  BY <1>2, IInvHolds, PTL
=============================================================================
