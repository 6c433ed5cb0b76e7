---------------------------- MODULE DeviceProofs ----------------------------
(***************************************************************************)
(* What the run NetDisplay checks on one instance, for any: the photograph *)
(* (Camera), the network and display threads (NetDisplay) and the LED      *)
(* (LedMng).                                                               *)
(***************************************************************************)
EXTENDS MCDevice, SeqLemmas

(* The frames that were begun before the running call of save_Picture and  *)
(* are still to be handed out.                                             *)
Stale ==
  {b \in Elems(done) : image[b][1] = "old"} \cup IF begun = "old" THEN {Head(queued)} ELSE {}

Fresh(b) == image[b][1] # "old" /\ image[b][2] # "old"

(* Where the buffers are, and what is in those that are filled. *)
FramesInv ==
  /\ Distinct(queued) /\ Distinct(done) /\ Elems(queued) \cap Elems(done) = {}
  /\ camPc = "q" => index \notin Elems(queued) \cup Elems(done)
  /\ begun # "none" => queued # <<>> /\ image[Head(queued)][1] = begun
  /\ \A b \in Elems(done) : image[b][1] = image[b][2] /\ image[b][1] # "none"
  /\ camPc \in {"open", "request", "queue", "stream"} => fd # "on" /\ done = <<>> /\ begun = "none"
  /\ camPc \in {"open", "request", "queue"} => queued = <<>>

(* The driver hands them out in the order it has begun them. *)
OrderInv ==
  /\ \A i, j \in 1 .. Len(done) :
       i < j /\ image[done[j]][1] = "old" => image[done[i]][1] = "old"
  /\ begun = "old" => \A b \in Elems(done) : image[b][1] = "old"

(* save_Picture takes more frames than there are stale ones. *)
CountInv ==
  /\ camPc = "dq" => Cardinality(Stale) < count
  /\ camPc = "q" => /\ count >= 1
                    /\ Cardinality(Stale) < count - 1 \/ (Stale = {} /\ Fresh(index))
  /\ camPc \in {"read1", "read2"} => Stale = {} /\ Fresh(index)
  /\ \A half \in 1 .. 2 : photo[half] # "old"

CamInv == CamTypeOK /\ FramesInv /\ OrderInv /\ CountInv

LEMMA CamInitInv == CamInit => CamInv
<1> SUFFICES ASSUME CamInit PROVE CamInv
  OBVIOUS
<1>1. CamTypeOK
  BY CameraAssumption, EmptySeq DEF CamInit, CamTypeOK, Ages, Empty
<1>2. Elems(done) = {} /\ Elems(queued) = {} /\ Distinct(queued) /\ Distinct(done) /\ Len(done) = 0
  BY ElemsEmpty, EmptySeq DEF CamInit
<1>3. FramesInv
  BY <1>2 DEF CamInit, FramesInv
<1>4. OrderInv
  BY <1>2 DEF CamInit, OrderInv
<1>5. CountInv
  BY DEF CamInit, CountInv, Empty
<1> QED
  BY <1>1, <1>3, <1>4, <1>5 DEF CamInv

(* The stale frames are in buffers. *)
LEMMA StaleTypes ==
  ASSUME CamTypeOK, FramesInv
  PROVE  /\ Stale \subseteq Buffers /\ IsFiniteSet(Stale) /\ Cardinality(Stale) \in Nat
         /\ Cardinality(Stale) <= Cardinality(Buffers)
         /\ Elems(done) \subseteq Buffers /\ Elems(queued) \subseteq Buffers
<1>1. Elems(done) \subseteq Buffers /\ Elems(queued) \subseteq Buffers
  BY ElemsIn DEF CamTypeOK
<1>2. queued # <<>> => Head(queued) \in Buffers
  BY ElemsTail DEF CamTypeOK
<1>3. Stale \subseteq Buffers
  BY <1>1, <1>2 DEF Stale, FramesInv
<1> QED
  BY <1>1, <1>3, CameraAssumption, FS_Subset, FS_CardinalityType

(* Start-up. *)
LEMMA StartPreserves ==
  ASSUME CamInv, openDevice \/ requestBuffers \/ queueAll \/ Start_Cameral
  PROVE  CamInv'
<1> USE DEF CamInv
<1>1. /\ camPc \in {"open", "request", "queue", "stream"}
      /\ camPc' \in {"request", "queue", "stream", "idle"}
      /\ UNCHANGED <<count, index, photo, done, begun, image>>
      /\ fd' \in {"closed", "open", "on"} /\ cameraState' \in {"ERR", "DISCONNECT", "NORMAL"}
  BY DEF openDevice, requestBuffers, queueAll, Start_Cameral, driverVars, CamTypeOK
<1>2. done = <<>> /\ begun = "none" /\ fd # "on"
  BY <1>1 DEF FramesInv
<1>3. Elems(done) = {} /\ Len(done) = 0 /\ Distinct(done)
  BY <1>2, ElemsEmpty, EmptySeq
<1>4. queued' \in Seq(Buffers) /\ Distinct(queued')
  <2>1. CASE queued' = queued
    BY <2>1 DEF CamTypeOK, FramesInv
  <2>2. CASE queueAll
    <3>1. PICK taken \in SUBSET Buffers : queued' = SetToSeq(taken)
      BY <2>2 DEF queueAll
    <3>2. IsFiniteSet(taken)
      BY <3>1, CameraAssumption, FS_Subset
    <3>3. queued' \in Seq(taken) /\ Distinct(queued')
      BY <3>1, <3>2, SetToSeqDistinct
    <3> QED
      BY <3>1, <3>3
  <2> QED
    BY <2>1, <2>2 DEF openDevice, requestBuffers, Start_Cameral, driverVars
<1>5. CamTypeOK'
  BY <1>1, <1>4 DEF CamTypeOK
<1>6. camPc' \in {"request", "queue", "stream"} => fd' # "on"
  BY <1>2 DEF openDevice, requestBuffers, queueAll, Start_Cameral
<1>7. camPc' \in {"request", "queue"} => queued' = <<>>
  BY DEF openDevice, requestBuffers, queueAll, Start_Cameral, driverVars, FramesInv
<1>8. FramesInv'
  BY <1>1, <1>2, <1>3, <1>4, <1>6, <1>7 DEF FramesInv, Elems, Distinct
<1>9. OrderInv'
  BY <1>1, <1>2, <1>3 DEF OrderInv
<1>10. CountInv'
  BY <1>1 DEF CountInv
<1> QED
  BY <1>5, <1>8, <1>9, <1>10

(* A call of save_Picture: every frame there is becomes stale. *)
LEMMA CallPreserves ==
  ASSUME CamInv, save_Picture, Cardinality(Buffers) < Turns
  PROVE  CamInv'
<1> USE DEF CamInv
<1>1. /\ camPc = "idle" /\ camPc' = "dq" /\ count' = Turns /\ photo' = Empty
      /\ begun' = Older(begun)
      /\ UNCHANGED <<fd, cameraState, index, queued, done>>
  BY DEF save_Picture
<1>2. /\ image' \in [Buffers -> [1 .. 2 -> Ages]]
      /\ \A b \in Buffers, h \in 1 .. 2 : image'[b][h] = Older(image[b][h])
  BY DEF save_Picture, CamTypeOK, Older, Ages
<1>3. CamTypeOK'
  BY <1>1, <1>2, CameraAssumption DEF CamTypeOK, Older, Ages, Empty
<1>4. \A b \in Buffers, h \in 1 .. 2 : image[b][h] \in Ages
  BY DEF CamTypeOK
<1>5. \A b \in Elems(done) : image'[b][1] = "old" /\ image'[b][2] = "old"
  BY <1>2, <1>4, StaleTypes DEF FramesInv, Older, Ages
<1>6. FramesInv'
  <2>1. begun' # "none" => queued # <<>> /\ image'[Head(queued)][1] = begun'
    <3>1. begun' # "none" => begun # "none"
      BY <1>1 DEF Older
    <3>2. queued # <<>> => Head(queued) \in Buffers
      BY ElemsTail DEF CamTypeOK
    <3> QED
      BY <1>1, <1>2, <3>1, <3>2 DEF FramesInv
  <2> QED
    BY <1>1, <1>5, <2>1, SMTT(30) DEF FramesInv, Elems, Distinct
<1>7. OrderInv'
  <2>1. \A i \in 1 .. Len(done) : done[i] \in Elems(done)
    BY DEF Elems
  <2> QED
    BY <1>1, <1>5, <2>1 DEF OrderInv, Elems
<1>8. CountInv'
  <2>1. Stale' \subseteq Buffers
    <3>1. Elems(done') \subseteq Buffers
      BY <1>1, StaleTypes
    <3>2. queued' # <<>> => Head(queued') \in Buffers
      BY <1>1, ElemsTail DEF CamTypeOK
    <3> QED
      BY <1>6, <3>1, <3>2 DEF Stale, FramesInv
  <2>2. Cardinality(Stale') < Turns
    BY <2>1, CameraAssumption, FS_Subset, FS_CardinalityType
  <2> QED
    BY <1>1, <2>2 DEF CountInv, Empty
<1> QED
  BY <1>3, <1>6, <1>7, <1>8

(* VIDIOC_DQBUF takes a stale frame, or there is none any more. *)
LEMMA DequeuePreserves ==
  ASSUME CamInv, dequeue
  PROVE  CamInv'
<1> USE DEF CamInv
<1>1. /\ camPc = "dq" /\ done # <<>> /\ index' = Head(done) /\ done' = Tail(done) /\ camPc' = "q"
      /\ UNCHANGED <<fd, cameraState, count, queued, begun, image, photo>>
  BY DEF dequeue
<1>2. /\ index' \in Elems(done) /\ index' \in Buffers
      /\ done' \in Seq(Buffers) /\ Len(done') = Len(done) - 1 /\ Len(done) >= 1
      /\ Distinct(done') /\ Elems(done') = Elems(done) \ {index'}
      /\ index' = done[1] /\ Len(done) \in Nat
      /\ \A i \in 1 .. Len(done') : done'[i] = done[i + 1]
  <2>1. done \in Seq(Buffers) /\ Distinct(done)
    BY DEF CamTypeOK, FramesInv
  <2> QED
    BY <1>1, <2>1, ElemsTail, HeadTailProperties, LenProperties
<1>3. CamTypeOK'
  BY <1>1, <1>2 DEF CamTypeOK
<1>4. FramesInv'
  BY <1>1, <1>2 DEF FramesInv
<1>5. OrderInv'
  BY <1>1, <1>2 DEF OrderInv
<1>6. Stale' = Stale \ {index'}
  <2>1. begun = "old" => Head(queued) \notin Elems(done)
    BY ElemsTail DEF FramesInv, CamTypeOK
  <2> QED
    BY <1>1, <1>2, <2>1 DEF Stale
<1>7. CountInv'
  <2>1. Cardinality(Stale) < count /\ count \in Nat /\ IsFiniteSet(Stale) /\ Cardinality(Stale) \in Nat
    BY <1>1, StaleTypes DEF CountInv, CamTypeOK
  <2>2. CASE image[index'][1] = "old"
    <3>1. index' \in Stale
      BY <1>2, <2>2 DEF Stale
    <3>2. Cardinality(Stale') = Cardinality(Stale) - 1
      BY <1>6, <2>1, <3>1, FS_RemoveElement
    <3> QED
      BY <1>1, <2>1, <3>2 DEF CountInv
  <2>3. CASE image[index'][1] # "old"
    <3>1. \A b \in Elems(done) : image[b][1] # "old"
      <4> SUFFICES ASSUME NEW i \in 1 .. Len(done) PROVE image[done[i]][1] # "old"
        BY DEF Elems
      <4>1. i = 1 \/ 1 < i
        OBVIOUS
      <4> QED
        BY <1>2, <2>3, <4>1 DEF OrderInv
    <3>2. Stale = {}
      BY <1>2, <3>1 DEF OrderInv, Stale
    <3>3. Stale' = {} /\ Fresh(index)'
      BY <1>1, <1>2, <1>6, <2>3, <3>2 DEF FramesInv, Fresh
    <3>4. count >= 1
      BY <2>1
    <3> QED
      BY <1>1, <3>3, <3>4 DEF CountInv
  <2> QED
    BY <2>2, <2>3
<1> QED
  BY <1>3, <1>4, <1>5, <1>7

(* VIDIOC_QBUF gives the buffer back, and after the last one the callback  *)
(* reads it.                                                               *)
LEMMA EnqueuePreserves ==
  ASSUME CamInv, enqueue
  PROVE  CamInv'
<1> USE DEF CamInv
<1>1. /\ camPc = "q" /\ queued' = Append(queued, index) /\ count' = count - 1
      /\ camPc' = IF count' > 0 THEN "dq" ELSE "read1"
      /\ UNCHANGED <<fd, cameraState, index, done, begun, image, photo>>
  BY DEF enqueue
<1>2. /\ queued \in Seq(Buffers) /\ index \in Buffers /\ Distinct(queued)
      /\ index \notin Elems(queued) /\ index \notin Elems(done)
      /\ count \in Nat /\ count >= 1 /\ count <= Turns
  BY <1>1, CameraAssumption DEF CamTypeOK, FramesInv, CountInv
<1>3. /\ queued' \in Seq(Buffers) /\ Elems(queued') = Elems(queued) \cup {index}
      /\ Distinct(queued')
      /\ queued' # <<>> /\ (queued # <<>> => Head(queued') = Head(queued))
  <2>1. /\ Append(queued, index) \in Seq(Buffers)
        /\ Elems(Append(queued, index)) = Elems(queued) \cup {index}
        /\ Distinct(Append(queued, index))
    BY <1>2, ElemsAppend
  <2>2. /\ Append(queued, index) # <<>>
        /\ queued # <<>> => Head(Append(queued, index)) = Head(queued)
    BY <1>2
  <2> QED
    BY <1>1, <2>1, <2>2
<1>4. CamTypeOK'
  BY <1>1, <1>2, <1>3, CameraAssumption DEF CamTypeOK
<1>5. FramesInv'
  BY <1>1, <1>2, <1>3 DEF FramesInv
<1>6. OrderInv'
  BY <1>1 DEF OrderInv
<1>7. Stale' = Stale
  BY <1>1, <1>3 DEF Stale, FramesInv
<1>8. CountInv'
  <2>1. Cardinality(Stale) < count - 1 \/ (Stale = {} /\ Fresh(index))
    BY <1>1 DEF CountInv
  <2>2. Cardinality(Stale) \in Nat
    BY StaleTypes
  <2>3. Stale = {} => Cardinality(Stale) = 0
    BY FS_EmptySet
  <2>4. CASE count' > 0
    BY <1>1, <1>2, <1>7, <2>1, <2>2, <2>3, <2>4 DEF CountInv
  <2>5. CASE ~(count' > 0)
    <3>1. Stale = {} /\ Fresh(index)
      BY <1>1, <1>2, <2>1, <2>2, <2>5
    <3>2. Stale' = {} /\ Fresh(index)'
      BY <1>1, <1>7, <3>1 DEF Fresh
    <3> QED
      BY <1>1, <2>5, <3>2 DEF CountInv
  <2> QED
    BY <2>4, <2>5
<1> QED
  BY <1>4, <1>5, <1>6, <1>8

(* The driver begins a frame, or fills in its other half and hands it out. *)
LEMMA FillPreserves ==
  ASSUME CamInv, fill
  PROVE  CamInv'
<1> USE DEF CamInv
<1>1. /\ fd = "on" /\ queued # <<>>
      /\ UNCHANGED <<fd, cameraState, camPc, count, index, photo>>
  BY DEF fill
<1>2. PICK b \in Buffers :
        /\ b = Head(queued) /\ b \in Elems(queued) /\ b \notin Elems(done)
        /\ Tail(queued) \in Seq(Buffers) /\ Distinct(Tail(queued))
        /\ Elems(Tail(queued)) = Elems(queued) \ {b}
  BY <1>1, ElemsTail DEF CamTypeOK, FramesInv
<1>3. camPc \notin {"open", "request", "queue", "stream"}
  BY <1>1 DEF FramesInv
<1>4. Elems(done) \subseteq Buffers /\ Elems(queued) \subseteq Buffers
  BY StaleTypes
<1>5. \A i \in 1 .. Len(done) : done[i] \in Elems(done)
  BY DEF Elems
<1>6. image \in [Buffers -> [1 .. 2 -> Ages]]
  BY DEF CamTypeOK
<1>7. CASE begun = "none"
  <2>1. begun' = "new" /\ image' = [image EXCEPT ![b][1] = "new"] /\ UNCHANGED <<queued, done>>
    BY <1>2, <1>7 DEF fill
  <2>2. /\ image' \in [Buffers -> [1 .. 2 -> Ages]] /\ image'[b][1] = "new"
        /\ \A c \in Buffers : image'[c] # image[c] => c = b
        /\ image'[b][2] = image[b][2]
    BY <1>6, <2>1 DEF Ages
  <2>3. CamTypeOK'
    BY <1>1, <2>1, <2>2 DEF CamTypeOK, Ages
  <2>4. \A c \in Elems(done) : image'[c] = image[c]
    BY <1>2, <1>4, <2>2
  <2>5. FramesInv'
    BY <1>1, <1>2, <1>3, <2>1, <2>2, <2>4 DEF FramesInv
  <2>6. OrderInv'
    BY <1>5, <2>1, <2>4 DEF OrderInv
  <2>7. Stale' = Stale
    BY <1>7, <2>1, <2>4 DEF Stale
  <2>8. Fresh(index) => Fresh(index)'
    BY <1>1, <2>2 DEF Fresh, CamTypeOK
  <2>9. CountInv'
    BY <1>1, <2>7, <2>8 DEF CountInv
  <2> QED
    BY <2>3, <2>5, <2>6, <2>9
<1>8. CASE begun # "none"
  <2>1. /\ begun' = "none" /\ image' = [image EXCEPT ![b][2] = begun]
        /\ queued' = Tail(queued) /\ done' = Append(done, b)
    BY <1>2, <1>8 DEF fill
  <2>2. begun \in Ages /\ image[b][1] = begun
    BY <1>2, <1>8 DEF CamTypeOK, FramesInv
  <2>3. /\ image' \in [Buffers -> [1 .. 2 -> Ages]] /\ image'[b][2] = begun
        /\ \A c \in Buffers : image'[c] # image[c] => c = b
        /\ image'[b][1] = begun
    BY <1>6, <2>1, <2>2
  <2>4. \A c \in Elems(done) : image'[c] = image[c]
    BY <1>2, <1>4, <2>3
  <2>5. /\ done' \in Seq(Buffers) /\ Elems(done') = Elems(done) \cup {b} /\ Distinct(done')
        /\ Len(done) \in Nat /\ Len(done') = Len(done) + 1
        /\ \A i \in 1 .. Len(done) : done'[i] = done[i]
        /\ done'[Len(done) + 1] = b
    <3>1. done \in Seq(Buffers) /\ Distinct(done)
      BY DEF CamTypeOK, FramesInv
    <3>2. /\ Append(done, b) \in Seq(Buffers)
          /\ Elems(Append(done, b)) = Elems(done) \cup {b}
          /\ Distinct(Append(done, b))
          /\ Len(Append(done, b)) = Len(done) + 1
      BY <1>2, <3>1, ElemsAppend
    <3>3. /\ \A i \in 1 .. Len(done) : Append(done, b)[i] = done[i]
          /\ Append(done, b)[Len(done) + 1] = b /\ Len(done) \in Nat
      BY <3>1, AppendProperties, LenProperties
    <3> QED
      BY <2>1, <3>2, <3>3
  <2>6. CamTypeOK'
    BY <1>1, <1>2, <2>1, <2>3, <2>5 DEF CamTypeOK, Ages
  <2>7. FramesInv'
    <3>1. Distinct(queued') /\ Distinct(done') /\ Elems(queued') \cap Elems(done') = {}
      BY <1>2, <2>1, <2>5 DEF FramesInv
    <3>2. camPc' = "q" => index' \notin Elems(queued') \cup Elems(done')
      BY <1>1, <1>2, <2>1, <2>5 DEF FramesInv
    <3>3. \A c \in Elems(done') : image'[c][1] = image'[c][2] /\ image'[c][1] # "none"
      BY <1>8, <2>3, <2>4, <2>5 DEF FramesInv
    <3> QED
      BY <1>1, <1>3, <2>1, <3>1, <3>2, <3>3 DEF FramesInv
  <2>8. OrderInv'
    <3> SUFFICES ASSUME NEW i \in 1 .. Len(done'), NEW j \in 1 .. Len(done'), i < j,
                        image'[done'[j]][1] = "old"
                 PROVE  image'[done'[i]][1] = "old"
      BY <2>1 DEF OrderInv
    <3>1. i \in 1 .. Len(done) /\ done'[i] = done[i] /\ image'[done[i]] = image[done[i]]
      BY <1>5, <2>4, <2>5
    <3>2. CASE j \in 1 .. Len(done)
      BY <1>5, <2>4, <2>5, <3>1, <3>2 DEF OrderInv
    <3>3. CASE j = Len(done) + 1
      BY <1>5, <2>3, <2>5, <3>1, <3>3 DEF OrderInv
    <3> QED
      BY <2>5, <3>2, <3>3
  <2>9. Stale' = Stale
    BY <1>2, <2>1, <2>3, <2>4, <2>5 DEF Stale
  <2>10. begun = "old" => Stale # {}
    BY DEF Stale
  <2>11. Stale = {} /\ Fresh(index) => Fresh(index)'
    BY <1>1, <2>3, <2>10 DEF Fresh, CamTypeOK
  <2>12. CountInv'
    BY <1>1, <2>9, <2>11 DEF CountInv
  <2> QED
    BY <2>6, <2>7, <2>8, <2>12
<1> QED
  BY <1>7, <1>8

(* The callback reads a buffer that holds nothing stale; a call that fails *)
(* leaves everything as it is.                                             *)
LEMMA ReadPreserves ==
  ASSUME CamInv,
         readHalf("read1", "read2", 1) \/ readHalf("read2", "idle", 2)
           \/ dequeueFails \/ enqueueFails
  PROVE  CamInv'
<1> USE DEF CamInv
<1>1. /\ UNCHANGED <<fd, cameraState, count, index, queued, done, begun, image>>
      /\ camPc' \in {"read2", "idle"}
      /\ camPc' = "read2" => camPc = "read1"
      /\ \/ UNCHANGED photo
         \/ /\ camPc \in {"read1", "read2"}
            /\ \E half \in 1 .. 2 : photo' = [photo EXCEPT ![half] = image[index][half]]
  BY DEF readHalf, dequeueFails, enqueueFails, driverVars
<1>2. \A half \in 1 .. 2 : image[index][half] \in Ages
  BY DEF CamTypeOK
<1>3. CamTypeOK'
  BY <1>1, <1>2 DEF CamTypeOK
<1>4. \A half \in 1 .. 2 : photo'[half] # "old"
  BY <1>1 DEF CountInv, Fresh, CamTypeOK
<1>5. FramesInv'
  BY <1>1 DEF FramesInv
<1>6. OrderInv'
  BY <1>1 DEF OrderInv
<1>7. Stale' = Stale /\ (Fresh(index) => Fresh(index)')
  BY <1>1 DEF Stale, Fresh
<1>8. CountInv'
  BY <1>1, <1>4, <1>7 DEF CountInv
<1> QED
  BY <1>3, <1>5, <1>6, <1>8

LEMMA CamInvariance ==
  ASSUME Cardinality(Buffers) < Turns
  PROVE  CamSpec => []CamInv
<1>1. CamInv /\ UNCHANGED camVars => CamInv'
  <2> SUFFICES ASSUME CamInv, UNCHANGED camVars PROVE CamInv'
    OBVIOUS
  <2>1. UNCHANGED <<fd, cameraState, camPc, count, index, queued, done, begun, image, photo>>
    BY DEF camVars
  <2> QED
    BY <2>1 DEF CamInv, CamTypeOK, FramesInv, OrderInv, CountInv, Stale, Fresh
<1>2. CamInv /\ [CamNext]_camVars => CamInv'
  BY <1>1, StartPreserves, CallPreserves, DequeuePreserves, EnqueuePreserves, FillPreserves,
     ReadPreserves DEF CamNext
<1> QED
  BY CamInitInv, <1>2, PTL DEF CamSpec

(* save_Picture: with fewer buffers than it takes frames (COUNT is 1, count *)
(* starts at 2), whatever the driver does meanwhile and whichever of its   *)
(* calls fail, the callback reads nothing that was begun before the call.  *)
THEOREM PhotoAlwaysFresh ==
  ASSUME Cardinality(Buffers) < Turns
  PROVE  CamSpec => []PhotoIsFresh
<1>1. CamInv => PhotoIsFresh
  BY DEF CamInv, CountInv, PhotoIsFresh
<1> QED
  BY CamInvariance, <1>1, PTL

-----------------------------------------------------------------------------
(* The network thread: three misses, and a link, stand behind a server     *)
(* state about to be taken back.                                           *)
NetInv ==
  /\ npc = "rssi" => serverConnetState = serverState
  /\ npc = "ping" => wifiLink > Disconnect /\ misses <= 2
  /\ npc = "ping" /\ misses = 0 => serverConnetState = serverState
  /\ npc = "publish" => \/ serverConnetState = TRUE \/ serverState = FALSE
                        \/ misses = 3 /\ wifiLink > Disconnect

DisplayInv == TypeOK /\ NetInv

LEMMA LevelsAre == Levels \subseteq Nat /\ \A l \in Levels : l - Disconnect \in 0 .. Strengths
BY StrengthsAssumption DEF Levels, Disconnect

LEMMA DisplayInitInv == Init => DisplayInv
<1> SUFFICES ASSUME Init PROVE DisplayInv
  OBVIOUS
<1>1. SysTypeOK /\ NetTypeOK
  <2>1. 0 \in 0 .. 3
    OBVIOUS
  <2> QED
    BY <2>1, Zenon DEF Init, initSysState, netInit, SysTypeOK, NetTypeOK, RunStates, NetPcs
<1>2. NetInv
  BY DEF Init, initSysState, netInit, NetInv
<1>3. lastSysState \in Copies /\ sysState \in Copies
  BY DEF Init, Copies, RunStates
<1> QED
  BY <1>1, <1>2, <1>3, MaxPublishAssumption DEF Init, DisplayInv, TypeOK

LEMMA NetStepPreserves ==
  ASSUME DisplayInv, netStep
  PROVE  DisplayInv'
<1> USE DEF DisplayInv, TypeOK, SysTypeOK, NetTypeOK, NetPcs
<1>1. /\ UNCHANGED <<upc, sysState, lastSysState, wifiIcon, serverIcon, runState>>
      /\ published' \in 0 .. MaxPublish
  BY MaxPublishAssumption DEF netStep, chkRssi, isLive, publishServer, sysVars
<1>2. CASE chkRssi
  BY <1>1, <1>2, LevelsAre DEF chkRssi, NetInv, Disconnect, Levels
<1>3. CASE isLive
  <2>1. /\ npc = "ping" /\ misses \in 0 .. 2 /\ wifiLink > Disconnect
        /\ UNCHANGED <<wifiLink, serverState>>
    BY <1>3 DEF isLive, NetInv, sysVars
  <2>2. serverConnetState' \in BOOLEAN /\ npc' \in {"ping", "publish"} /\ misses' \in 0 .. 3
    <3>1. misses + 1 \in 0 .. 3
      BY <2>1
    <3> QED
      BY <1>3, <3>1, Zenon DEF isLive
  <2>3. \/ npc' = "publish" /\ serverConnetState' = TRUE
        \/ npc' = "ping" /\ misses' \in 1 .. 2
        \/ npc' = "publish" /\ misses' = 3
    BY <1>3, <2>1 DEF isLive
  <2>4. NetInv'
    BY <2>1, <2>3 DEF NetInv
  <2> QED
    BY <1>1, <2>1, <2>2, <2>4
<1>4. CASE publishServer
  BY <1>1, <1>4, LevelsAre DEF publishServer, setServerState, NetInv
<1> QED
  BY <1>2, <1>3, <1>4 DEF netStep

LEMMA DisplayStepPreserves ==
  ASSUME DisplayInv, uiDisplayProc
  PROVE  DisplayInv'
<1> USE DEF DisplayInv
<1>1. UNCHANGED <<runState, serverState, wifiLink, npc, serverConnetState, misses>>
  BY DEF uiDisplayProc, getSysStateAll, drawWifi, drawServer, remember, sysVars, netVars
<1>2. NetInv' /\ SysTypeOK' /\ NetTypeOK'
  BY <1>1 DEF NetInv, TypeOK, SysTypeOK, NetTypeOK
<1>3. /\ upc' \in {"sleep", "wifi", "server", "remember"} /\ published' \in 0 .. MaxPublish
      /\ sysState' \in Copies /\ lastSysState' \in Copies
      /\ serverIcon' \in {Blank, 0, 1}
  BY MaxPublishAssumption
     DEF uiDisplayProc, getSysStateAll, drawWifi, drawServer, remember, TypeOK, Copies,
         SysTypeOK, NetTypeOK, Icon
<1>4. wifiIcon' \in {Blank, 0 - Disconnect} \cup 0 .. Strengths
  <2>1. sysState.wifi \in {0} \cup Levels
    BY DEF TypeOK, Copies
  <2>2. sysState.wifi - Disconnect \in {0 - Disconnect} \cup 0 .. Strengths
    BY <2>1, LevelsAre
  <2>3. 0 \in 0 .. Strengths
    BY StrengthsAssumption
  <2> QED
    BY <2>2, <2>3 DEF uiDisplayProc, getSysStateAll, drawWifi, drawServer, remember, TypeOK
<1> QED
  BY <1>2, <1>3, <1>4 DEF TypeOK

LEMMA ModeStepPreserves ==
  ASSUME DisplayInv, modeStep
  PROVE  DisplayInv'
<1>1. runState' \in RunStates
  BY BusyAssumption DEF modeStep, M!Next, M!Boot, M!Enter, M!Leave, RunStates
<1>2. UNCHANGED <<serverState, wifiLink, npc, serverConnetState, misses>>
  BY DEF modeStep, netVars
<1>3. UNCHANGED <<upc, sysState, lastSysState, wifiIcon, serverIcon, published>>
  BY DEF modeStep, uiVars
<1> QED
  BY <1>1, <1>2, <1>3 DEF DisplayInv, TypeOK, SysTypeOK, NetTypeOK, NetInv

LEMMA DisplayInvariance == Spec => []DisplayInv
<1>1. DisplayInv /\ UNCHANGED vars => DisplayInv'
  <2> SUFFICES ASSUME DisplayInv, UNCHANGED vars PROVE DisplayInv'
    OBVIOUS
  <2>1. /\ UNCHANGED <<runState, serverState, wifiLink, npc, serverConnetState, misses>>
        /\ UNCHANGED <<upc, sysState, lastSysState, wifiIcon, serverIcon, published>>
    BY DEF vars, sysVars, netVars, uiVars
  <2> QED
    BY <2>1 DEF DisplayInv, TypeOK, SysTypeOK, NetTypeOK, NetInv
<1>2. DisplayInv /\ [Next]_vars => DisplayInv'
  BY <1>1, NetStepPreserves, DisplayStepPreserves, ModeStepPreserves DEF Next
<1> QED
  BY DisplayInitInv, <1>2, PTL DEF Spec

(* netLinkChkThr: whatever the display thread and the run state do, the    *)
(* server state is taken back only by a round that had a link and whose    *)
(* three pings all got no answer.                                          *)
THEOREM ServerGivenUpLate == Spec => LostAfterThreePings
<1>1. DisplayInv /\ [Next]_vars
        => [serverState /\ ~serverState' => misses = 3 /\ wifiLink > Disconnect]_vars
  <2> SUFFICES ASSUME DisplayInv, Next, serverState, ~serverState'
               PROVE  misses = 3 /\ wifiLink > Disconnect
    OBVIOUS
  <2>1. publishServer
    BY DEF Next, netStep, chkRssi, isLive, modeStep, uiDisplayProc, getSysStateAll, drawWifi,
           drawServer, remember, sysVars
  <2> QED
    BY <2>1 DEF publishServer, setServerState, DisplayInv, NetInv
<1> QED
  BY DisplayInvariance, <1>1, PTL DEF Spec, LostAfterThreePings
-----------------------------------------------------------------------------
(* The LED: what times-- loads is what start_led may have stored.          *)
LedInv ==
  /\ LedTypeOK
  /\ ledPc = "load" => times \in {Forever, 1}

LEMMA LedInvariance == LedInit /\ [][LedNext]_ledVars => []LedInv
<1>1. LedInit => LedInv
  <2>1. 0 \in 0 .. MaxCalls /\ 0 \in -2 .. 1
    BY MaxCallsAssumption
  <2> QED
    BY <2>1 DEF LedInit, LedInv, LedTypeOK
<1>2. LedInv /\ UNCHANGED ledVars => LedInv'
  BY DEF LedInv, LedTypeOK, ledVars
<1>3. LedInv /\ LedNext => LedInv'
  <2> SUFFICES ASSUME LedInv, LedNext PROVE LedInv'
    OBVIOUS
  <2> USE DEF LedInv, LedTypeOK, Forever
  <2>1. ASSUME NEW times1 \in {Forever, 1}, start_led(times1)
        PROVE  LedInv'
    BY <2>1, MaxCallsAssumption DEF start_led
  <2>2. CASE round
    BY <2>2, <1>2 DEF round, write
  <2>3. CASE testTimes
    BY <2>3 DEF testTimes
  <2>4. CASE loadTimes
    BY <2>4 DEF loadTimes
  <2>5. CASE storeTimes
    BY <2>5 DEF storeTimes
  <2>6. CASE lastBlink
    BY <2>6 DEF lastBlink, write
  <2> QED
    BY <2>1, <2>2, <2>3, <2>4, <2>5, <2>6 DEF LedNext, LedMngThr
<1> QED
  BY <1>1, <1>2, <1>3, PTL
-----------------------------------------------------------------------------
(* The three together: each is run by itself, and keeps its types.         *)
THEOREM TogetherTyped ==
  ASSUME Cardinality(Buffers) < Turns
  PROVE  MCFairSpec => []TypesOK
<1>1. MCInit => Init /\ LedInit /\ CamInit
  BY DEF MCInit
<1>2. [MCNext]_mcVars => [Next]_vars /\ [LedNext]_ledVars /\ [CamNext]_camVars
  BY Zenon DEF MCNext, mcVars, vars, ledVars, camVars
<1>3. MCFairSpec => Spec /\ CamSpec /\ LedInit /\ [][LedNext]_ledVars
  BY <1>1, <1>2, PTL DEF MCFairSpec, Spec, CamSpec
<1>4. DisplayInv /\ LedInv /\ CamInv => TypesOK
  BY DEF DisplayInv, LedInv, CamInv, TypesOK
<1> QED
  BY <1>3, <1>4, DisplayInvariance, LedInvariance, CamInvariance, PTL
=============================================================================
