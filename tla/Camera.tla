------------------------------- MODULE Camera -------------------------------
(***************************************************************************)
(* The capture buffers of carmera_v4l2.c.  At start-up the buffers are     *)
(* requested and queued; save_Picture takes one frame from the driver,     *)
(* gives the buffer back, does the same again, and only then passes the    *)
(* second buffer to saveJpeg_CallBack, which copies it to a file while the *)
(* driver may be filling it with the next frame.                           *)
(*                                                                         *)
(* The driver fills the queued buffers in their order, a half at a time,   *)
(* and each half is remembered by when its frame was begun: before the     *)
(* call of save_Picture that is running, or since.                         *)
(***************************************************************************)
EXTENDS Sequences, SequencesExt

CONSTANTS
  Buffers,  \* COUNT of them: one
  Turns     \* the count of save_Picture: 2

ASSUME CameraAssumption == Buffers # {} /\ IsFiniteSet(Buffers) /\ Turns \in Nat \ {0}

VARIABLES
  fd,         \* video_fd: "closed" (-1), "open", or "on" when streaming
  cameraState,\* gSysState.cameraState
  camPc,      \* where start-up, and later save_Picture, is
  count,      \* its local of that name
  index,      \* buf.index
  queued,     \* the driver's queue of empty buffers
  done,       \* its queue of filled ones
  begun,      \* when it began the frame it is filling in, "none" if it has not
  image,      \* both halves of each buffer
  photo       \* both halves of what the callback has read

camVars == <<fd, cameraState, camPc, count, index, queued, done, begun, image, photo>>

Ages == {"none", "old", "new"}

CamTypeOK ==
  /\ fd \in {"closed", "open", "on"}
  /\ cameraState \in {"ERR", "DISCONNECT", "NORMAL"}
  /\ camPc \in {"open", "request", "queue", "stream", "idle", "dq", "q", "read1", "read2"}
  /\ count \in 0 .. Turns
  /\ index \in Buffers
  /\ queued \in Seq(Buffers) /\ done \in Seq(Buffers)
  /\ begun \in Ages
  /\ image \in [Buffers -> [1 .. 2 -> Ages]]
  /\ photo \in [1 .. 2 -> Ages]

Empty == [half \in 1 .. 2 |-> "none"]

CamInit ==
  /\ fd = "closed"
  /\ cameraState = "DISCONNECT"
  /\ camPc = "open"
  /\ count = 0
  /\ index \in Buffers
  /\ queued = <<>> /\ done = <<>>
  /\ begun = "none"
  /\ image = [b \in Buffers |-> Empty]
  /\ photo = Empty
-----------------------------------------------------------------------------
driverVars == <<queued, done, begun, image>>

(* Init_Cameral: open, ... *)
openDevice ==
  /\ camPc = "open"
  /\ \/ fd' = "closed" /\ cameraState' = "DISCONNECT" /\ camPc' = "stream"
     \/ fd' = "open" /\ camPc' = "request" /\ UNCHANGED cameraState
  /\ UNCHANGED <<count, index, photo, driverVars>>

(* ... the format and the buffers, which may be refused and leave the      *)
(* device open, ...                                                        *)
requestBuffers ==
  /\ camPc = "request"
  /\ camPc' \in {"queue", "stream"}
  /\ UNCHANGED <<fd, cameraState, count, index, photo, driverVars>>

(* ... and all of them queued, those the driver does not refuse. *)
queueAll ==
  /\ camPc = "queue"
  /\ camPc' = "stream"
  /\ \E taken \in SUBSET Buffers : queued' = SetToSeq(taken)
  /\ UNCHANGED <<fd, cameraState, count, index, photo, done, begun, image>>

(* Start_Cameral, called whatever became of Init_Cameral. *)
Start_Cameral ==
  /\ camPc = "stream"
  /\ camPc' = "idle"
  /\ \/ fd = "closed" /\ UNCHANGED <<fd, cameraState>>
     \/ fd = "open" /\ fd' = "on" /\ cameraState' = "NORMAL"
     \/ fd = "open" /\ cameraState' = "ERR" /\ UNCHANGED fd
  /\ UNCHANGED <<count, index, photo, driverVars>>

(* save_Picture.  What is in the buffers is from before, from now on. *)
Older(age) == IF age = "new" THEN "old" ELSE age

(* Mutant: while(-- count) for while(count --). *)
save_Picture_preDecrement ==
  /\ camPc = "idle"
  /\ camPc' = "dq"
  /\ count' = Turns - 1
  /\ begun' = Older(begun)
  /\ image' = [b \in Buffers |-> [half \in 1 .. 2 |-> Older(image[b][half])]]
  /\ photo' = Empty
  /\ UNCHANGED <<fd, cameraState, index, queued, done>>

save_Picture ==
  /\ camPc = "idle"
  /\ camPc' = "dq"
  /\ count' = Turns
  /\ begun' = Older(begun)
  /\ image' = [b \in Buffers |-> [half \in 1 .. 2 |-> Older(image[b][half])]]
  /\ photo' = Empty
  /\ UNCHANGED <<fd, cameraState, index, queued, done>>

(* VIDIOC_DQBUF waits for a filled buffer of a streaming device; it may    *)
(* fail, and does on one that is not streaming.                            *)
dequeue ==
  /\ camPc = "dq"
  /\ fd = "on" /\ done # <<>>
  /\ index' = Head(done)
  /\ done' = Tail(done)
  /\ camPc' = "q"
  /\ UNCHANGED <<fd, cameraState, count, queued, begun, image, photo>>

dequeueFails ==
  /\ camPc = "dq"
  /\ camPc' = "idle"
  /\ UNCHANGED <<fd, cameraState, count, index, photo, driverVars>>

(* VIDIOC_QBUF.  When it fails the driver never sees the buffer again. *)
enqueue ==
  /\ camPc = "q"
  /\ queued' = Append(queued, index)
  /\ count' = count - 1
  /\ camPc' = IF count' > 0 THEN "dq" ELSE "read1"
  /\ UNCHANGED <<fd, cameraState, index, done, begun, image, photo>>

enqueueFails ==
  /\ camPc = "q"
  /\ camPc' = "idle"
  /\ UNCHANGED <<fd, cameraState, count, index, photo, driverVars>>

(* saveJpeg_CallBack writes the buffer to a file. *)
readHalf(from, to, half) ==
  /\ camPc = from
  /\ photo' = [photo EXCEPT ![half] = image[index][half]]
  /\ camPc' = to
  /\ UNCHANGED <<fd, cameraState, count, index, driverVars>>

(* The driver begins a frame in the first of its buffers, fills in one     *)
(* half and the other, and hands the buffer out.                           *)
fill ==
  /\ fd = "on" /\ queued # <<>>
  /\ LET b == Head(queued) IN
       \/ /\ begun = "none"
          /\ begun' = "new"
          /\ image' = [image EXCEPT ![b][1] = "new"]
          /\ UNCHANGED <<queued, done>>
       \/ /\ begun # "none"
          /\ begun' = "none"
          /\ image' = [image EXCEPT ![b][2] = begun]
          /\ queued' = Tail(queued)
          /\ done' = Append(done, b)
  /\ UNCHANGED <<fd, cameraState, camPc, count, index, photo>>

CamNext ==
  \/ openDevice \/ requestBuffers \/ queueAll \/ Start_Cameral
  \/ save_Picture \/ dequeue \/ dequeueFails \/ enqueue \/ enqueueFails
  \/ readHalf("read1", "read2", 1) \/ readHalf("read2", "idle", 2)
  \/ fill

CamSpec == CamInit /\ [][CamNext]_camVars
-----------------------------------------------------------------------------
(* The picture of a slide is of that slide: whatever the callback reads    *)
(* was begun after save_Picture was called.  The driver keeps a frame from *)
(* the last call in its buffer, half filled in or complete, and the call   *)
(* throws away no more than one frame.                                     *)
PhotoIsFresh == camPc \in {"read2", "idle"} => \A half \in 1 .. 2 : photo[half] # "old"
=============================================================================
