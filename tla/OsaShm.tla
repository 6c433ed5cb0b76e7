------------------------------- MODULE OsaShm -------------------------------
(***************************************************************************)
(* The byte fifo in shared memory of framework/osa/src/osa_shm.c.  The     *)
(* process that creates the block fills in its header without the          *)
(* semaphore; reads and writes are done under it.  The semaphore is taken  *)
(* with SEM_UNDO: when a process dies inside a call the kernel releases    *)
(* it, and the header stays as the process has left it.  The fifo does not *)
(* wrap: it is full at the end of the block, and a read that asks for more *)
(* than lies before that end returns something and empties it.             *)
(*                                                                         *)
(* A semop may fail, a waiting one when a signal arrives (main.c installs  *)
(* handlers that return), and no caller looks: a read or write that failed *)
(* to take the semaphore goes on without it, and gives it back all the     *)
(* same, so that from then on two processes may be inside.  The model goes *)
(* on with them, but its steps are those of sections that exclude one      *)
(* another, and what is claimed of the fifo ends with the first such call. *)
(*                                                                         *)
(* A byte is known by its place among all that were ever written.  Nobody  *)
(* deletes the block here, or writes to it with OSA_shmWrite.              *)
(***************************************************************************)
EXTENDS Integers, Sequences

CONSTANTS
  Procs,      \* the processes
  Capacity,   \* the size OSA_shmCreate is called with
  Lens,       \* the lengths of reads and writes
  MaxBytes,   \* bound on the bytes written
  MaxFails    \* bound on the calls of semop that fail

ASSUME ShmAssumption ==
  /\ Procs \cap {0, -1} = {}
  /\ Capacity \in Nat \ {0} /\ Lens \subseteq Nat /\ MaxBytes \in Nat
  /\ MaxFails \in Nat

VARIABLES
  fifo,      \* the header: struct fifo
  mem,       \* the bytes behind it, 0 where nothing was written
  sem,       \* the System V semaphore, -1 before it exists
  undo,      \* what the kernel adds to it when a process dies
  creator,   \* who created the block: 0 before that, -1 when it has died since
  complete,  \* its header was filled in
  shmPc,     \* where each process is
  size,      \* its wSize or rSize, 0 outside a call
  written,   \* history: bytes written so far
  unread,    \* history: those among them a reader has still to get
  early,     \* history: a call came before the header was complete
  cutShort,  \* history: a process died in a read that had moved curRd
  fails,     \* history: calls of semop that failed
  unguarded  \* history: a read or write went on without the semaphore

shmVars == <<fifo, mem, sem, undo, creator, complete, shmPc, size, written, unread,
             early, cutShort, fails, unguarded>>

Fields == <<"capacity", "isEmpty", "isFull", "use", "curRd", "curWr">>

InSem == {"write1", "write2", "write3", "read1", "read2", "read3"}

ShmTypeOK ==
  /\ fifo \in [{Fields[k] : k \in 1 .. 6} -> Int]
  /\ mem \in [0 .. Capacity - 1 -> 0 .. written]
  /\ sem \in Nat \cup {-1}
  /\ undo \in [Procs -> Int]
  /\ creator \in Procs \cup {0, -1}
  /\ complete \in BOOLEAN
  /\ shmPc \in [Procs -> {"start", "semget", "setval", "ready", "dead"} \cup InSem
                           \cup {Fields[k] : k \in 1 .. 6}]
  /\ size \in [Procs -> Nat]
  /\ written \in Nat
  /\ unread \in Seq(1 .. written)
  /\ early \in BOOLEAN /\ cutShort \in BOOLEAN
  /\ fails \in 0 .. MaxFails
  /\ unguarded \in BOOLEAN

ShmInit ==
  /\ fifo = [f \in {Fields[k] : k \in 1 .. 6} |-> 0]
  /\ mem = [i \in 0 .. Capacity - 1 |-> 0]
  /\ sem = -1
  /\ undo = [p \in Procs |-> 0]
  /\ creator = 0
  /\ complete = FALSE
  /\ shmPc = [p \in Procs |-> "start"]
  /\ size = [p \in Procs |-> 0]
  /\ written = 0
  /\ unread = <<>>
  /\ early = FALSE
  /\ cutShort = FALSE
  /\ fails = 0
  /\ unguarded = FALSE
-----------------------------------------------------------------------------
pastVars == <<written, unread, early, cutShort, unguarded>>
semopVars == <<sem, undo, fails>>

goes(p, place) == shmPc' = [shmPc EXCEPT ![p] = place]

(* OSA_shmCreate: shmget, by one process with IPC_EXCL, ... *)
getBlock(p) ==
  /\ shmPc[p] = "start"
  /\ creator' = IF creator = 0 THEN p ELSE creator
  /\ goes(p, "semget")
  /\ UNCHANGED <<fifo, mem, semopVars, complete, size, pastVars>>

(* (a process that finds it there, be it the restarted creator's, leaves   *)
(* its header alone)                                                       *)
Attached(p) == IF creator = p THEN Fields[1] ELSE "ready"

(* ... semget, by one process with IPC_EXCL, ... *)
getSem(p) ==
  /\ shmPc[p] = "semget"
  /\ sem' = IF sem = -1 THEN 0 ELSE sem
  /\ goes(p, IF sem = -1 THEN "setval" ELSE Attached(p))
  /\ UNCHANGED <<fifo, mem, undo, creator, complete, size, fails, pastVars>>

(* ... which then gives it its value (the kernel forgets what was to be    *)
(* undone), ...                                                            *)
setVal(p) ==
  /\ shmPc[p] = "setval"
  /\ sem' = 1
  /\ undo' = [q \in Procs |-> 0]
  /\ goes(p, Attached(p))
  /\ UNCHANGED <<fifo, mem, creator, complete, size, fails, pastVars>>

(* ... and the header, field by field. *)
setField(p, k) ==
  /\ shmPc[p] = Fields[k]
  /\ fifo' = [fifo EXCEPT ![Fields[k]] =
                CASE Fields[k] = "capacity" -> Capacity
                  [] Fields[k] = "isEmpty" -> 1
                  [] OTHER -> 0]
  /\ complete' = (k = 6)
  /\ goes(p, IF k = 6 THEN "ready" ELSE Fields[k + 1])
  /\ UNCHANGED <<mem, semopVars, creator, size, pastVars>>

Least(a, b) == IF a < b THEN a ELSE b

(* semaphore_p and semaphore_v: one is taken from the semaphore and one is *)
(* given back, or none where the semop fails.                              *)
semop(p, taken, given) ==
  /\ taken <= sem
  /\ sem' = sem - taken + given
  /\ undo' = [undo EXCEPT ![p] = @ + taken - given]

failed(n) == fails + n <= MaxFails /\ fails' = fails + n

(* A process dies: the kernel undoes its semops, down to 0. *)
gone(p) ==
  /\ sem' = IF undo[p] = 0 THEN sem ELSE IF sem + undo[p] < 0 THEN 0 ELSE sem + undo[p]
  /\ undo' = [undo EXCEPT ![p] = 0]
  /\ creator' = IF creator = p THEN -1 ELSE creator
  /\ size' = [size EXCEPT ![p] = 0]
  /\ goes(p, "dead")

(* A call takes the semaphore, or fails to, and returns at once, dies of a *)
(* copy with a negative size, or goes on to copy n bytes.                  *)
enters(p, refused, n, place) ==
  /\ shmPc[p] = "ready"
  /\ early' = (early \/ ~complete)
  /\ \E taken \in 0 .. 1 :
       /\ unguarded' = (unguarded \/ taken = 0)
       /\ \/ /\ refused
             /\ \E given \in 0 .. 1 : semop(p, taken, given) /\ failed(2 - taken - given)
             /\ UNCHANGED <<creator, size, shmPc>>
          \/ /\ ~refused /\ n >= 0
             /\ semop(p, taken, 0) /\ failed(1 - taken)
             /\ size' = [size EXCEPT ![p] = n]
             /\ goes(p, place)
             /\ UNCHANGED creator
          \/ /\ ~refused /\ n < 0
             /\ taken <= sem /\ failed(1 - taken)
             /\ gone(p)
  /\ UNCHANGED <<mem, complete, written, unread, cutShort>>

(* And it gives it back. *)
leaves(p) ==
  /\ \E given \in 0 .. 1 : semop(p, 0, given) /\ failed(1 - given)
  /\ size' = [size EXCEPT ![p] = 0]
  /\ goes(p, "ready")

(* OSA_fifoWrite: isFull is set when the bytes do not fit, ... *)
fifoWrite(p, len) ==
  LET beyond == fifo.capacity < fifo.curWr + len
      room   == fifo.capacity - fifo.curWr
      wSize  == IF beyond THEN room ELSE Least(len, fifo.capacity)
  IN  /\ written + len <= MaxBytes
      /\ enters(p, fifo.isFull = 1, wSize, "write1")
      /\ fifo' = IF fifo.isFull = 0 /\ beyond THEN [fifo EXCEPT !.isFull = 1] ELSE fifo

(* ... they are copied and curWr is moved, ... *)
writeCopy(p) ==
  /\ shmPc[p] = "write1"
  /\ mem' = [i \in DOMAIN mem |->
               IF i \in fifo.curWr .. fifo.curWr + size[p] - 1
                 THEN written + 1 + i - fifo.curWr ELSE mem[i]]
  /\ fifo' = [fifo EXCEPT !.curWr = @ + size[p]]
  /\ unread' = unread \o [i \in 1 .. size[p] |-> written + i]
  /\ written' = written + size[p]
  /\ goes(p, "write2")
  /\ UNCHANGED <<semopVars, creator, complete, size, early, cutShort, unguarded>>

(* ... use is, ... *)
writeUse(p) ==
  /\ shmPc[p] = "write2"
  /\ fifo' = [fifo EXCEPT !.use = @ + size[p]]
  /\ goes(p, "write3")
  /\ UNCHANGED <<mem, semopVars, creator, complete, size, pastVars>>

(* ... and isEmpty is cleared. *)
writeEnd(p) ==
  /\ shmPc[p] = "write3"
  /\ fifo' = [fifo EXCEPT !.isEmpty = 0]
  /\ leaves(p)
  /\ UNCHANGED <<mem, creator, complete, pastVars>>

(* OSA_fifoRead: past the end of the block it takes what room is left to   *)
(* write for what there is to read, and sets isEmpty; ...                  *)
fifoRead(p, len) ==
  LET beyond == fifo.capacity < fifo.curRd + len
      rSize  == IF beyond THEN fifo.capacity - fifo.curWr ELSE Least(len, fifo.use)
  IN  /\ enters(p, fifo.isEmpty = 1, rSize, "read1")
      /\ fifo' = IF fifo.isEmpty = 0 /\ beyond THEN [fifo EXCEPT !.isEmpty = 1] ELSE fifo

(* Mutant: curRd moved by the length asked for. *)
readCopy_movesByLen(p) ==
  /\ shmPc[p] = "read1"
  /\ \E len \in Lens :
       /\ len >= size[p]
       /\ fifo' = [fifo EXCEPT !.curRd = @ + len]
  /\ unread' = IF fifo.isEmpty = 1 THEN unread
               ELSE SubSeq(unread, size[p] + 1, Len(unread))
  /\ goes(p, "read2")
  /\ UNCHANGED <<mem, semopVars, creator, complete, size, written, early, cutShort,
                 unguarded>>

(* ... the bytes are copied and curRd is moved, ... *)
readCopy(p) ==
  /\ shmPc[p] = "read1"
  /\ fifo' = [fifo EXCEPT !.curRd = @ + size[p]]
  /\ unread' = IF fifo.isEmpty = 1 THEN unread
               ELSE SubSeq(unread, size[p] + 1, Len(unread))
  /\ goes(p, "read2")
  /\ UNCHANGED <<mem, semopVars, creator, complete, size, written, early, cutShort,
                 unguarded>>

(* ... use is, ... *)
readUse(p) ==
  /\ shmPc[p] = "read2"
  /\ fifo' = [fifo EXCEPT !.use = @ - size[p]]
  /\ goes(p, "read3")
  /\ UNCHANGED <<mem, semopVars, creator, complete, size, pastVars>>

(* ... and a fifo that isEmpty starts again at the beginning. *)
readEnd(p) ==
  /\ shmPc[p] = "read3"
  /\ \/ /\ fifo.isEmpty = 1
        /\ fifo' = [fifo EXCEPT !.curRd = 0, !.curWr = 0, !.use = 0, !.isFull = 0]
        /\ unread' = <<>>
     \/ /\ fifo.isEmpty = 0
        /\ fifo' = [fifo EXCEPT !.isFull = 0]
        /\ UNCHANGED unread
  /\ leaves(p)
  /\ UNCHANGED <<mem, creator, complete, written, early, cutShort, unguarded>>

die(p) ==
  /\ shmPc[p] \notin {"start", "dead"}
  /\ gone(p)
  /\ cutShort' = (cutShort \/ shmPc[p] \in {"read2", "read3"})
  /\ UNCHANGED <<fifo, mem, complete, written, unread, early, fails, unguarded>>

(* It is started again. *)
restart(p) ==
  /\ shmPc[p] = "dead"
  /\ goes(p, "start")
  /\ UNCHANGED <<fifo, mem, semopVars, creator, complete, size, pastVars>>

shmStep(p) ==
  \/ getBlock(p) \/ getSem(p) \/ setVal(p) \/ \E k \in 1 .. 6 : setField(p, k)
  \/ \E len \in Lens : fifoWrite(p, len) \/ fifoRead(p, len)
  \/ writeCopy(p) \/ writeUse(p) \/ writeEnd(p)
  \/ readCopy(p) \/ readUse(p) \/ readEnd(p)
  \/ die(p) \/ restart(p)

ShmNext == \E p \in Procs : shmStep(p)

ShmSpec == ShmInit /\ [][ShmNext]_shmVars
-----------------------------------------------------------------------------
(* Whenever the semaphore can be taken, the fifo holds from curRd to curWr *)
(* the bytes that were written and not yet read, in their order, and use   *)
(* counts no more than these, so that a read short of the end returns the  *)
(* oldest of them and nothing else; also after the death of a process in a *)
(* write, or in a read that had not moved curRd, and after a semaphore_v   *)
(* that failed.  It takes a call that went on without the semaphore, a     *)
(* call before the header is complete, or the death of a reader that had   *)
(* moved curRd, to break this.                                             *)
ShmHoldsUnread ==
  sem > 0 /\ ~early /\ ~cutShort /\ ~unguarded =>
    /\ fifo.curWr = fifo.curRd + Len(unread)
    /\ \A i \in 1 .. Len(unread) : mem[fifo.curRd + i - 1] = unread[i]
    /\ fifo.use <= Len(unread)

(* And a copy that is about to be made stays within the Capacity bytes     *)
(* behind the header: one into the fifo even while the creator is filling  *)
(* in the header, and after every death.  (The block is created with size  *)
(* bytes, without the header's, osa_shm.c:63; the page it is rounded up to *)
(* holds both.)                                                            *)
ShmCopiesInside ==
  ~unguarded =>
    \A p \in Procs :
      /\ shmPc[p] = "write1" => fifo.curWr >= 0 /\ fifo.curWr + size[p] <= Capacity
      /\ shmPc[p] = "read1" /\ ~early /\ ~cutShort =>
           fifo.curRd >= 0 /\ fifo.curRd + size[p] <= Capacity
=============================================================================
