------------------------------- MODULE OsaBuf -------------------------------
(***************************************************************************)
(* The buffer exchange of framework/osa/src/osa_buf.c: buffers go round    *)
(* from the empty queue through producers to the full queue and through    *)
(* consumers back.  Its two queues are those of OsaQue, taken as the       *)
(* bounded queues OsaQueProofs shows them to be: one call is one step, and *)
(* a call that waits is a step that is not enabled.  The callers are those *)
(* the interface is made for: each puts back only a buffer it was given.   *)
(***************************************************************************)
EXTENDS Integers, Sequences, SequencesExt

CONSTANTS
  Producers, Consumers,
  Switching,   \* those of them that use the Switch calls, with OSA_TIMEOUT_NONE
  NumBuf       \* hndl->numBuf

ASSUME BufAssumption ==
  /\ Producers \cap Consumers = {}
  /\ Switching \subseteq Producers \cup Consumers
  /\ NumBuf \in Nat \ {0}

VARIABLES
  que,       \* emptyQue and fullQue of the handle
  bufId,     \* the caller's *bufId
  newBufId,  \* the local of the Switch calls
  bpc        \* where the caller is

vars == <<que, bufId, newBufId, bpc>>

Clients == Producers \cup Consumers
Bufs    == 0 .. NumBuf - 1
Invalid == -1   \* OSA_BUF_ID_INVALID

TypeOK ==
  /\ que \in [{"empty", "full"} -> BoundedSeq(Bufs, NumBuf)]
  /\ bufId \in [Clients -> Bufs \cup {Invalid}]
  /\ newBufId \in [Clients -> Bufs \cup {Invalid}]
  /\ bpc \in [Clients -> {"idle", "put"}]

(* OSA_bufCreate puts every buffer in the empty queue, in order. *)
Init ==
  /\ que = [empty |-> [i \in 1 .. NumBuf |-> i - 1], full |-> <<>>]
  /\ bufId = [c \in Clients |-> Invalid]
  /\ newBufId = [c \in Clients |-> Invalid]
  /\ bpc = [c \in Clients |-> "idle"]
-----------------------------------------------------------------------------
Source(c) == IF c \in Producers THEN "empty" ELSE "full"
Target(c) == IF c \in Producers THEN "full" ELSE "empty"

(* Mutant: the head read and left in the queue, as quePeek would. *)
get_peeks(c) ==
  /\ bpc[c] = "idle"
  /\ bufId[c] = Invalid
  /\ que[Source(c)] # <<>>
  /\ bufId' = [bufId EXCEPT ![c] = Head(que[Source(c)])]
  /\ UNCHANGED <<que, newBufId, bpc>>

(* OSA_bufGetEmpty and OSA_bufGetFull.  With OSA_TIMEOUT_NONE a call on an *)
(* empty queue fails and leaves OSA_BUF_ID_INVALID, which a caller without *)
(* a buffer already has.                                                   *)
get(c) ==
  /\ bpc[c] = "idle"
  /\ bufId[c] = Invalid
  /\ que[Source(c)] # <<>>
  /\ bufId' = [bufId EXCEPT ![c] = Head(que[Source(c)])]
  /\ que' = [que EXCEPT ![Source(c)] = Tail(@)]
  /\ UNCHANGED <<newBufId, bpc>>

(* OSA_bufPutFull and OSA_bufPutEmpty, which wait for ever for room. *)
put(c) ==
  /\ bpc[c] = "idle"
  /\ bufId[c] # Invalid
  /\ Len(que[Target(c)]) < NumBuf
  /\ que' = [que EXCEPT ![Target(c)] = Append(@, bufId[c])]
  /\ bufId' = [bufId EXCEPT ![c] = Invalid]
  /\ UNCHANGED <<newBufId, bpc>>

(* OSA_bufSwitchFull and OSA_bufSwitchEmpty: get without waiting (failing, *)
(* they keep *bufId) ...                                                   *)
switchGet(c) ==
  /\ bpc[c] = "idle"
  /\ que[Source(c)] # <<>>
  /\ newBufId' = [newBufId EXCEPT ![c] = Head(que[Source(c)])]
  /\ que' = [que EXCEPT ![Source(c)] = Tail(@)]
  /\ bpc' = [bpc EXCEPT ![c] = "put"]
  /\ UNCHANGED bufId

(* Mutants: no test of the old buffer; the old buffer not put. *)
switchPut_untested(c) ==
  /\ bpc[c] = "put"
  /\ que' = [que EXCEPT ![Target(c)] = Append(@, bufId[c])]
  /\ bufId' = [bufId EXCEPT ![c] = newBufId[c]]
  /\ newBufId' = [newBufId EXCEPT ![c] = Invalid]
  /\ bpc' = [bpc EXCEPT ![c] = "idle"]

switchPut_dropsOld(c) ==
  /\ bpc[c] = "put"
  /\ bufId' = [bufId EXCEPT ![c] = newBufId[c]]
  /\ newBufId' = [newBufId EXCEPT ![c] = Invalid]
  /\ bpc' = [bpc EXCEPT ![c] = "idle"]
  /\ UNCHANGED que

(* ... then put the old buffer, if there is one, and keep the new one. *)
switchPut(c) ==
  /\ bpc[c] = "put"
  /\ \/ /\ bufId[c] # Invalid
        /\ Len(que[Target(c)]) < NumBuf
        /\ que' = [que EXCEPT ![Target(c)] = Append(@, bufId[c])]
     \/ /\ bufId[c] = Invalid
        /\ UNCHANGED que
  /\ bufId' = [bufId EXCEPT ![c] = newBufId[c]]
  /\ newBufId' = [newBufId EXCEPT ![c] = Invalid]
  /\ bpc' = [bpc EXCEPT ![c] = "idle"]

(* A caller that does not switch gets and puts in turn. *)
step(c) ==
  \/ c \in Switching /\ (switchGet(c) \/ switchPut(c))
  \/ c \notin Switching /\ (get(c) \/ put(c))

Next == \E c \in Clients : step(c)

Spec == Init /\ [][Next]_vars

(* Every caller keeps calling. *)
FairSpec == Spec /\ \A c \in Clients : WF_vars(step(c))
-----------------------------------------------------------------------------
HeldBy(c) == {bufId[c], newBufId[c]} \ {Invalid}

(* Where a buffer is: in a queue, or in a caller's hands. *)
Queued(b) ==
  {qi \in {"empty", "full"} \X (1 .. NumBuf) :
     qi[2] <= Len(que[qi[1]]) /\ que[qi[1]][qi[2]] = b}

InHands(b) ==
  {cf \in Clients \X {"bufId", "newBufId"} :
     b = IF cf[2] = "bufId" THEN bufId[cf[1]] ELSE newBufId[cf[1]]}

(* A buffer is in one place at a time: once in one of the queues, or with  *)
(* one caller, so that nobody reads what another is writing and no buffer  *)
(* is lost, also between the two halves of a Switch call.                  *)
EachBufferOnce ==
  \A b \in Bufs : Cardinality(Queued(b)) + Cardinality(InHands(b)) = 1

(* A caller that has a buffer to put never waits for room, although the    *)
(* put calls would wait for ever.                                          *)
PutNeverWaits ==
  \A c \in Clients : HeldBy(c) # {} => Len(que[Target(c)]) < NumBuf

(* Every buffer comes round to a consumer again and again, although a      *)
(* caller that switches keeps its old buffer until there is a new one: as  *)
(* long as there are more buffers than callers and one producer switches.  *)
BuffersCirculate ==
  \A b \in Bufs : []<>(\E c \in Consumers : bufId[c] = b)
=============================================================================
