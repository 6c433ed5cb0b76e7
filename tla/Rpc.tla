--------------------------------- MODULE Rpc ---------------------------------
(***************************************************************************)
(* What a message that waits for its acknowledgement promises the thread   *)
(* that sends it: the call returns when everyone it was sent to has        *)
(* answered, each of them once, and it succeeds if all of them did.        *)
(***************************************************************************)
CONSTANT Threads

VARIABLES
  calling,  \* whether each thread is in a call
  asked,    \* whom it still expects an answer of
  failed,   \* whether one of the answers was a failure
  result    \* what its last call returned, None before and during it

vars == <<calling, asked, failed, result>>

None == "none"

Init ==
  /\ calling = [t \in Threads |-> FALSE]
  /\ asked = [t \in Threads |-> {}]
  /\ failed = [t \in Threads |-> FALSE]
  /\ result = [t \in Threads |-> None]

Call(t, them) ==
  /\ ~calling[t]
  /\ calling' = [calling EXCEPT ![t] = TRUE]
  /\ asked' = [asked EXCEPT ![t] = them]
  /\ result' = [result EXCEPT ![t] = None]
  /\ UNCHANGED failed

Answer(d, t, status) ==
  /\ d \in asked[t]
  /\ asked' = [asked EXCEPT ![t] = @ \ {d}]
  /\ failed' = [failed EXCEPT ![t] = @ \/ status = "EFAIL"]
  /\ UNCHANGED <<calling, result>>

Return(t) ==
  /\ calling[t]
  /\ asked[t] = {}
  /\ calling' = [calling EXCEPT ![t] = FALSE]
  /\ result' = [result EXCEPT ![t] = IF failed[t] THEN "EFAIL" ELSE "SOK"]
  /\ failed' = [failed EXCEPT ![t] = FALSE]
  /\ UNCHANGED asked

Next ==
  \E t \in Threads :
    \/ \E them \in (SUBSET Threads) \ {{}} : Call(t, them)
    \/ \E d \in Threads, status \in {"SOK", "EFAIL"} : Answer(d, t, status)
    \/ Return(t)

Spec == Init /\ [][Next]_vars
=============================================================================
