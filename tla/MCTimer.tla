------------------------------ MODULE MCTimer ------------------------------
(***************************************************************************)
(* What the run TimerThr checks: the two halves of timerThr.c, the times   *)
(* at which tasks are called (TimerThr) and the list they are on           *)
(* (TimerList); and of the one task there is, how its callback comes by a  *)
(* report (HttpUpload) and the file it saves it in (RecordIni).  The four  *)
(* models share no variable, so each is run by itself while the others     *)
(* stay in an initial state: `part' says which.                            *)
(***************************************************************************)
EXTENDS TimerThr, TimerList, HttpUpload, RecordIni

VARIABLE part

mcVars == <<vars, listVars, taskVars, recVars, part>>

MCInit ==
  /\ part \in {"times", "list", "task", "record"}
  /\ Init /\ ListInit /\ UploadInit /\ RecInit
  /\ part = "record" \/ lines = (CHOOSE file \in FirstFiles : TRUE)

MCNext ==
  /\ UNCHANGED part
  /\ \/ part = "times" /\ Next /\ UNCHANGED <<listVars, taskVars, recVars>>
     \/ part = "list" /\ ListNext /\ UNCHANGED <<vars, taskVars, recVars>>
     \/ part = "task" /\ TaskNext /\ UNCHANGED <<vars, listVars, recVars>>
     \/ part = "record" /\ RecNext /\ UNCHANGED <<vars, listVars, taskVars>>

MCSpec == MCInit /\ [][MCNext]_mcVars

(* Every variable of the four modules keeps the values its comment names:  *)
(* times never negative, pointers into the heap, lines no longer than the  *)
(* buffers of sysCfg.c.                                                    *)
TypesOK == TypeOK /\ ListTypeOK /\ UploadTypeOK /\ RecTypeOK
=============================================================================
