----------------------------- MODULE HttpUpload -----------------------------
(***************************************************************************)
(* The report of a task.  saveJpeg of sys_ctrl.c is one step of SysCtrl    *)
(* with any outcome; here it is the loop of sendPostFile (httpThread.c)    *)
(* around libcurl, and req_reply, which stores the numbers of a reply one  *)
(* by one in gSYS_cfg_para.report, where the next case of the callback     *)
(* takes them from.  The key thread may end the task and start another     *)
(* meanwhile: the loop has no time-out, and nothing breaks it off.         *)
(*                                                                         *)
(* A number is remembered by the task whose photograph it is about.  What  *)
(* the server sends, and in how many pieces libcurl hands it on, is free.  *)
(***************************************************************************)
EXTENDS SysCtrl

CONSTANT MaxTasks   \* bound on the tasks started

ASSUME MaxTasksAssumption == MaxTasks \in Nat

VARIABLES
  keyAt,        \* where the key thread is: "idle", in execTask, or "run"
  taskNo,       \* number of the task it started last
  photoNo,      \* the task the photograph being uploaded was taken in
  hpc,          \* where sendPostFile is
  stillRunning, \* its still_running
  answered,     \* libcurl has handed on something of the reply
  reply,        \* the numbers the last good reply carried
  numbers,      \* report.percent and report.result: whose they are
  mixedUp       \* history: execTask stored 0 under a callback that was yet to store

uploadVars ==
  <<keyAt, taskNo, photoNo, hpc, stillRunning, answered, reply, numbers, mixedUp>>
taskVars == <<ctrlVars, sysVars, uploadVars>>

Fields == {"percent", "result"}

UploadTypeOK ==
  /\ CtrlTypeOK /\ SysTypeOK
  /\ keyAt \in {"idle", "exec", "run"}
  /\ taskNo \in 0 .. MaxTasks
  /\ photoNo \in 0 .. taskNo
  /\ hpc \in {"none", "first", "perform", "percent", "result", "valid", "fdset", "select",
              "dead"}
  /\ hpc # "none" => cpc = "upload"
  /\ stillRunning \in BOOLEAN /\ answered \in BOOLEAN /\ mixedUp \in BOOLEAN
  /\ reply \subseteq Fields
  /\ numbers \in [Fields -> 0 .. taskNo]

UploadInit ==
  /\ initSysState
  /\ ctrlInit
  /\ keyAt = "idle"
  /\ taskNo = 0
  /\ photoNo = 0
  /\ hpc = "none"
  /\ stillRunning = FALSE
  /\ answered = FALSE
  /\ reply = {}
  /\ numbers = [f \in Fields |-> 0]
  /\ mixedUp = FALSE
-----------------------------------------------------------------------------
(* execTask: state = 0, whatever the callback of the last task is doing,   *)
(* and the registration, which may fail.                                   *)
keyStart ==
  /\ keyAt = "idle" /\ hpc # "dead"
  /\ taskNo < MaxTasks
  /\ keyAt' = "exec"
  /\ taskNo' = taskNo + 1
  /\ state' = 0
  /\ mixedUp' = (cpc \notin {"none", "found", "upload", "beep"})
  /\ UNCHANGED <<heatCount, retryCount, registered, cpc, heater, flash, isValid, sysVars,
                 photoNo, hpc, stillRunning, answered, reply, numbers>>

keyRegister ==
  /\ keyAt = "exec" /\ hpc # "dead"
  /\ \/ keyAt' = "run" /\ registered' = TRUE /\ setRunState("EXE_TASK")
     \/ keyAt' = "idle" /\ UNCHANGED <<registered, runState>>
  /\ UNCHANGED <<state, heatCount, retryCount, cpc, heater, flash, isValid, serverState,
                 taskNo, photoNo, hpc, stillRunning, answered, reply, numbers, mixedUp>>

(* ExitTask. *)
keyExit ==
  /\ keyAt = "run" /\ hpc # "dead"
  /\ keyAt' = "idle"
  /\ flash' = FALSE
  /\ registered' = FALSE
  /\ setRunState("IDLE")
  /\ UNCHANGED <<state, heatCount, retryCount, cpc, heater, isValid, serverState, taskNo,
                 photoNo, hpc, stillRunning, answered, reply, numbers, mixedUp>>

(* The network thread. *)
publish ==
  /\ hpc # "dead"
  /\ setServerState(~serverState)
  /\ UNCHANGED <<runState, ctrlVars, uploadVars>>
-----------------------------------------------------------------------------
(* The cases of the callback but saveJpeg, and the photograph's number. *)
callback ==
  \/ /\ \/ tick \/ enterCase \/ startHeat \/ startCount \/ countDown \/ stopHeat
        \/ chkLink \/ execCheck \/ retryLink \/ report \/ reportDone \/ beep
     /\ UNCHANGED uploadVars
  \/ /\ shoot
     /\ photoNo' = taskNo
     /\ UNCHANGED <<keyAt, taskNo, hpc, stillRunning, answered, reply, numbers, mixedUp>>

(* A step of saveJpeg moves to another place of it; "none" is its end. *)
goes(from, to) ==
  /\ cpc = "upload"
  /\ hpc = from
  /\ hpc' = to
  /\ cpc' = IF to = "none" THEN "none" ELSE cpc
  /\ UNCHANGED <<state, heatCount, retryCount, registered, heater, flash, sysVars, keyAt,
                 taskNo, photoNo, mixedUp>>

kept == UNCHANGED <<isValid, reply, numbers>>
curlKept == UNCHANGED <<stillRunning, answered>>

(* No picture, or no file of this name, or no handle of libcurl. *)
notSent == goes("none", "none") /\ cpc' # cpc /\ kept /\ curlKept

(* The request is made, and the first curl_multi_perform called, ... *)
sendPostFile ==
  /\ goes("none", "first")
  /\ stillRunning' = TRUE
  /\ answered' = FALSE
  /\ kept

(* ... after which the loop begins, even with nothing running. *)
firstPerform ==
  /\ goes("first", "fdset")
  /\ stillRunning' \in BOOLEAN
  /\ UNCHANGED answered
  /\ kept

(* curl_multi_fdset, whose failure breaks the loop; ... *)
fdset == \E to \in {"select", "none"} : goes("fdset", to) /\ kept /\ curlKept

(* ... select: an error goes to the end of the loop, the rest to ... *)
select ==
  /\ \/ goes("select", "perform")
     \/ goes("select", IF stillRunning THEN "fdset" ELSE "none")
  /\ kept /\ curlKept

(* ... curl_multi_perform. *)
perform ==
  /\ stillRunning' \in {stillRunning, FALSE}
  /\ goes("perform", IF stillRunning' THEN "fdset" ELSE "none")
  /\ UNCHANGED answered
  /\ kept

(* It may call req_reply: with something that is no JSON, a piece that     *)
(* does not begin one, another code than 0, or no data; ...                *)
otherReply ==
  /\ stillRunning
  /\ goes("perform", "perform")
  /\ answered' = TRUE
  /\ UNCHANGED stillRunning
  /\ kept

(* ... with JSON that has no code, or with an error that has no msg: the   *)
(* null pointer ends the process; ...                                      *)
badReply ==
  /\ stillRunning
  /\ goes("perform", "dead")
  /\ kept /\ curlKept

(* ... or, as the first piece, with a whole reply of code 0, which may     *)
(* lack a number.                                                          *)
goodReply ==
  /\ stillRunning /\ ~answered
  /\ goes("perform", "percent")
  /\ answered' = TRUE
  /\ reply' \in SUBSET Fields
  /\ UNCHANGED <<stillRunning, isValid, numbers>>

store(field, to) ==
  /\ goes(field, to)
  /\ numbers' = IF field \in reply THEN [numbers EXCEPT ![field] = photoNo] ELSE numbers
  /\ UNCHANGED <<isValid, reply>>
  /\ curlKept

storeValid ==
  /\ goes("valid", "perform")
  /\ isValid' = TRUE
  /\ UNCHANGED <<reply, numbers>>
  /\ curlKept

req_reply ==
  \/ otherReply \/ badReply \/ goodReply
  \/ store("percent", "result") \/ store("result", "valid") \/ storeValid

(* The device is switched off and on; the numbers come from the file. *)
restart ==
  /\ hpc = "dead"
  /\ runState' = "ERR" /\ serverState' = FALSE
  /\ state' = 0 /\ heatCount' = HeatTicks /\ retryCount' = 0
  /\ registered' = FALSE /\ cpc' = "none" /\ heater' = FALSE /\ flash' = FALSE
  /\ isValid' = FALSE
  /\ keyAt' = "idle" /\ hpc' = "none" /\ photoNo' = 0
  /\ stillRunning' = FALSE /\ answered' = FALSE /\ reply' = {} /\ mixedUp' = FALSE
  /\ numbers' = [f \in Fields |-> 0]
  /\ UNCHANGED taskNo

TaskNext ==
  \/ keyStart \/ keyRegister \/ keyExit \/ publish
  \/ callback
  \/ notSent \/ sendPostFile \/ firstPerform \/ fdset \/ select \/ perform \/ req_reply
  \/ restart

TaskSpec == UploadInit /\ [][TaskNext]_taskVars
-----------------------------------------------------------------------------
(* The report on the screen is the report of the task: a valid one shows   *)
(* the numbers the reply to this task's photograph carried, and one marked *)
(* "Check Error." stands for a task no number has come for, however long   *)
(* the upload of an earlier task, ended with the key, went on under this   *)
(* one.  There are two ways to break it, execTask under a callback that    *)
(* stores its own next state afterwards, and a reply that lacks a number,  *)
(* which then keeps its old value.                                         *)
ReportIsOwn ==
  cpc = "report" /\ ~mixedUp =>
    \A f \in Fields :
      IF isValid THEN f \in reply => numbers[f] = taskNo ELSE numbers[f] # taskNo
-----------------------------------------------------------------------------
(* Why it holds.  The countdowns are above zero where they are counted     *)
(* down; before the first task nothing happens; and a callback that has    *)
(* not been mixed up is at a place of the case of its state, with the      *)
(* report as far as the upload has come.                                   *)
Places == [s \in 0 .. 6 |->
             CASE s = 0 -> {"heat", "ready", "upload", "beep"}
               [] s = 1 -> {"count", "stopheat", "link"}
               [] s = 2 -> {"check"}
               [] s = 3 -> {"retry"}
               [] s = 4 -> {"shoot"}
               [] s = 5 -> {"upload", "report", "done"}
               [] s = 6 -> {"beep"}]

CountsInv ==
  /\ cpc = "count" \/ (state = 1 /\ cpc \notin {"stopheat", "link"}) => heatCount > 0
  /\ cpc = "retry" \/ state = 3 => retryCount > 0

Untold == isValid = FALSE /\ \A f \in Fields : numbers[f] # taskNo

(* The report while and after the photograph of this task is uploaded. *)
ToldInv ==
  /\ cpc = "upload" /\ (hpc \in {"none", "first", "percent"} \/ ~answered) => Untold
  /\ hpc = "result" => /\ isValid = FALSE
                       /\ "percent" \in reply => numbers["percent"] = taskNo
  /\ hpc = "valid" => \A f \in reply : numbers[f] = taskNo
  /\ hpc \notin {"percent", "result", "valid"} =>
       IF isValid THEN \A f \in reply : numbers[f] = taskNo ELSE Untold

OwnInv ==
  /\ cpc \in Places[state] \cup {"none", "found"}
  /\ photoNo = taskNo => state \in {5, 6}
  /\ state = 5 /\ cpc = "upload" => photoNo = taskNo
  /\ photoNo # taskNo => /\ \A f \in Fields : numbers[f] # taskNo
                         /\ state \in 1 .. 5 => isValid = FALSE
  /\ photoNo = taskNo /\ state = 5 => ToldInv

UploadInv ==
  /\ UploadTypeOK
  /\ CountsInv
  /\ hpc \in {"percent", "result", "valid"} => answered = TRUE
  /\ taskNo = 0 => cpc = "none" /\ registered = FALSE /\ keyAt = "idle"
  /\ mixedUp = FALSE /\ taskNo > 0 => OwnInv
=============================================================================
