----------------------------- MODULE KeyChkThr ------------------------------
(***************************************************************************)
(* The application while it runs: the key thread of keyChkThr.c, which     *)
(* starts and stops everything else, with the airkiss thread and the timer *)
(* thread that runs the task's callback.  The network thread publishes any *)
(* server state at any time here; NetLinkChkThr says which and when.       *)
(* The operations of sys_ctrl.c the key thread calls (execTask, ExitTask,  *)
(* enterAirkissConfigNet, exitAirkissConfigNet) are sequences of its steps,*)
(* cut at every access to a variable another thread uses.                  *)
(***************************************************************************)
EXTENDS AirkissThr, SysCtrl

VARIABLES
  kpc,      \* where the key thread is
  heated,   \* history: a callback has begun the countdown since execTask
  overlap,  \* history: execTask found a callback of an earlier task running
  late      \* history: a callback ran into the last ExitTask, or on after it

keyVars == <<kpc, heated, overlap, late>>

vars == <<sysVars, airkissVars, ctrlVars, keyVars>>

KpcS == {"boot", "poll", "power", "exec1", "exec2", "exec3",
         "exit1", "exit2", "exit3", "wait", "record", "warn",
         "enter", "create", "leave", "join", "idle", "off"}

TypeOK ==
  /\ SysTypeOK
  /\ AirkissTypeOK
  /\ CtrlTypeOK
  /\ kpc \in KpcS
  /\ heated \in BOOLEAN
  /\ overlap \in BOOLEAN
  /\ late \in BOOLEAN

Init ==
  /\ initSysState
  /\ airkissInit
  /\ ctrlInit
  /\ kpc = "boot"
  /\ heated = FALSE
  /\ overlap = FALSE
  /\ late = FALSE
-----------------------------------------------------------------------------
(* A step of the key thread from one place to another. *)
goto(from, to) == kpc = from /\ kpc' = to

keyOnly == UNCHANGED <<airkissVars, ctrlVars, heated, overlap, late>>

(* A step that only stores a run state. *)
keySetRun(from, s, to) ==
  /\ goto(from, to)
  /\ setRunState(s)
  /\ UNCHANGED serverState
  /\ keyOnly

boot == keySetRun("boot", "IDLE", "poll")

(* The power key let go after a short press: what it means depends on the  *)
(* run state.  Other states ignore it.                                     *)
powerShort ==
  /\ \/ runState = "IDLE" /\ goto("poll", "power")
     \/ runState = "EXE_TASK" /\ goto("poll", "exit1")
  /\ UNCHANGED sysVars
  /\ keyOnly

(* The server is linked and the slide is in place: execTask. *)
powerExec ==
  /\ serverState
  /\ goto("power", "exec1")
  /\ UNCHANGED sysVars
  /\ keyOnly

(* The server is not linked, or the light sensor says there is no slide:   *)
(* two seconds of warning.                                                 *)
powerWarn == keySetRun("power", "WARNING", "warn")

warnEnd == keySetRun("warn", "IDLE", "poll")

(* Mutant: execTask without state = 0. *)
execReset_keepsState ==
  /\ goto("exec1", "exec2")
  /\ heated' = FALSE
  /\ overlap' = (cpc # "none")
  /\ UNCHANGED <<ctrlVars, sysVars, airkissVars, late>>

(* execTask: state = 0, ... *)
execReset ==
  /\ goto("exec1", "exec2")
  /\ state' = 0
  /\ heated' = FALSE
  /\ overlap' = (cpc # "none")
  /\ UNCHANGED <<heatCount, retryCount, registered, cpc, heater, flash, isValid,
                 sysVars, airkissVars, late>>

(* ... RegisterProc, which fails when malloc does, ... *)
execRegister ==
  /\ \/ goto("exec2", "exec3") /\ registered' = TRUE
     \/ goto("exec2", "poll") /\ UNCHANGED registered
  /\ UNCHANGED <<state, heatCount, retryCount, cpc, heater, flash, isValid,
                 sysVars, airkissVars, heated, overlap, late>>

(* ... and the run state. *)
execMode == keySetRun("exec3", "EXE_TASK", "poll")

(* Mutant: ExitTask that leaves the flash to the task. *)
exitFlash_keepsFlash ==
  /\ goto("exit1", "exit2")
  /\ late' = (cpc # "none")
  /\ UNCHANGED <<ctrlVars, sysVars, airkissVars, heated, overlap>>

(* ExitTask: the flash off (the heater is left as it is), ... *)
exitFlash ==
  /\ goto("exit1", "exit2")
  /\ flash' = FALSE
  /\ late' = (cpc # "none")
  /\ UNCHANGED <<state, heatCount, retryCount, registered, cpc, heater, isValid,
                 sysVars, airkissVars, heated, overlap>>

(* Mutant: ExitTask that leaves the task on the timer's list. *)
exitUnregister_keepsTask ==
  /\ goto("exit2", "exit3")
  /\ UNCHANGED <<ctrlVars, sysVars, airkissVars, heated, overlap, late>>

(* ... UnRegisterProc, which does not wait for a running callback, ... *)
exitUnregister ==
  /\ goto("exit2", "exit3")
  /\ registered' = FALSE
  /\ UNCHANGED <<state, heatCount, retryCount, cpc, heater, flash, isValid,
                 sysVars, airkissVars, heated, overlap, late>>

(* ... the run state; then the key thread sleeps and shows the record. *)
exitMode == keySetRun("exit3", "IDLE", "wait")

exitWait == goto("wait", "record") /\ UNCHANGED sysVars /\ keyOnly

showRecord == goto("record", "poll") /\ UNCHANGED sysVars /\ keyOnly

(* Mutant: a warning whatever the run state is. *)
wpsShort_unguarded ==
  \/ /\ runState = "AIRKISS"
     /\ goto("poll", "leave")
     /\ UNCHANGED sysVars
     /\ keyOnly
  \/ keySetRun("poll", "WARNING", "warn")

(* The WPS key let go after a short press. *)
wpsShort ==
  \/ /\ runState = "AIRKISS"
     /\ goto("poll", "leave")
     /\ UNCHANGED sysVars
     /\ keyOnly
  \/ /\ runState = "IDLE"
     /\ keySetRun("poll", "WARNING", "warn")

(* The WPS key let go after a long press; enterAirkissConfigNet looks at   *)
(* the run state again before it stores AIRKISS.                           *)
wpsLong ==
  /\ runState = "IDLE"
  /\ goto("poll", "enter")
  /\ UNCHANGED sysVars
  /\ keyOnly

enterAirkiss ==
  /\ kpc = "enter"
  /\ kpc' = IF runState = "IDLE" THEN "create" ELSE "poll"
  /\ runState' = IF runState = "IDLE" THEN "AIRKISS" ELSE runState
  /\ UNCHANGED serverState
  /\ keyOnly

createAirkiss ==
  /\ goto("create", "poll")
  /\ airKissThrCreat
  /\ UNCHANGED <<sysVars, ctrlVars, heated, overlap, late>>

(* exitAirkissConfigNet: isExit = True, pthread_join, IDLE. *)
leaveAirkiss ==
  /\ goto("leave", "join")
  /\ isExit' = TRUE
  /\ UNCHANGED <<apc, isGetSSID, timeout, monitor, sysVars, ctrlVars,
                 heated, overlap, late>>

joinAirkiss ==
  /\ goto("join", "idle")
  /\ apc = "none"
  /\ UNCHANGED sysVars
  /\ keyOnly

airkissLeft == keySetRun("idle", "IDLE", "poll")

(* power_Off, after a long press of the power key: the supply goes. *)
power_Off == goto("poll", "off") /\ UNCHANGED sysVars /\ keyOnly

(* What the user does, ... *)
userKey == powerShort \/ wpsShort \/ wpsLong \/ power_Off

(* ... and what the thread then does by itself. *)
keyStep ==
  \/ boot \/ powerExec \/ powerWarn \/ warnEnd
  \/ execReset \/ execRegister \/ execMode
  \/ exitFlash \/ exitUnregister \/ exitMode \/ exitWait \/ showRecord
  \/ enterAirkiss \/ createAirkiss \/ leaveAirkiss \/ joinAirkiss \/ airkissLeft

(* The supply is there; power_Off ends everything. *)
on == kpc # "off"

(* The callback, with what history records of it. *)
callbackStep ==
  /\ on
  /\ execTaskStateMachine
  /\ heated' = IF cpc = "ready" THEN TRUE ELSE heated
  /\ late' = (late \/ kpc = "exit2")
  /\ UNCHANGED <<airkissVars, kpc, overlap>>

airkissStep == on /\ airkissThr /\ UNCHANGED <<ctrlVars, keyVars>>

(* setSysState(sys_net_server_link) of the network thread. *)
netStep ==
  /\ on
  /\ setServerState(~serverState)
  /\ UNCHANGED <<runState, airkissVars, ctrlVars, keyVars>>

Next == userKey \/ keyStep \/ callbackStep \/ airkissStep \/ netStep

Spec == Init /\ [][Next]_vars

(* Every thread keeps running: the calls they make return (the upload      *)
(* included), the timer ticks, sleeps end.  The user owes nothing, and     *)
(* neither does the phone an airkiss exchange waits for.                   *)
Fairness ==
  /\ WF_vars(keyStep)
  /\ WF_vars(callbackStep)
  /\ WF_vars(on /\ airkissProgress /\ UNCHANGED <<ctrlVars, keyVars>>)

FairSpec == Spec /\ Fairness
-----------------------------------------------------------------------------
(* An airkiss thread and a task never coexist, and each has the run state  *)
(* to itself: while airkiss runs (from pthread_create to the thread's last *)
(* store) the state is AIRKISS and no task is on the timer's list; while a *)
(* task is on the list, up to the moment ExitTask takes it off, the state  *)
(* is EXE_TASK (or execTask is about to store it).  Three threads write    *)
(* runState and none of the check-then-set sequences holds a lock.         *)
ModesExclusive ==
  /\ apc # "none" => runState = "AIRKISS" /\ ~registered
  /\ registered => runState = "EXE_TASK" \/ kpc = "exec3"
  /\ runState = "EXE_TASK" => registered \/ kpc = "exit3"

(* The radio is in monitor mode only while an airkiss thread is there to   *)
(* take it out again, whichever of its calls fail.                         *)
MonitorOwned == monitor => apc # "none"

(* The slide is never looked at, photographed or uploaded with the heater  *)
(* on, and only after a complete countdown, although execTask may rewrite  *)
(* state under a running callback (sys_ctrl.c:397 against 315-386).  The   *)
(* countdowns are tested for equality with 0 after they are decremented:   *)
(* no callback may find them at 0, or it would count on below it.          *)
PhotoAfterHeating ==
  /\ cpc \in {"check", "shoot", "upload"} => ~heater /\ heatCount = 0
  /\ cpc = "count" => heatCount > 0
  /\ cpc = "retry" => retryCount > 0

(* A task can skip the heating of its slide (and show the report of the    *)
(* task before) in one way only: execTask stored state = 0 while a         *)
(* callback of the earlier task was still running and stored over it.      *)
HeatSkippedOnlyByOverlap ==
  cpc \in {"check", "shoot", "upload", "report"} => heated \/ overlap

(* With no task on the list the flash is on only if a callback ran into    *)
(* ExitTask, which switches it off and only then takes the task away; and  *)
(* the heater is on only if the task was ended before its countdown was    *)
(* over: every phase after that has switched it off.                       *)
LeftOnOnlyByExit ==
  ~registered => /\ flash => late
                 /\ heater => state \in {0, 1}

(* A task left alone comes to its end: the report is shown.                *)
TaskEnds == registered ~> (state = 6 \/ ~registered \/ ~on)

(* An exit asked for while the airkiss thread receives or connects is      *)
(* obeyed: the key thread's join returns.                                  *)
ExitObeyed ==
  (kpc = "join" /\ isExit /\ apc \in {"recv", "stop", "assoc", "getip", "idle"})
     ~> kpc # "join"

(* The device keeps its promise about modes.                               *)
M == INSTANCE Modes WITH mode <- runState, Busy <- {"EXE_TASK", "WARNING", "AIRKISS"}
ModesSpec == M!Spec
-----------------------------------------------------------------------------
(* What makes ModesExclusive inductive: the run state each place of the    *)
(* key thread has made sure of, and the places it can be at while an       *)
(* airkiss thread runs.                                                    *)
RunInv ==
  /\ apc # "none" => runState = "AIRKISS" /\ kpc \in {"poll", "leave", "join", "off"}
  /\ runState = "ERR" <=> kpc = "boot"
  /\ runState = "WARNING" <=> kpc = "warn"
  /\ kpc \in {"power", "exec1", "exec2", "exec3", "wait", "record", "enter"}
       => runState = "IDLE"
  /\ kpc \in {"exit1", "exit2", "exit3"} => runState = "EXE_TASK"
  /\ kpc = "create" => runState = "AIRKISS"
  /\ kpc \in {"leave", "join", "idle"} => runState \in {"AIRKISS", "IDLE"}
  /\ registered <=> (runState = "EXE_TASK" /\ kpc # "exit3") \/ kpc = "exec3"
  /\ monitor => apc \in {"monitor", "arm", "recv", "stop"}
  /\ apc \in {"assoc", "getip"} => timeout > 0

(* The cases that come after the heating. *)
Cooled == {"check", "retry", "shoot", "upload", "report", "done", "beep"}

(* What makes PhotoAfterHeating inductive: in a running callback state is  *)
(* what its switch read, or the 0 execTask stored meanwhile; and both the  *)
(* stored state and the running case imply what was done before them.      *)
HeatInv ==
  /\ cpc \in {"heat", "ready"} => state = 0
  /\ cpc \in {"count", "stopheat", "link"} => state \in {0, 1}
  /\ cpc = "count" => heatCount > 0
  /\ cpc = "stopheat" => heatCount = 0
  /\ cpc \in Cooled \cup {"link"} => ~heater /\ heatCount = 0
  /\ state \in 2 .. 6 => ~heater /\ heatCount = 0
  /\ state = 1 /\ cpc \notin {"stopheat", "link"} => heatCount > 0
  /\ state = 3 \/ cpc = "retry" => retryCount > 0

(* What makes HeatSkippedOnlyByOverlap inductive. *)
SkipInv ==
  heated \/ overlap \/ (state = 0 /\ cpc \in {"none", "found", "heat", "ready"})

(* What makes LeftOnOnlyByExit inductive: from the moment ExitTask has     *)
(* switched the flash off, only a callback that is late can be running.    *)
LateInv ==
  (~registered \/ kpc = "exit2") /\ (flash \/ cpc # "none") => late

IInv == TypeOK /\ RunInv /\ HeatInv /\ SkipInv /\ LateInv
-----------------------------------------------------------------------------
(* README.md:5 says that in airkiss mode a short press leaves it. *)
ShortPressLeavesAirkiss == (kpc = "leave" /\ runState = "AIRKISS") ~> runState = "IDLE"
=============================================================================
