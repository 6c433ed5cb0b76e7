------------------------------- MODULE SysCtrl ------------------------------
(***************************************************************************)
(* The task of sys_ctrl.c: heat the slide, photograph it, upload the       *)
(* photograph, show the report.  execTaskStateMachine is a timer callback; *)
(* one call is several steps here, cut where it makes a slow call or where *)
(* it reads something and acts on it later, because execTask and ExitTask  *)
(* run in the key thread and do not wait for it: with one task on the list *)
(* timerThr.c runs the callback after it has released its mutex.           *)
(***************************************************************************)
EXTENDS Naturals, SysState

CONSTANTS
  HeatTicks,    \* 50 in the code: seconds of heating
  FlashTick,    \* 10 in the code: remaining seconds at which the flash goes on
  RetryTicks    \* 30 in the code: seconds the network is given to come back

ASSUME TickAssumption ==
  /\ HeatTicks \in Nat \ {0}
  /\ FlashTick \in 1 .. HeatTicks
  /\ RetryTicks \in Nat \ {0}

VARIABLES
  state,       \* the static of that name: which case the next callback takes
  heatCount,   \* static of execTaskStateMachine
  retryCount,  \* static of execTaskStateMachine
  registered,  \* the task is on the timer's list
  cpc,         \* where the running callback is; "none" between callbacks
  heater,      \* GPIO_HEAT_EN
  flash,       \* GPIO_FLASH_LIGTHT_EN
  isValid      \* gSYS_cfg_para.report.isValid

ctrlVars ==
  <<state, heatCount, retryCount, registered, cpc, heater, flash, isValid>>

CpcS == {"none", "found", "heat", "ready", "count", "stopheat", "link", "check", "retry",
         "shoot", "upload", "report", "done", "beep"}

CtrlTypeOK ==
  /\ state \in 0 .. 6
  /\ heatCount \in 0 .. HeatTicks
  /\ retryCount \in 0 .. RetryTicks
  /\ registered \in BOOLEAN
  /\ cpc \in CpcS
  /\ heater \in BOOLEAN
  /\ flash \in BOOLEAN
  /\ isValid \in BOOLEAN

ctrlInit ==
  /\ state = 0
  /\ heatCount = HeatTicks
  /\ retryCount = 0
  /\ registered = FALSE
  /\ cpc = "none"
  /\ heater = FALSE
  /\ flash = FALSE
  /\ isValid = FALSE

(* The case a callback enters, by the value of state it reads. *)
CaseOf == [s \in 0 .. 5 |->
             CASE s = 0 -> "heat" [] s = 1 -> "count" [] s = 2 -> "check"
               [] s = 3 -> "retry" [] s = 4 -> "shoot" [] s = 5 -> "report"]

(* The timer finds the task on its list, and it is due.  From here on the  *)
(* node is in its hand, whether the task stays on the list or not.         *)
tick ==
  /\ cpc = "none"
  /\ registered
  /\ cpc' = "found"
  /\ UNCHANGED <<state, heatCount, retryCount, registered, heater, flash,
                 isValid, sysVars>>

(* The callback begins: switch(state).  Case 6 does nothing. *)
enterCase ==
  /\ cpc = "found"
  /\ cpc' = IF state = 6 THEN "none" ELSE CaseOf[state]
  /\ UNCHANGED <<state, heatCount, retryCount, registered, heater, flash,
                 isValid, sysVars>>

(* case 0 *)
startHeat ==
  /\ cpc = "heat"
  /\ heater' = TRUE
  /\ cpc' = "ready"
  /\ UNCHANGED <<state, heatCount, retryCount, registered, flash, isValid, sysVars>>

(* Mutant: the last report is still valid. *)
startCount_keepsValid ==
  /\ cpc = "ready"
  /\ heatCount' = HeatTicks
  /\ state' = 1
  /\ cpc' = "none"
  /\ UNCHANGED <<retryCount, registered, heater, flash, isValid, sysVars>>

startCount ==
  /\ cpc = "ready"
  /\ heatCount' = HeatTicks
  /\ isValid' = FALSE
  /\ state' = 1
  /\ cpc' = "none"
  /\ UNCHANGED <<retryCount, registered, heater, flash, sysVars>>

(* case 1: one second less; at FlashTick the flash, at 0 the next phase. *)
countDown ==
  /\ cpc = "count"
  /\ heatCount' = heatCount - 1
  /\ flash' = IF heatCount' = FlashTick THEN TRUE ELSE flash
  /\ cpc' = IF heatCount' = 0 THEN "stopheat" ELSE "none"
  /\ UNCHANGED <<state, retryCount, registered, heater, isValid, sysVars>>

(* Mutant: the next phase without switching the heater off. *)
stopHeat_keepsHeating ==
  /\ cpc = "stopheat"
  /\ cpc' = "link"
  /\ UNCHANGED <<state, heatCount, retryCount, registered, heater, flash, isValid,
                 sysVars>>

stopHeat ==
  /\ cpc = "stopheat"
  /\ heater' = FALSE
  /\ cpc' = "link"
  /\ UNCHANGED <<state, heatCount, retryCount, registered, flash, isValid, sysVars>>

chkLink ==
  /\ cpc = "link"
  /\ \/ serverState /\ state' = 2 /\ UNCHANGED retryCount
     \/ ~serverState /\ state' = 3 /\ retryCount' = RetryTicks
  /\ cpc' = "none"
  /\ UNCHANGED <<heatCount, registered, heater, flash, isValid, sysVars>>

(* case 2: state is written after execCheck has loaded and drawn a bitmap. *)
execCheck ==
  /\ cpc = "check"
  /\ state' = 4
  /\ cpc' = "none"
  /\ UNCHANGED <<heatCount, retryCount, registered, heater, flash, isValid, sysVars>>

(* Mutant: a retry that is not counted. *)
retryLink_uncounted ==
  /\ cpc = "retry"
  /\ state' = IF serverState THEN 2 ELSE state
  /\ cpc' = "none"
  /\ UNCHANGED <<heatCount, retryCount, registered, heater, flash, isValid, sysVars>>

(* case 3 *)
retryLink ==
  /\ cpc = "retry"
  /\ \/ serverState /\ state' = 2 /\ UNCHANGED retryCount
     \/ /\ ~serverState
        /\ retryCount' = retryCount - 1
        /\ state' = IF retryCount' = 0 THEN 5 ELSE state
  /\ cpc' = "none"
  /\ UNCHANGED <<heatCount, registered, heater, flash, isValid, sysVars>>

(* case 4: state is written before the picture is taken and uploaded. *)
shoot ==
  /\ cpc = "shoot"
  /\ state' = 5
  /\ cpc' = "upload"
  /\ UNCHANGED <<heatCount, retryCount, registered, heater, flash, isValid, sysVars>>

(* saveJpeg: the reply to the upload sets isValid, and only when its code  *)
(* is 0; no picture, no file, no reply or another code leave it alone.     *)
saveJpeg ==
  /\ cpc = "upload"
  /\ isValid' \in {isValid, TRUE}
  /\ cpc' = "none"
  /\ UNCHANGED <<state, heatCount, retryCount, registered, heater, flash, sysVars>>

(* case 5: a valid report switches the flash off; an invalid one does not. *)
report ==
  /\ cpc = "report"
  /\ flash' = IF isValid THEN FALSE ELSE flash
  /\ cpc' = "done"
  /\ UNCHANGED <<state, heatCount, retryCount, registered, heater, isValid, sysVars>>

reportDone ==
  /\ cpc = "done"
  /\ state' = 6
  /\ cpc' = "beep"
  /\ UNCHANGED <<heatCount, retryCount, registered, heater, flash, isValid, sysVars>>

beep ==
  /\ cpc = "beep"
  /\ cpc' = "none"
  /\ UNCHANGED <<state, heatCount, retryCount, registered, heater, flash, isValid, sysVars>>

execTaskStateMachine ==
  tick \/ enterCase \/ startHeat \/ startCount \/ countDown \/ stopHeat \/ chkLink
    \/ execCheck \/ retryLink \/ shoot \/ saveJpeg \/ report \/ reportDone \/ beep
=============================================================================
