------------------------------ MODULE SysState ------------------------------
(***************************************************************************)
(* The global status word of the application: gSysState of                 *)
(* framework/system/sysCfg.c, the one structure the threads of ipnc_app    *)
(* use to tell each other what the device is doing.  setSysState and       *)
(* getSysState read or write one field under stateMutex, so one call is    *)
(* one step; nothing keeps two calls together.                             *)
(***************************************************************************)
VARIABLES
  runState,     \* gSysState.runState
  serverState   \* gSysState.serverState

sysVars == <<runState, serverState>>

(* The values ipnc_app stores in runState (ERR is the zero memset leaves). *)
RunStates == {"ERR", "IDLE", "EXE_TASK", "WARNING", "AIRKISS"}

SysTypeOK ==
  /\ runState \in RunStates
  /\ serverState \in BOOLEAN

(* initSysState: the whole structure is cleared. *)
initSysState ==
  /\ runState = "ERR"
  /\ serverState = FALSE

setRunState(s) == runState' = s
setServerState(b) == serverState' = b
=============================================================================
