----------------------------- MODULE AirkissThr -----------------------------
(***************************************************************************)
(* airkissThr: the thread that puts the radio in monitor mode, listens for *)
(* the SSID and password a phone broadcasts, joins that network, and hands *)
(* the device back to IDLE.  It is asked to stop through the flag isExit.  *)
(* The airkiss library and the wifi driver are outside the repository:     *)
(* what a call to them returns is chosen freely.                           *)
(***************************************************************************)
EXTENDS Naturals, SysState

CONSTANT ConnectTries   \* 30 in the code: seconds given to each wait

ASSUME ConnectTriesAssumption == ConnectTries \in Nat \ {0}

VARIABLES
  apc,        \* where the thread is; "none" when no thread runs
  isExit,     \* the stop flag, a global written by two threads
  isGetSSID,  \* its local of that name
  timeout,    \* its local of that name
  monitor     \* whether the radio is in monitor mode ("elian monitor_on")

airkissVars == <<apc, isExit, isGetSSID, timeout, monitor>>

ApcS == {"none", "init", "monitor", "arm", "recv", "stop", "assoc", "getip", "idle"}

AirkissTypeOK ==
  /\ apc \in ApcS
  /\ isExit \in BOOLEAN
  /\ isGetSSID \in BOOLEAN
  /\ timeout \in 0 .. ConnectTries
  /\ monitor \in BOOLEAN

airkissInit ==
  /\ apc = "none"
  /\ isExit = FALSE
  /\ isGetSSID = FALSE
  /\ timeout = 0
  /\ monitor = FALSE

(* pthread_create of airKissThrCreat. *)
airKissThrCreat ==
  /\ apc' = "init"
  /\ isGetSSID' = FALSE
  /\ UNCHANGED <<isExit, timeout, monitor>>

(* airkiss_init and socket: when one fails the thread just returns. *)
akStart ==
  /\ apc = "init"
  /\ \/ apc' = "none" /\ UNCHANGED monitor
     \/ apc' = "monitor" /\ monitor' = TRUE
  /\ UNCHANGED <<isExit, isGetSSID, timeout, sysVars>>

(* Mutant: the early return that forgets "elian monitor_off". *)
akMonitor_keepsRadio ==
  /\ apc = "monitor"
  /\ apc' \in {"arm", "none"}
  /\ UNCHANGED <<isExit, isGetSSID, timeout, monitor, sysVars>>

(* The "mangos" ioctl: when it fails monitor mode is left and the thread   *)
(* returns without touching runState.                                      *)
akMonitor ==
  /\ apc = "monitor"
  /\ \/ apc' = "arm" /\ UNCHANGED monitor
     \/ apc' = "none" /\ monitor' = FALSE
  /\ UNCHANGED <<isExit, isGetSSID, timeout, sysVars>>

(* isExit = 0 just before the loop. *)
akArm ==
  /\ apc = "arm"
  /\ isExit' = FALSE
  /\ apc' = "recv"
  /\ UNCHANGED <<isGetSSID, timeout, monitor, sysVars>>

(* One turn of while(!isExit): no packet or an unfinished exchange leaves  *)
(* things as they are (the turn is then a stutter); a complete one ends    *)
(* the loop, with the SSID unless airkiss_get_result fails.                *)
akRecv ==
  /\ apc = "recv"
  /\ ~isExit
  /\ isGetSSID' \in BOOLEAN
  /\ apc' = "stop"
  /\ UNCHANGED <<isExit, timeout, monitor, sysVars>>

(* Mutant: an exit that is obeyed only once an SSID is known. *)
akSeeExit_onlyWithSSID ==
  /\ apc = "recv"
  /\ isExit /\ isGetSSID
  /\ apc' = "stop"
  /\ UNCHANGED <<isExit, isGetSSID, timeout, monitor, sysVars>>

akSeeExit ==
  /\ apc = "recv"
  /\ isExit
  /\ apc' = "stop"
  /\ UNCHANGED <<isExit, isGetSSID, timeout, monitor, sysVars>>

(* monitor_off and the "mangop" ioctl: when that fails the thread returns, *)
(* again without touching runState.                                        *)
akStop ==
  /\ apc = "stop"
  /\ monitor' = FALSE
  /\ \/ /\ apc' = "none"
        /\ UNCHANGED timeout
     \/ /\ isGetSSID
        /\ apc' = "assoc"
        /\ timeout' = ConnectTries
     \/ /\ ~isGetSSID
        /\ apc' = "idle"
        /\ UNCHANGED timeout
  /\ UNCHANGED <<isExit, isGetSSID, sysVars>>

(* One second of waiting for the access point.  Failing to associate goes  *)
(* on to wait for an address all the same.                                 *)
akAssoc ==
  /\ apc = "assoc"
  /\ \/ timeout' = ConnectTries /\ apc' = "getip"    \* check_assoc
     \/ IF timeout = 1
          THEN timeout' = ConnectTries /\ apc' = "getip"
          ELSE timeout' = timeout - 1 /\ UNCHANGED apc
  /\ UNCHANGED <<isExit, isGetSSID, monitor, sysVars>>

(* Mutant: timeout-- == 0 for --timeout == 0. *)
akGetIp_postDecrement ==
  /\ apc = "getip"
  /\ \/ apc' = "idle" /\ UNCHANGED timeout
     \/ /\ timeout' = timeout - 1
        /\ apc' = IF timeout = 0 THEN "idle" ELSE "getip"
  /\ UNCHANGED <<isExit, isGetSSID, monitor, sysVars>>

(* One second of waiting for net_get_ifaddr. *)
akGetIp ==
  /\ apc = "getip"
  /\ \/ apc' = "idle" /\ UNCHANGED timeout
     \/ /\ timeout' = timeout - 1
        /\ apc' = IF timeout' = 0 THEN "idle" ELSE "getip"
  /\ UNCHANGED <<isExit, isGetSSID, monitor, sysVars>>

(* setSysState(Sys_State_Run, MDVR_Sys_IDLE), then the thread ends. *)
akIdle ==
  /\ apc = "idle"
  /\ setRunState("IDLE")
  /\ apc' = "none"
  /\ UNCHANGED <<isExit, isGetSSID, timeout, monitor, serverState>>

airkissThr ==
  akStart \/ akMonitor \/ akArm \/ akRecv \/ akSeeExit \/ akStop
    \/ akAssoc \/ akGetIp \/ akIdle

(* Every call but the reception of a complete exchange comes back in the   *)
(* end; the exchange depends on a phone that may never send one.           *)
airkissProgress ==
  akStart \/ akMonitor \/ akArm \/ akSeeExit \/ akStop \/ akAssoc \/ akGetIp \/ akIdle
=============================================================================
