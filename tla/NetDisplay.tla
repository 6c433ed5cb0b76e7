----------------------------- MODULE NetDisplay -----------------------------
(***************************************************************************)
(* The network thread together with the display thread of UIDispalyThr.c,  *)
(* which copies the global status every half second and, when it differs   *)
(* from the copy of the last time, draws the icons of the wifi and of the  *)
(* server (showSysNet of sys_ctrl.c).  The wifi icon is drawn from the     *)
(* copy, the server icon from a second read.  The run state changes as     *)
(* Modes says it does, which KeyChkThr implements.                         *)
(***************************************************************************)
EXTENDS NetLinkChkThr, Integers

CONSTANTS
  Busy,        \* the modes other than IDLE
  MaxPublish   \* server states published between two copies

ASSUME BusyAssumption == Busy \subseteq RunStates \ {"ERR", "IDLE"}
ASSUME MaxPublishAssumption == MaxPublish \in Nat \ {0}

VARIABLES
  upc,         \* where the display thread is
  sysState,    \* its local of that name, the copy of the global status
  lastSysState,  \* its static of that name
  wifiIcon,    \* index of the wifi icon on the screen
  serverIcon,  \* index of the server icon on the screen
  published    \* history: server states published since the last copy

uiVars == <<upc, sysState, lastSysState, wifiIcon, serverIcon, published>>
vars == <<sysVars, netVars, uiVars>>

Blank == -1   \* nothing drawn yet

(* The part of sys_state_st that changes after start-up. *)
Copies == [run : RunStates, wifi : {0} \cup Levels, server : BOOLEAN]

Icon(b) == IF b THEN 1 ELSE 0

TypeOK ==
  /\ SysTypeOK
  /\ NetTypeOK
  /\ upc \in {"sleep", "wifi", "server", "remember"}
  /\ sysState \in Copies
  /\ lastSysState \in Copies
  /\ wifiIcon \in {Blank, 0 - Disconnect} \cup 0 .. Strengths
  /\ serverIcon \in {Blank, 0, 1}
  /\ published \in 0 .. MaxPublish

Init ==
  /\ initSysState
  /\ netInit
  /\ upc = "sleep"
  /\ lastSysState = [run |-> "ERR", wifi |-> 0, server |-> FALSE]
  /\ sysState = lastSysState
  /\ wifiIcon = Blank
  /\ serverIcon = Blank
  /\ published = 0
-----------------------------------------------------------------------------
(* getSysState(Sys_State_All) and the comparison with the last copy. *)
getSysStateAll ==
  /\ upc = "sleep"
  /\ sysState' = [run |-> runState, wifi |-> wifiLink, server |-> serverState]
  /\ upc' = IF sysState' = lastSysState THEN "sleep" ELSE "wifi"
  /\ published' = 0
  /\ UNCHANGED <<lastSysState, wifiIcon, serverIcon, sysVars, netVars>>

(* showSysNet: in airkiss mode icon 0 and nothing else, otherwise the icon *)
(* of the level copied ...                                                 *)
drawWifi ==
  /\ upc = "wifi"
  /\ \/ /\ sysState.run = "AIRKISS"
        /\ wifiIcon' = 0
        /\ upc' = "remember"
     \/ /\ sysState.run # "AIRKISS"
        /\ wifiIcon' = sysState.wifi - Disconnect
        /\ upc' = "server"
  /\ UNCHANGED <<sysState, lastSysState, serverIcon, published, sysVars, netVars>>

(* ... and the server state as it is by now. *)
drawServer ==
  /\ upc = "server"
  /\ serverIcon' = Icon(serverState)
  /\ upc' = "remember"
  /\ UNCHANGED <<sysState, lastSysState, wifiIcon, published, sysVars, netVars>>

(* Mutant: remembering the status as it is by now instead of the copy. *)
remember_current ==
  /\ upc = "remember"
  /\ lastSysState' = [run |-> runState, wifi |-> wifiLink, server |-> serverState]
  /\ upc' = "sleep"
  /\ UNCHANGED <<sysState, wifiIcon, serverIcon, published, sysVars, netVars>>

remember ==
  /\ upc = "remember"
  /\ lastSysState' = sysState
  /\ upc' = "sleep"
  /\ UNCHANGED <<sysState, wifiIcon, serverIcon, published, sysVars, netVars>>

uiDisplayProc == getSysStateAll \/ drawWifi \/ drawServer \/ remember

(* A round of the network thread takes more than a second, one of the      *)
(* display thread half a second: MaxPublish bounds what it can miss.       *)
netStep ==
  /\ \/ chkRssi /\ UNCHANGED published
     \/ isLive /\ UNCHANGED published
     \/ publishServer /\ published < MaxPublish /\ published' = published + 1
  /\ UNCHANGED <<upc, sysState, lastSysState, wifiIcon, serverIcon>>

M == INSTANCE Modes WITH mode <- runState

modeStep == M!Next /\ UNCHANGED <<serverState, netVars, uiVars>>

Next == netStep \/ uiDisplayProc \/ modeStep

Spec == Init /\ [][Next]_vars

(* Both threads loop for ever and each of their calls comes back (a ping   *)
(* gives up by itself).                                                    *)
FairSpec == Spec /\ WF_vars(netStep) /\ WF_vars(uiDisplayProc)
-----------------------------------------------------------------------------
(* The server is given up only after three silent pings of one round, with *)
(* a wifi link throughout: neither one lost answer nor a round without     *)
(* signal takes away the server a task may be about to upload to.          *)
LostAfterThreePings ==
  [][serverState /\ ~serverState' => misses = 3 /\ wifiLink > Disconnect]_vars

(* When the level, the server and the mode stay what they are, the screen  *)
(* comes to show them, although a state can change and change back between *)
(* two copies, or between the copy and the second read.                    *)
IconsFollow ==
  \A l \in Levels, b \in BOOLEAN :
    <>[](wifiLink = l /\ serverState = b /\ runState # "AIRKISS")
      => <>[](wifiIcon = l - Disconnect /\ serverIcon = Icon(b))

(* sys_ctrl.c:332 says of a server state read as True that the network     *)
(* link is ok: without any wifi link it must not stay True.                *)
ServerLinkMeansNetwork ==
  <>[](wifiLink = Disconnect) => <>[](~serverState)
=============================================================================
