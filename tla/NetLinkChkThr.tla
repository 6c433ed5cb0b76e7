--------------------------- MODULE NetLinkChkThr ----------------------------
(***************************************************************************)
(* netLinkChkThr: once a second the thread reads the signal strength of    *)
(* the wifi, publishes its level, pings the server when there is a link    *)
(* and publishes whether the server answers.                               *)
(***************************************************************************)
EXTENDS Naturals, SysState

CONSTANT Strengths   \* 3 in the code: levels above WIRELESS_RSSI_DISCONMECT

ASSUME StrengthsAssumption == Strengths \in Nat \ {0}

VARIABLES
  wifiLink,          \* gSysState.wifiLink.linkState, 0 until the first round
  npc,               \* where the thread is
  serverConnetState, \* its local of that name, kept from one round to the next
  misses             \* pings of this round that got no answer

netVars == <<wifiLink, npc, serverConnetState, misses>>

(* WIRELESS_RSSI_DISCONMECT and the signal levels above it. *)
Disconnect == 100
Levels     == Disconnect .. Disconnect + Strengths

NetPcs == {"rssi", "ping", "publish"}

NetTypeOK ==
  /\ wifiLink \in {0} \cup Levels
  /\ npc \in NetPcs
  /\ serverConnetState \in BOOLEAN
  /\ misses \in 0 .. 3

netInit ==
  /\ wifiLink = 0
  /\ npc = "rssi"
  /\ serverConnetState = FALSE
  /\ misses = 0

(* Mutant: the tries of the last round still counted. *)
chkRssi_keepsMisses ==
  /\ npc = "rssi"
  /\ \E level \in Levels :
       /\ wifiLink' = level
       /\ npc' = IF level > Disconnect THEN "ping" ELSE "publish"
  /\ UNCHANGED <<runState, serverState, serverConnetState, misses>>

(* getWifiRSSI, the thresholds, and setSysState(sys_net_wireless_wifi). *)
chkRssi ==
  /\ npc = "rssi"
  /\ \E level \in Levels :
       /\ wifiLink' = level
       /\ npc' = IF level > Disconnect THEN "ping" ELSE "publish"
  /\ misses' = 0
  /\ UNCHANGED <<runState, serverState, serverConnetState>>

(* Mutant: two tries instead of three. *)
isLive_twoTries ==
  /\ npc = "ping"
  /\ \/ /\ serverConnetState' = TRUE
        /\ npc' = "publish"
        /\ UNCHANGED misses
     \/ /\ serverConnetState' = FALSE
        /\ misses' = misses + 1
        /\ npc' = IF misses' < 2 THEN "ping" ELSE "publish"
  /\ UNCHANGED <<wifiLink, sysVars>>

(* One isLive: an answer ends the tries, the third silence as well. *)
isLive ==
  /\ npc = "ping"
  /\ \/ /\ serverConnetState' = TRUE
        /\ npc' = "publish"
        /\ UNCHANGED misses
     \/ /\ serverConnetState' = FALSE
        /\ misses' = misses + 1
        /\ npc' = IF misses' < 3 THEN "ping" ELSE "publish"
  /\ UNCHANGED <<wifiLink, sysVars>>

(* setSysState(sys_net_server_link), then a second of sleep. *)
publishServer ==
  /\ npc = "publish"
  /\ setServerState(serverConnetState)
  /\ npc' = "rssi"
  /\ UNCHANGED <<runState, wifiLink, serverConnetState, misses>>

(* A round: the signal, at most three pings, the server state.  The local  *)
(* serverConnetState is not reset when there is no link to ping over.      *)
netLinkChkThr == chkRssi \/ isLive \/ publishServer
=============================================================================
