------------------------------ MODULE MCDevice ------------------------------
(***************************************************************************)
(* What the run NetDisplay checks: the threads behind what the user sees   *)
(* of the device, the icons (NetDisplay) and the LED (LedMng), and what    *)
(* the server sees, the photograph (Camera).  They share no variable, so   *)
(* each is run by itself while the others stay in an initial state: `part' *)
(* says which, and only its threads are fair.                              *)
(***************************************************************************)
EXTENDS NetDisplay, LedMng, Camera

VARIABLE part

mcVars == <<vars, ledVars, camVars, part>>

MCInit ==
  /\ part \in {"icons", "led", "camera"}
  /\ Init /\ LedInit /\ CamInit
  /\ part = "led" \/ light = "LOW"

MCNext ==
  /\ UNCHANGED part
  /\ \/ part = "icons" /\ Next /\ UNCHANGED <<ledVars, camVars>>
     \/ part = "led" /\ LedNext /\ UNCHANGED <<vars, camVars>>
     \/ part = "camera" /\ CamNext /\ UNCHANGED <<vars, ledVars>>

(* The LED thread loops for ever, and sleeps for a time.                   *)
MCFairSpec ==
  /\ MCInit /\ [][MCNext]_mcVars
  /\ WF_vars(part = "icons" /\ netStep)
  /\ WF_vars(part = "icons" /\ uiDisplayProc)
  /\ WF_ledVars(part = "led" /\ LedMngThr)

(* Every variable of the three modules keeps the values its comment names: *)
(* no more than three misses, a count of the LED that stops at -2.         *)
TypesOK == TypeOK /\ LedTypeOK /\ CamTypeOK
=============================================================================
