-------------------------- MODULE KeyChkThrProofs ---------------------------
(***************************************************************************)
(* The safety properties of KeyChkThr, for every number of ticks and tries.*)
(* Each part of the inductive invariant IInv is preserved by every step;   *)
(* a step of one thread only disturbs the parts that name its variables.   *)
(***************************************************************************)
EXTENDS KeyChkThr, TLAPS

(* Which case a callback enters, state by state. *)
LEMMA CaseOfState ==
  ASSUME NEW s \in 0 .. 5
  PROVE  /\ CaseOf[s] \in {"heat", "count", "check", "retry", "shoot", "report"}
         /\ CaseOf[s] = "heat"   <=> s = 0
         /\ CaseOf[s] = "count"  <=> s = 1
         /\ CaseOf[s] = "check"  <=> s = 2
         /\ CaseOf[s] = "retry"  <=> s = 3
         /\ CaseOf[s] = "shoot"  <=> s = 4
         /\ CaseOf[s] = "report" <=> s = 5
<1>1. s \in {0, 1, 2, 3, 4, 5}
  OBVIOUS
<1>2. QED
  BY <1>1 DEF CaseOf

(* TypeOK in two parts, because no prover does both: Zenon the flags, SMT  *)
(* the rest.                                                               *)
FlagsOK ==
  /\ serverState \in BOOLEAN
  /\ isExit \in BOOLEAN
  /\ isGetSSID \in BOOLEAN
  /\ monitor \in BOOLEAN
  /\ registered \in BOOLEAN
  /\ heater \in BOOLEAN
  /\ flash \in BOOLEAN
  /\ isValid \in BOOLEAN
  /\ heated \in BOOLEAN
  /\ overlap \in BOOLEAN
  /\ late \in BOOLEAN

PlacesOK ==
  /\ runState \in RunStates
  /\ apc \in ApcS
  /\ timeout \in 0 .. ConnectTries
  /\ state \in 0 .. 6
  /\ heatCount \in 0 .. HeatTicks
  /\ retryCount \in 0 .. RetryTicks
  /\ cpc \in CpcS
  /\ kpc \in KpcS

LEMMA TypeParts == TypeOK <=> FlagsOK /\ PlacesOK
BY DEF TypeOK, SysTypeOK, AirkissTypeOK, CtrlTypeOK, FlagsOK, PlacesOK

LEMMA TypePartsNext == TypeOK' <=> FlagsOK' /\ PlacesOK'
BY DEF TypeOK, SysTypeOK, AirkissTypeOK, CtrlTypeOK, FlagsOK, PlacesOK

(* The invariant holds when the application starts. *)
LEMMA InitIInv == Init => IInv
<1> USE DEF Init, initSysState, airkissInit, ctrlInit
<1>1. Init => FlagsOK
  BY Zenon DEF FlagsOK
<1>2. Init => PlacesOK
  BY TickAssumption, ConnectTriesAssumption DEF PlacesOK, RunStates, ApcS, CpcS, KpcS
<1>3. Init => RunInv
  BY DEF RunInv
<1>4. Init => HeatInv /\ SkipInv /\ LateInv
  BY TickAssumption DEF HeatInv, SkipInv, LateInv, Cooled
<1>5. QED
  BY <1>1, <1>2, <1>3, <1>4, TypeParts DEF IInv

(* A step of the key thread. *)
LEMMA KeyPreserves ==
  ASSUME IInv, userKey \/ keyStep
  PROVE  IInv'
<1> USE DEF goto, keyOnly, keySetRun, setRunState, airkissVars, ctrlVars, sysVars
<1>a. FlagsOK /\ PlacesOK /\ RunInv /\ HeatInv /\ SkipInv /\ LateInv
  BY TypeParts DEF IInv
<1>1. CASE userKey
  <2> USE DEF userKey, powerShort, wpsShort, wpsLong, power_Off
  <2>1. FlagsOK'
    BY <1>a, <1>1 DEF FlagsOK
  <2>2. PlacesOK'
    BY <1>a, <1>1 DEF PlacesOK, RunStates, ApcS, CpcS, KpcS
  <2>3. RunInv'
    BY <1>a, <1>1 DEF RunInv
  <2>4. HeatInv'
    BY <1>a, <1>1 DEF HeatInv, PlacesOK
  <2>5. SkipInv'
    BY <1>a, <1>1 DEF SkipInv
  <2>6. LateInv'
    BY <1>a, <1>1 DEF LateInv, RunInv
  <2>7. QED
    BY <2>1, <2>2, <2>3, <2>4, <2>5, <2>6, TypePartsNext DEF IInv
<1>2. CASE boot \/ powerExec \/ powerWarn \/ warnEnd \/ execMode
  <2> USE DEF boot, powerExec, powerWarn, warnEnd, execMode
  <2>1. FlagsOK'
    BY <1>a, <1>2 DEF FlagsOK
  <2>2. PlacesOK'
    BY <1>a, <1>2 DEF PlacesOK, RunStates, ApcS, CpcS, KpcS
  <2>3. RunInv'
    BY <1>a, <1>2 DEF RunInv
  <2>4. HeatInv'
    BY <1>a, <1>2 DEF HeatInv, PlacesOK
  <2>5. SkipInv'
    BY <1>a, <1>2 DEF SkipInv
  <2>6. LateInv'
    BY <1>a, <1>2 DEF LateInv, RunInv
  <2>7. QED
    BY <2>1, <2>2, <2>3, <2>4, <2>5, <2>6, TypePartsNext DEF IInv
<1>3. CASE exitMode \/ exitWait \/ showRecord \/ airkissLeft \/ joinAirkiss
  <2> USE DEF exitMode, exitWait, showRecord, airkissLeft, joinAirkiss
  <2>1. FlagsOK'
    BY <1>a, <1>3 DEF FlagsOK
  <2>2. PlacesOK'
    BY <1>a, <1>3 DEF PlacesOK, RunStates, ApcS, CpcS, KpcS
  <2>3. RunInv'
    BY <1>a, <1>3 DEF RunInv
  <2>4. HeatInv'
    BY <1>a, <1>3 DEF HeatInv, PlacesOK
  <2>5. SkipInv'
    BY <1>a, <1>3 DEF SkipInv
  <2>6. LateInv'
    BY <1>a, <1>3 DEF LateInv, RunInv
  <2>7. QED
    BY <2>1, <2>2, <2>3, <2>4, <2>5, <2>6, TypePartsNext DEF IInv
<1>4. CASE execReset
  <2> USE DEF execReset
  <2>1. FlagsOK'
    BY <1>a, <1>4, Zenon DEF FlagsOK
  <2>2. PlacesOK'
    BY <1>a, <1>4 DEF PlacesOK, RunStates, ApcS, CpcS, KpcS
  <2>3. RunInv'
    BY <1>a, <1>4 DEF RunInv
  <2>4. HeatInv'
    BY <1>a, <1>4 DEF HeatInv, PlacesOK
  <2>5. SkipInv'
    BY <1>a, <1>4 DEF SkipInv
  <2>6. LateInv'
    BY <1>a, <1>4 DEF LateInv, RunInv
  <2>7. QED
    BY <2>1, <2>2, <2>3, <2>4, <2>5, <2>6, TypePartsNext DEF IInv
<1>5. CASE execRegister \/ exitFlash \/ exitUnregister
  <2> USE DEF execRegister, exitFlash, exitUnregister
  <2>1. FlagsOK'
    <3>1. CASE execRegister
      BY <1>a, <3>1, ZenonT(60) DEF FlagsOK
    <3>2. CASE exitFlash
      <4>1. /\ UNCHANGED <<serverState, isExit, isGetSSID, monitor, registered, heater,
                            isValid, heated, overlap>>
            /\ flash' = FALSE
            /\ late' = (cpc # "none")
        BY <3>2
      <4>2. QED
        BY ONLY <1>a, <4>1, Zenon DEF FlagsOK
    <3>3. CASE exitUnregister
      BY <1>a, <3>3, Zenon DEF FlagsOK
    <3>4. QED
      BY <1>5, <3>1, <3>2, <3>3
  <2>2. PlacesOK'
    BY <1>a, <1>5 DEF PlacesOK, RunStates, ApcS, CpcS, KpcS
  <2>3. RunInv'
    BY <1>a, <1>5 DEF RunInv
  <2>4. HeatInv'
    BY <1>a, <1>5 DEF HeatInv, PlacesOK
  <2>5. SkipInv'
    BY <1>a, <1>5 DEF SkipInv
  <2>6. LateInv'
    <3>1. CASE execRegister
      BY <1>a, <3>1 DEF LateInv, RunInv
    <3>2. CASE exitFlash
      BY <1>a, <3>2 DEF LateInv, RunInv
    <3>3. CASE exitUnregister
      BY <1>a, <3>3 DEF LateInv, RunInv
    <3>4. QED
      BY <1>5, <3>1, <3>2, <3>3
  <2>7. QED
    BY <2>1, <2>2, <2>3, <2>4, <2>5, <2>6, TypePartsNext DEF IInv
<1>6. CASE enterAirkiss \/ createAirkiss \/ leaveAirkiss
  <2> USE DEF enterAirkiss, createAirkiss, airKissThrCreat, leaveAirkiss
  <2>1. FlagsOK'
    <3>1. UNCHANGED <<serverState, monitor, registered, heater, flash, isValid, heated,
                      overlap, late>>
      BY <1>6
    <3>2. /\ isExit' = isExit \/ isExit' = TRUE
          /\ isGetSSID' = isGetSSID \/ isGetSSID' = FALSE
      BY <1>6
    <3>3. QED
      BY ONLY <1>a, <3>1, <3>2, ZenonT(60) DEF FlagsOK
  <2>2. PlacesOK'
    BY <1>a, <1>6 DEF PlacesOK, RunStates, ApcS, CpcS, KpcS
  <2>3. RunInv'
    BY <1>a, <1>6 DEF RunInv
  <2>4. HeatInv'
    BY <1>a, <1>6 DEF HeatInv, PlacesOK
  <2>5. SkipInv'
    BY <1>a, <1>6 DEF SkipInv
  <2>6. LateInv'
    BY <1>a, <1>6 DEF LateInv, RunInv
  <2>7. QED
    BY <2>1, <2>2, <2>3, <2>4, <2>5, <2>6, TypePartsNext DEF IInv
<1>7. QED
  BY <1>1, <1>2, <1>3, <1>4, <1>5, <1>6 DEF keyStep

(* A step of the airkiss thread: it leaves the task alone and gives the    *)
(* run state back only as its last act.                                    *)
LEMMA AirkissPreserves ==
  ASSUME IInv, airkissStep
  PROVE  IInv'
<1> USE DEF airkissStep, setRunState, sysVars, ctrlVars, keyVars
<1>a. FlagsOK /\ PlacesOK /\ RunInv /\ HeatInv /\ SkipInv /\ LateInv
  BY TypeParts DEF IInv
<1>1. FlagsOK' /\ HeatInv' /\ SkipInv' /\ LateInv'
  <2> USE DEF airkissThr, akStart, akMonitor, akArm, akRecv, akSeeExit, akStop, akAssoc,
              akGetIp, akIdle
  <2>1. FlagsOK'
    <3>1. UNCHANGED <<serverState, registered, heater, flash, isValid, heated, overlap,
                     late>>
      OBVIOUS
    <3>2. isExit' \in BOOLEAN
      <4>1. isExit' = isExit \/ isExit' = FALSE
        OBVIOUS
      <4>2. QED
        BY ONLY <1>a, <4>1, Zenon DEF FlagsOK
    <3>3. monitor' \in BOOLEAN
      <4>1. monitor' = monitor \/ monitor' = TRUE \/ monitor' = FALSE
        OBVIOUS
      <4>2. QED
        BY ONLY <1>a, <4>1, Zenon DEF FlagsOK
    <3>4. isGetSSID' \in BOOLEAN
      <4>1. isGetSSID' = isGetSSID \/ akRecv
        OBVIOUS
      <4>2. QED
        BY ONLY <1>a, <4>1, Zenon DEF FlagsOK
    <3>5. QED
      BY ONLY <1>a, <3>1, <3>2, <3>3, <3>4, Zenon DEF FlagsOK
  <2>2. HeatInv' /\ SkipInv' /\ LateInv'
    BY <1>a DEF HeatInv, SkipInv, LateInv
  <2>3. QED
    BY <2>1, <2>2
<1>2. PlacesOK'
  <2> USE <1>a, ConnectTriesAssumption DEF PlacesOK, RunStates, ApcS, RunInv
  <2>1. CASE akStart
    BY <2>1 DEF akStart
  <2>2. CASE akMonitor
    BY <2>2 DEF akMonitor
  <2>3. CASE akArm
    BY <2>3 DEF akArm
  <2>4. CASE akRecv
    BY <2>4 DEF akRecv
  <2>5. CASE akSeeExit
    BY <2>5 DEF akSeeExit
  <2>6. CASE akStop
    BY <2>6 DEF akStop
  <2>7. CASE akAssoc
    BY <2>7 DEF akAssoc
  <2>8. CASE akGetIp
    BY <2>8 DEF akGetIp
  <2>9. CASE akIdle
    BY <2>9 DEF akIdle
  <2>10. QED
    BY <2>1, <2>2, <2>3, <2>4, <2>5, <2>6, <2>7, <2>8, <2>9 DEF airkissThr
<1>3. RunInv'
  <2> USE <1>a, ConnectTriesAssumption DEF RunInv
  <2>1. CASE akStart
    BY <2>1 DEF akStart
  <2>2. CASE akMonitor
    BY <2>2 DEF akMonitor
  <2>3. CASE akArm
    BY <2>3 DEF akArm
  <2>4. CASE akRecv
    BY <2>4 DEF akRecv
  <2>5. CASE akSeeExit
    BY <2>5 DEF akSeeExit
  <2>6. CASE akStop
    BY <2>6 DEF akStop, PlacesOK
  <2>7. CASE akAssoc
    BY <2>7 DEF akAssoc, PlacesOK
  <2>8. CASE akGetIp
    BY <2>8 DEF akGetIp, PlacesOK
  <2>9. CASE akIdle
    BY <2>9 DEF akIdle
  <2>10. QED
    BY <2>1, <2>2, <2>3, <2>4, <2>5, <2>6, <2>7, <2>8, <2>9 DEF airkissThr
<1>4. QED
  BY <1>1, <1>2, <1>3, TypePartsNext DEF IInv

(* A step of the callback: it leaves the run state and the radio alone. *)
LEMMA CallbackPreserves ==
  ASSUME IInv, callbackStep
  PROVE  IInv'
<1> USE DEF callbackStep, airkissVars, sysVars
<1>a. FlagsOK /\ PlacesOK /\ RunInv /\ HeatInv /\ SkipInv /\ LateInv
  BY TypeParts DEF IInv
<1>1. FlagsOK' /\ UNCHANGED <<runState, apc, timeout, registered, monitor, kpc>>
  <2> USE DEF execTaskStateMachine, tick, enterCase, startHeat, startCount, countDown, stopHeat,
              chkLink, execCheck, retryLink, shoot, saveJpeg, report, reportDone, beep
  <2>1. FlagsOK'
    <3>1. UNCHANGED <<serverState, isExit, isGetSSID, monitor, registered, overlap>>
      OBVIOUS
    <3>2. /\ heater' = heater \/ heater' = TRUE \/ heater' = FALSE
          /\ flash' = flash \/ flash' = TRUE \/ flash' = FALSE
          /\ isValid' = isValid \/ isValid' = TRUE \/ isValid' = FALSE
          /\ heated' = heated \/ heated' = TRUE
          /\ late' = (late \/ kpc = "exit2")
      OBVIOUS
    <3>3. heater' \in BOOLEAN /\ flash' \in BOOLEAN
      BY ONLY <1>a, <3>2, Zenon DEF FlagsOK
    <3>4. isValid' \in BOOLEAN /\ heated' \in BOOLEAN /\ late' \in BOOLEAN
      BY ONLY <1>a, <3>2, Zenon DEF FlagsOK
    <3>5. QED
      BY ONLY <1>a, <3>1, <3>3, <3>4, Zenon DEF FlagsOK
  <2>2. UNCHANGED <<runState, apc, timeout, registered, monitor, kpc>>
    OBVIOUS
  <2>3. QED
    BY <2>1, <2>2
<1>2. SkipInv'
  <2> USE DEF execTaskStateMachine, tick, enterCase, startHeat, startCount, countDown, stopHeat,
              chkLink, execCheck, retryLink, shoot, saveJpeg, report, reportDone, beep
  <2>1. CASE heated \/ overlap \/ cpc = "ready"
    <3>1. heated' \/ overlap'
      BY <2>1, SMT
    <3>2. QED
      BY ONLY <3>1 DEF SkipInv
  <2>2. CASE state = 0 /\ cpc = "none"
    <3>1. state' = 0 /\ cpc' = "found"
      BY <2>2
    <3>2. QED
      BY ONLY <3>1 DEF SkipInv
  <2>3. CASE state = 0 /\ cpc = "found"
    <3>1. state' = 0 /\ cpc' = "heat"
      BY <2>3, CaseOfState
    <3>2. QED
      BY ONLY <3>1 DEF SkipInv
  <2>4. CASE state = 0 /\ cpc = "heat"
    <3>1. state' = 0 /\ cpc' = "ready"
      BY <2>4
    <3>2. QED
      BY ONLY <3>1 DEF SkipInv
  <2>5. QED
    BY <1>a, <2>1, <2>2, <2>3, <2>4 DEF SkipInv
<1>3. RunInv'
  BY <1>a, <1>1 DEF RunInv
<1>4. PlacesOK' /\ HeatInv'
  <2> USE <1>a, <1>1, TickAssumption DEF PlacesOK, HeatInv, Cooled, CpcS
  <2>0. CASE tick
    BY <2>0 DEF tick
  <2>1. CASE enterCase
    <3>1. CASE state = 6
      BY <2>1, <3>1 DEF enterCase
    <3>2. CASE state \in 0 .. 5
      BY <2>1, <3>2, CaseOfState DEF enterCase
    <3>3. QED
      BY <3>1, <3>2
  <2>2. CASE startHeat
    BY <2>2 DEF startHeat
  <2>3. CASE startCount
    BY <2>3 DEF startCount
  <2>4. CASE countDown
    BY <2>4 DEF countDown
  <2>5. CASE stopHeat
    BY <2>5 DEF stopHeat
  <2>6. CASE chkLink
    BY <2>6 DEF chkLink
  <2>7. CASE execCheck
    BY <2>7 DEF execCheck
  <2>8. CASE retryLink
    BY <2>8 DEF retryLink
  <2>9. CASE shoot
    BY <2>9 DEF shoot
  <2>10. CASE saveJpeg
    BY <2>10 DEF saveJpeg
  <2>11. CASE report
    BY <2>11 DEF report
  <2>12. CASE reportDone
    BY <2>12 DEF reportDone
  <2>13. CASE beep
    BY <2>13 DEF beep
  <2>14. QED
    BY <2>0, <2>1, <2>2, <2>3, <2>4, <2>5, <2>6, <2>7, <2>8, <2>9, <2>10, <2>11, <2>12,
       <2>13 DEF execTaskStateMachine
<1>5. LateInv'
  <2> USE DEF execTaskStateMachine, tick, enterCase, startHeat, startCount, countDown,
              stopHeat, chkLink, execCheck, retryLink, shoot, saveJpeg, report,
              reportDone, beep
  <2>1. cpc = "none" => registered
    OBVIOUS
  <2>2. late' = (late \/ kpc = "exit2")
    OBVIOUS
  <2>3. ~registered \/ kpc = "exit2" => late'
    BY <1>a, <2>1, <2>2 DEF LateInv
  <2>4. QED
    BY <1>1, <2>3 DEF LateInv
<1>6. QED
  BY <1>1, <1>2, <1>3, <1>4, <1>5, TypePartsNext DEF IInv

(* A step of the network thread. *)
LEMMA NetPreserves ==
  ASSUME IInv, netStep
  PROVE  IInv'
<1> USE DEF netStep, setServerState, airkissVars, ctrlVars, keyVars
<1>a. FlagsOK /\ PlacesOK /\ RunInv /\ HeatInv /\ SkipInv /\ LateInv
  BY TypeParts DEF IInv
<1>1. FlagsOK'
  BY <1>a, Zenon DEF FlagsOK
<1>2. PlacesOK' /\ RunInv' /\ HeatInv' /\ SkipInv' /\ LateInv'
  BY <1>a DEF PlacesOK, RunInv, HeatInv, SkipInv, LateInv
<1>3. QED
  BY <1>1, <1>2, TypePartsNext DEF IInv

(* IInv is an invariant of the application. *)
THEOREM Invariance == Spec => []IInv
<1>1. IInv /\ UNCHANGED vars => IInv'
  BY DEF vars, sysVars, airkissVars, ctrlVars, keyVars, IInv, TypeOK, SysTypeOK,
     AirkissTypeOK, CtrlTypeOK, RunInv, HeatInv, SkipInv, LateInv
<1>2. IInv /\ [Next]_vars => IInv'
  BY KeyPreserves, CallbackPreserves, AirkissPreserves, NetPreserves, <1>1 DEF Next
<1>3. QED
  BY InitIInv, <1>2, PTL DEF Spec

(* Every variable keeps its type: the countdowns and retries, which the    *)
(* code never bounds, stay within theirs.                                  *)
THEOREM TypesAreKept == Spec => []TypeOK
BY Invariance, PTL DEF IInv

(* An airkiss thread and a task never coexist: sys_ctrl.c and airkissThr.c *)
(* keep each other out through runState alone.                             *)
THEOREM ModesAreExclusive == Spec => []ModesExclusive
<1>1. IInv => ModesExclusive
  BY DEF IInv, RunInv, ModesExclusive
<1>2. QED
  BY Invariance, <1>1, PTL

(* No failing call of airkissThr leaves the radio in monitor mode with no  *)
(* thread to take it out.                                                  *)
THEOREM MonitorIsOwned == Spec => []MonitorOwned
<1>1. IInv => MonitorOwned
  BY DEF IInv, RunInv, MonitorOwned
<1>2. QED
  BY Invariance, <1>1, PTL

(* execTaskStateMachine photographs with the heater off and after a whole  *)
(* countdown, however execTask rewrites state under it, for every number   *)
(* of ticks; and its countdowns never run past zero.                       *)
THEOREM PhotosComeAfterHeating == Spec => []PhotoAfterHeating
<1>1. IInv => PhotoAfterHeating
  BY DEF IInv, HeatInv, Cooled, PhotoAfterHeating
<1>2. QED
  BY Invariance, <1>1, PTL

(* A task that skips its heating has overlapped a callback of the task     *)
(* before it: sys_ctrl.c:397 against the stores of the running callback.   *)
THEOREM HeatingIsSkippedOnlyByOverlap == Spec => []HeatSkippedOnlyByOverlap
<1>1. IInv => HeatSkippedOnlyByOverlap
  BY DEF IInv, SkipInv, HeatSkippedOnlyByOverlap
<1>2. QED
  BY Invariance, <1>1, PTL

(* With no task on the list, sys_ctrl.c leaves the flash on only through a *)
(* callback that ran into ExitTask, and the heater only before the end of  *)
(* the countdown.                                                          *)
THEOREM DevicesAreLeftOnOnlyByExit == Spec => []LeftOnOnlyByExit
<1>1. IInv => LeftOnOnlyByExit
  <2> SUFFICES ASSUME IInv
               PROVE  LeftOnOnlyByExit
    OBVIOUS
  <2>1. heater => state \in {0, 1}
    BY DEF IInv, TypeOK, CtrlTypeOK, HeatInv
  <2>2. QED
    BY <2>1 DEF IInv, LateInv, LeftOnOnlyByExit
<1>2. QED
  BY Invariance, <1>1, PTL

(* The application implements Modes: whatever the threads interleave, the  *)
(* run state goes from IDLE to a busy mode and back.                       *)
THEOREM ImplementsModes == Spec => ModesSpec
<1> USE DEF M!Next, M!Boot, M!Enter, M!Leave
<1>1. Init => M!Init
  BY DEF Init, initSysState, M!Init
<1>2. IInv /\ Next => [M!Next]_runState
  <2> SUFFICES ASSUME IInv, Next
               PROVE  [M!Next]_runState
    OBVIOUS
  <2>a. RunInv /\ runState \in RunStates
    BY DEF IInv, TypeOK, SysTypeOK
  <2> USE <2>a DEF RunInv, goto, keyOnly, keySetRun, setRunState, sysVars
  <2>1. CASE userKey
    BY <2>1 DEF userKey, powerShort, wpsShort, wpsLong, power_Off
  <2>2. CASE boot \/ powerExec \/ powerWarn \/ warnEnd \/ execMode
    BY <2>2 DEF boot, powerExec, powerWarn, warnEnd, execMode
  <2>3. CASE exitMode \/ exitWait \/ showRecord \/ airkissLeft \/ joinAirkiss
    BY <2>3 DEF exitMode, exitWait, showRecord, airkissLeft, joinAirkiss
  <2>4. CASE execReset \/ execRegister \/ exitFlash \/ exitUnregister
    BY <2>4 DEF execReset, execRegister, exitFlash, exitUnregister
  <2>5. CASE enterAirkiss \/ createAirkiss \/ leaveAirkiss
    BY <2>5 DEF enterAirkiss, createAirkiss, leaveAirkiss
  <2>6. CASE callbackStep
    BY <2>6 DEF callbackStep, execTaskStateMachine, tick, enterCase, startHeat, startCount,
       countDown, stopHeat, chkLink, execCheck, retryLink, shoot, saveJpeg, report,
       reportDone, beep
  <2>7. CASE airkissStep
    BY <2>7 DEF airkissStep, airkissThr, akStart, akMonitor, akArm, akRecv, akSeeExit,
       akStop, akAssoc, akGetIp, akIdle
  <2>8. CASE netStep
    BY <2>8 DEF netStep
  <2>9. QED
    BY <2>1, <2>2, <2>3, <2>4, <2>5, <2>6, <2>7, <2>8 DEF Next, keyStep
<1>3. IInv /\ [Next]_vars => [M!Next]_runState
  BY <1>2 DEF vars, sysVars
<1>4. QED
  BY Invariance, <1>1, <1>3, PTL DEF Spec, ModesSpec, M!Spec
=============================================================================
