------------------------------- MODULE LedMng -------------------------------
(***************************************************************************)
(* The LED of sys_misc.c.  start_led, called by the key thread and by the  *)
(* airkiss thread, stores how often it shall blink: -1, for ever, or 1.    *)
(* LedMngThr blinks and counts down, with a load and a store of its own    *)
(* and no lock; when it has come to 0 the LED is left on, which is what    *)
(* every caller asks for.  The frequency only changes the delays.          *)
(***************************************************************************)
EXTENDS Integers

CONSTANT MaxCalls   \* bound on the calls of start_led: they come to an end

ASSUME MaxCallsAssumption == MaxCalls \in Nat

VARIABLES
  times,    \* the static of that name
  light,    \* GPIO_BREATH_LIGTHT_EN
  ledPc,    \* where LedMngThr is
  loaded,   \* what times-- has loaded
  calls,    \* history: how often start_led was called
  asked,    \* history: the argument of the last start_led, 0 before the first
  lost      \* history: it came between the load and the store of times--

ledVars == <<times, light, ledPc, loaded, calls, asked, lost>>

Forever == -1

LedTypeOK ==
  /\ times \in -2 .. 1
  /\ light \in {"HIGH", "LOW"}
  /\ ledPc \in {"top", "on", "off", "test", "load", "store", "zero"}
  /\ loaded \in {-1, 0, 1}
  /\ calls \in 0 .. MaxCalls
  /\ asked \in {Forever, 0, 1}
  /\ lost \in BOOLEAN

(* main.c starts the thread with the pin as the boot loader left it. *)
LedInit ==
  /\ times = 0
  /\ light \in {"HIGH", "LOW"}
  /\ ledPc = "top"
  /\ loaded = 0
  /\ calls = 0
  /\ asked = 0
  /\ lost = FALSE
-----------------------------------------------------------------------------
start_led(times1) ==
  /\ calls < MaxCalls
  /\ calls' = calls + 1
  /\ times' = times1
  /\ asked' = times1
  /\ lost' = (ledPc = "store")
  /\ UNCHANGED <<light, ledPc, loaded>>

write(from, to, level) ==
  /\ ledPc = from
  /\ ledPc' = to
  /\ light' = level
  /\ UNCHANGED <<times, loaded, calls, asked, lost>>

(* One round: nothing to blink, or one blink, ... *)
round ==
  \/ ledPc = "top" /\ times = 0 /\ UNCHANGED ledVars
  \/ times # 0 /\ write("top", "on", "LOW")
  \/ write("on", "off", "HIGH")
  \/ write("off", "test", "LOW")

(* ... if(times > 0) times --, ... *)
testTimes ==
  /\ ledPc = "test"
  /\ ledPc' = IF times > 0 THEN "load" ELSE "zero"
  /\ UNCHANGED <<times, light, loaded, calls, asked, lost>>

loadTimes ==
  /\ ledPc = "load"
  /\ loaded' = times
  /\ ledPc' = "store"
  /\ UNCHANGED <<times, light, calls, asked, lost>>

storeTimes ==
  /\ ledPc = "store"
  /\ times' = loaded - 1
  /\ ledPc' = "zero"
  /\ UNCHANGED <<light, loaded, calls, asked, lost>>

(* Mutant: the last blink leaves the pin as it is. *)
lastBlink_staysOff ==
  /\ ledPc = "zero"
  /\ ledPc' = "top"
  /\ UNCHANGED <<times, light, loaded, calls, asked, lost>>

(* ... if(times == 0) ipnc_gio_write(.., stopSta). *)
lastBlink == write("zero", "top", IF times = 0 THEN "HIGH" ELSE light)

LedMngThr == round \/ testTimes \/ loadTimes \/ storeTimes \/ lastBlink

LedNext == LedMngThr \/ \E times1 \in {Forever, 1} : start_led(times1)
-----------------------------------------------------------------------------
(* The LED comes to show what was asked for last: steadily on after a      *)
(* single blink, and blinking for as long as nothing else is asked when it *)
(* was asked to blink for ever; unless that call came between the load and *)
(* the store of times--, which then undoes it.                             *)
LedObeysLast ==
  /\ (asked = 1 /\ ~lost) ~>
       (asked = Forever \/ lost \/ (times = 0 /\ ledPc = "top" /\ light = "HIGH"))
  /\ \A level \in {"HIGH", "LOW"} :
       (asked = Forever /\ ~lost) ~> (asked = 1 \/ lost \/ light = level)
=============================================================================
