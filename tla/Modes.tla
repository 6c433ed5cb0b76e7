-------------------------------- MODULE Modes -------------------------------
(***************************************************************************)
(* What the device promises about its mode: it boots into IDLE, every      *)
(* other mode is entered from IDLE and left for IDLE, so that no mode      *)
(* takes over from another or is cut short by the end of an earlier one.   *)
(***************************************************************************)
CONSTANT Busy   \* the modes other than IDLE: a task, a warning, airkiss

VARIABLE mode

Init == mode = "ERR"

Boot == mode = "ERR" /\ mode' = "IDLE"

Enter(m) == mode = "IDLE" /\ mode' = m

Leave == mode \in Busy /\ mode' = "IDLE"

Next == Boot \/ Leave \/ \E m \in Busy : Enter(m)

Spec == Init /\ [][Next]_mode
=============================================================================
