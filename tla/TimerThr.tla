------------------------------ MODULE TimerThr ------------------------------
(***************************************************************************)
(* When the timer thread of timerThr.c calls a registered procedure.  The  *)
(* time a task is due is kept as seconds and nanoseconds; both the code    *)
(* that sets it and the code that compares it treat them in a way of their *)
(* own, and this module follows them:                                      *)
(*   - the current second is taken, but not its milliseconds (tv_nsec is   *)
(*     set from tv_sec, a few microseconds, which a millisecond hides);    *)
(*   - the difference is what is LEFT, an int32_t, compared with a         *)
(*     uint32_t: it is reached when it has become negative.                *)
(* Time is counted in milliseconds.                                        *)
(***************************************************************************)
EXTENDS Integers

CONSTANTS
  Tasks,      \* list nodes
  Times,      \* the periods tasks are registered with: 1000 and 2000
  Second,     \* 1000
  Interval,   \* TASK_CHECK_INTERVAL, between two visits of one node
  MaxGap,     \* the longest time between them: callbacks take time
  Uint32,     \* 2^32
  Horizon     \* how long the clock runs

ASSUME TimerAssumption ==
  /\ Second \in Nat \ {0}
  /\ Interval \in Nat \ {0}
  /\ MaxGap \in Nat /\ MaxGap >= Interval
  /\ \A time \in Times : time \in Nat /\ time >= Second /\ time % Second = 0
  /\ Horizon \in Nat
  /\ Uint32 \in Nat
  /\ \A time \in Times : Uint32 > Horizon + time

VARIABLES
  now,          \* CLOCK_MONOTONIC
  mode,         \* task.mode of each node, "none" when it is not on the list
  u32Time,      \* task.u32Time
  stCheckTime,  \* task.stCheckTime, in milliseconds
  visited,      \* when the thread looked at the node last, Never before
  registeredAt, \* history: when it was registered
  calledAt      \* history: when its procedure was called last, Never before

vars == <<now, mode, u32Time, stCheckTime, visited, registeredAt, calledAt>>

Never == -1

Modes == {"none", "SINGLE", "CONTINUE"}

TypeOK ==
  /\ now \in 0 .. Horizon
  /\ mode \in [Tasks -> Modes]
  /\ u32Time \in [Tasks -> Times \cup {0}]
  /\ stCheckTime \in [Tasks -> Nat]
  /\ visited \in [Tasks -> Never .. now]
  /\ registeredAt \in [Tasks -> 0 .. now]
  /\ calledAt \in [Tasks -> Never .. now]
  /\ \A t \in Tasks : mode[t] # "none" => u32Time[t] \in Times

Init ==
  /\ now = 0
  /\ mode = [t \in Tasks |-> "none"]
  /\ u32Time = [t \in Tasks |-> 0]
  /\ stCheckTime = [t \in Tasks |-> 0]
  /\ visited = [t \in Tasks |-> Never]
  /\ registeredAt = [t \in Tasks |-> 0]
  /\ calledAt = [t \in Tasks |-> Never]
-----------------------------------------------------------------------------
(* The beginning of the second a time is in: what is left of stCurTime     *)
(* when its nanoseconds are dropped.                                       *)
BeginOfSecond(ms) == ms - (ms % Second)

(* Mutant: due again at the end of the second it is in. *)
NextCheck_nextSecond(time) == BeginOfSecond(now) + Second

(* stCheckTime, when a task is registered and after each call. *)
NextCheck(time) == BeginOfSecond(now) + time

(* The conversion of an int32_t to uint32_t. *)
AsUint32(diff) == IF diff < 0 THEN diff + Uint32 ELSE diff

(* Mutant: both sides of the comparison signed. *)
Due_signed(check, time) == check - now >= time

(* u32TimeDiff >= u32Time *)
Due(check, time) == AsUint32(check - now) >= time

(* Mutant: the node keeps the period it had, none in a new one. *)
RegisterProc_forgetsTime(t, m, time) ==
  /\ mode[t] = "none"
  /\ mode' = [mode EXCEPT ![t] = m]
  /\ stCheckTime' = [stCheckTime EXCEPT ![t] = NextCheck(time)]
  /\ visited' = [visited EXCEPT ![t] = Never]
  /\ registeredAt' = [registeredAt EXCEPT ![t] = now]
  /\ calledAt' = [calledAt EXCEPT ![t] = Never]
  /\ UNCHANGED <<now, u32Time>>

RegisterProc(t, m, time) ==
  /\ mode[t] = "none"
  /\ mode' = [mode EXCEPT ![t] = m]
  /\ u32Time' = [u32Time EXCEPT ![t] = time]
  /\ stCheckTime' = [stCheckTime EXCEPT ![t] = NextCheck(time)]
  /\ visited' = [visited EXCEPT ![t] = Never]
  /\ registeredAt' = [registeredAt EXCEPT ![t] = now]
  /\ calledAt' = [calledAt EXCEPT ![t] = Never]
  /\ UNCHANGED now

UnRegisterProc(t) ==
  /\ mode[t] # "none"
  /\ mode' = [mode EXCEPT ![t] = "none"]
  /\ UNCHANGED <<now, u32Time, stCheckTime, visited, registeredAt, calledAt>>

(* The thread comes to a node: its procedure is called when it is due, and *)
(* a single task is then taken off, a continuing one given its next time.  *)
(* The first visit may come at once, the others Interval after the last.   *)
visit(t) ==
  /\ mode[t] # "none"
  /\ visited[t] = Never \/ now >= visited[t] + Interval
  /\ visited' = [visited EXCEPT ![t] = now]
  /\ UNCHANGED <<now, u32Time, registeredAt>>

notDue(t) ==
  /\ visit(t)
  /\ ~Due(stCheckTime[t], u32Time[t])
  /\ UNCHANGED <<mode, stCheckTime, calledAt>>

callSingle(t) ==
  /\ visit(t)
  /\ Due(stCheckTime[t], u32Time[t])
  /\ mode[t] = "SINGLE"
  /\ calledAt' = [calledAt EXCEPT ![t] = now]
  /\ mode' = [mode EXCEPT ![t] = "none"]
  /\ UNCHANGED stCheckTime

callContinue(t) ==
  /\ visit(t)
  /\ Due(stCheckTime[t], u32Time[t])
  /\ mode[t] = "CONTINUE"
  /\ calledAt' = [calledAt EXCEPT ![t] = now]
  /\ stCheckTime' = [stCheckTime EXCEPT ![t] = NextCheck(u32Time[t])]
  /\ UNCHANGED mode

(* The clock.  MaxGap bounds the time until the thread comes to a node.    *)
LastLook(t) == IF visited[t] = Never THEN registeredAt[t] ELSE visited[t]

clock ==
  /\ now < Horizon
  /\ \A t \in Tasks : mode[t] # "none" => now < LastLook(t) + MaxGap
  /\ now' = now + 1
  /\ UNCHANGED <<mode, u32Time, stCheckTime, visited, registeredAt, calledAt>>

step(t) ==
  \/ \E m \in Modes \ {"none"}, time \in Times : RegisterProc(t, m, time)
  \/ UnRegisterProc(t)
  \/ notDue(t)
  \/ callSingle(t)
  \/ callContinue(t)

Next == clock \/ \E t \in Tasks : step(t)

Spec == Init /\ [][Next]_vars
-----------------------------------------------------------------------------
(* A continuing task is called at most once in each of its periods: from   *)
(* the second of one call to the second of the next it is at least the     *)
(* period, however late the calls are, although the time it is due is not  *)
(* the time of the call plus the period, and the comparison mixes signs.   *)
(* The countdown of a task in sys_ctrl.c, a call a second, rests on this.  *)
PeriodKept ==
  [][\A t \in Tasks :
       calledAt[t] # Never /\ calledAt'[t] \notin {calledAt[t], Never}
         => BeginOfSecond(calledAt'[t]) >= BeginOfSecond(calledAt[t]) + u32Time[t]]_vars

(* No call is missed or late: a task on the list is never left behind its  *)
(* time for longer than the thread takes to come round.                    *)
OnTime == \A t \in Tasks : mode[t] # "none" => now <= stCheckTime[t] + MaxGap
-----------------------------------------------------------------------------
(* What makes both inductive: the time a task is due is a whole second,    *)
(* counted from the second of its last call, and no look at it found it    *)
(* past that time without calling it.                                      *)
DueAt(t) ==
  /\ stCheckTime[t] % Second = 0
  /\ LastLook(t) <= stCheckTime[t]
  /\ now <= LastLook(t) + MaxGap
  /\ calledAt[t] # Never =>
       /\ stCheckTime[t] = BeginOfSecond(calledAt[t]) + u32Time[t]
       /\ calledAt[t] <= visited[t]

DueInv == \A t \in Tasks : mode[t] # "none" => DueAt(t)

IInv == TypeOK /\ DueInv
=============================================================================
