----------------------------- MODULE TimerProofs ----------------------------
(***************************************************************************)
(* Proofs about the four parts of MCTimer: when tasks are called           *)
(* (TimerThr), for every length of a second, every set of periods that are *)
(* whole seconds, and every delay of the thread; how a task comes by its   *)
(* report (HttpUpload), for every number of tasks; the list of the tasks   *)
(* (TimerList), for every number of nodes and threads; and the file of     *)
(* values (RecordIni), for every width of a value.  At the end, the four   *)
(* together.                                                               *)
(***************************************************************************)
EXTENDS MCTimer, FiniteSetTheorems, TLAPS

(* Division with a remainder, ... *)
LEMMA Division ==
  ASSUME NEW s \in Nat \ {0}, NEW x \in Int
  PROVE  /\ x \div s \in Int
         /\ x % s \in 0 .. s - 1
         /\ x = s * (x \div s) + (x % s)
OBVIOUS

(* ... for a number of milliseconds and the length of a second. *)
LEMMA Seconds ==
  ASSUME NEW x \in Int
  PROVE  /\ x % Second \in 0 .. Second - 1
         /\ \E q \in Int : x = Second * q + (x % Second)
<1>1. Second \in Nat \ {0}
  BY TimerAssumption
<1>2. /\ x \div Second \in Int
      /\ x % Second \in 0 .. Second - 1
      /\ x = Second * (x \div Second) + (x % Second)
  BY ONLY <1>1, x \in Int, Division
<1>3. QED
  BY ONLY <1>2

LEMMA Multiple ==
  ASSUME NEW x \in Int, x % Second = 0
  PROVE  \E a \in Int : x = Second * a
<1>1. PICK a \in Int : x = Second * a + (x % Second)
  BY Seconds
<1>2. Second * a \in Int
  BY TimerAssumption
<1>3. x = Second * a
  BY ONLY <1>1, <1>2, x % Second = 0
<1>4. QED
  BY <1>3

LEMMA WholeSeconds ==
  ASSUME NEW k \in Int
  PROVE  (Second * k) % Second = 0
<1>1. Second \in Nat \ {0}
  BY TimerAssumption
<1> DEFINE r == (Second * k) % Second
<1>2. PICK q \in Int : Second * k = Second * q + r /\ r \in 0 .. Second - 1
  <2>1. Second * k \in Int
    BY <1>1
  <2>2. QED
    BY ONLY <2>1, Seconds
<1>3. r = Second * (k - q)
  BY <1>1, <1>2
<1>4. k - q = 0
  <2>1. CASE k - q >= 1
    <3>1. Second * (k - q) >= Second
      BY <1>1, <1>2, <2>1
    <3>2. QED
      BY <1>1, <1>2, <1>3, <3>1
  <2>2. CASE k - q <= -1
    <3>1. Second * (k - q) <= -Second
      BY <1>1, <1>2, <2>2
    <3>2. QED
      BY <1>1, <1>2, <1>3, <3>1
  <2>3. QED
    BY <1>2, <2>1, <2>2
<1>5. QED
  BY <1>1, <1>3, <1>4

(* The beginning of the second a moment is in. *)
LEMMA Begin ==
  ASSUME NEW n \in Nat
  PROVE  /\ BeginOfSecond(n) \in Nat
         /\ BeginOfSecond(n) <= n
         /\ n < BeginOfSecond(n) + Second
         /\ BeginOfSecond(n) % Second = 0
<1>1. Second \in Nat \ {0}
  BY TimerAssumption
<1>2. PICK q \in Int : n = Second * q + (n % Second) /\ n % Second \in 0 .. Second - 1
  BY Seconds
<1>3. BeginOfSecond(n) = Second * q
  BY <1>1, <1>2 DEF BeginOfSecond
<1>4. BeginOfSecond(n) % Second = 0
  BY <1>3, WholeSeconds
<1>5. Second * q >= 0
  <2>1. CASE q <= -1
    <3>1. Second * q <= -Second
      BY <1>1, <2>1
    <3>2. QED
      BY <1>1, <1>2, <3>1
  <2>2. CASE q >= 0
    BY <1>1, <2>2
  <2>3. QED
    BY <2>1, <2>2
<1>6. QED
  BY <1>1, <1>2, <1>3, <1>4, <1>5

(* Whole seconds add up, ... *)
LEMMA AddSeconds ==
  ASSUME NEW x \in Int, NEW y \in Int, x % Second = 0, y % Second = 0
  PROVE  (x + y) % Second = 0
<1>1. Second \in Nat \ {0}
  BY TimerAssumption
<1>2. PICK a \in Int : x = Second * a
  BY Multiple
<1>3. PICK b \in Int : y = Second * b
  BY Multiple
<1>4. x + y = Second * (a + b)
  BY <1>1, <1>2, <1>3
<1>5. QED
  BY <1>4, WholeSeconds

(* ... and one that has begun has begun with the second of the moment.     *)
LEMMA BegunBefore ==
  ASSUME NEW x \in Int, x % Second = 0, NEW n \in Nat, x <= n
  PROVE  x <= BeginOfSecond(n)
<1>1. Second \in Nat \ {0}
  BY TimerAssumption
<1>2. PICK a \in Int : x = Second * a
  BY Multiple
<1>3. PICK q \in Int : n = Second * q + (n % Second) /\ n % Second \in 0 .. Second - 1
  BY Seconds
<1>4. BeginOfSecond(n) = Second * q
  BY <1>1, <1>3 DEF BeginOfSecond
<1>5. CASE a <= q
  <2>1. Second * a <= Second * q
    BY <1>1, <1>5
  <2>2. QED
    BY <1>2, <1>4, <2>1
<1>6. CASE a >= q + 1
  <2>1. Second * a >= Second * q + Second
    BY <1>1, <1>6
  <2>2. QED
    BY <1>1, <1>2, <1>3, <2>1
<1>7. QED
  BY <1>5, <1>6
-----------------------------------------------------------------------------
(* The time a task is due next: a whole second, after this moment.         *)
LEMMA NextCheckTime ==
  ASSUME NEW time \in Times, now \in Nat
  PROVE  /\ NextCheck(time) \in Nat
         /\ NextCheck(time) % Second = 0
         /\ now <= NextCheck(time)
<1>1. /\ Second \in Nat
      /\ time \in Nat /\ time >= Second /\ time % Second = 0
  BY TimerAssumption
<1>2. /\ BeginOfSecond(now) \in Nat
      /\ now < BeginOfSecond(now) + Second
      /\ BeginOfSecond(now) % Second = 0
  BY Begin
<1>3. (BeginOfSecond(now) + time) % Second = 0
  BY <1>1, <1>2, AddSeconds
<1>4. QED
  BY <1>1, <1>2, <1>3 DEF NextCheck

(* A task that is not due is not past its time; one that is due is, or its *)
(* time is a whole period away.                                            *)
LEMMA DueMeans ==
  ASSUME NEW check \in Nat, NEW time \in Times, now \in 0 .. Horizon
  PROVE  Due(check, time) <=> check < now \/ check - now >= time
<1>1. Horizon \in Nat /\ Uint32 \in Nat /\ time \in Nat /\ Uint32 > Horizon + time
  BY TimerAssumption
<1>2. CASE check < now
  <2>1. AsUint32(check - now) = check - now + Uint32
    BY <1>1, <1>2 DEF AsUint32
  <2>2. check - now + Uint32 >= time
    BY <1>1
  <2>3. QED
    BY <1>2, <2>1, <2>2 DEF Due
<1>3. CASE ~(check < now)
  BY <1>3 DEF Due, AsUint32
<1>4. QED
  BY <1>2, <1>3

LEMMA InitIInv == Init => IInv
BY TimerAssumption DEF Init, IInv, TypeOK, DueInv, Modes, Never

(* RegisterProc puts a task on the list with a time to come. *)
LEMMA RegisterPreserves ==
  ASSUME IInv, NEW t \in Tasks, NEW m \in Modes \ {"none"}, NEW time \in Times,
         RegisterProc(t, m, time)
  PROVE  IInv'
<1> USE DEF IInv, RegisterProc
<1>1. now \in Nat /\ NextCheck(time) \in Nat /\ NextCheck(time) % Second = 0
      /\ now <= NextCheck(time)
  BY TimerAssumption, NextCheckTime DEF TypeOK
<1>2. TypeOK'
  BY <1>1, TimerAssumption DEF TypeOK, Modes, Never
<1>3. ASSUME NEW s \in Tasks, mode'[s] # "none"
      PROVE  DueAt(s)'
  <2>1. CASE s = t
    BY <1>1, <2>1, TimerAssumption DEF TypeOK, DueAt, LastLook, Never
  <2>2. CASE s # t
    <3>1. DueAt(s)
      BY <1>3, <2>2 DEF TypeOK, DueInv
    <3>2. QED
      BY <2>2, <3>1 DEF TypeOK, DueAt, LastLook
  <2>3. QED
    BY <2>1, <2>2
<1>4. QED
  BY <1>2, <1>3 DEF DueInv

LEMMA UnRegisterPreserves ==
  ASSUME IInv, NEW t \in Tasks, UnRegisterProc(t)
  PROVE  IInv'
<1> USE DEF IInv, UnRegisterProc
<1>1. TypeOK'
  BY DEF TypeOK, Modes
<1>2. ASSUME NEW s \in Tasks, mode'[s] # "none"
      PROVE  DueAt(s)'
  <2>1. DueAt(s)
    BY <1>2 DEF TypeOK, DueInv
  <2>2. QED
    BY <2>1 DEF DueAt, LastLook
<1>3. QED
  BY <1>1, <1>2 DEF DueInv

(* A look that finds a task not due finds it before its time. *)
LEMMA NotDuePreserves ==
  ASSUME IInv, NEW t \in Tasks, notDue(t)
  PROVE  IInv'
<1> USE DEF IInv, notDue, visit
<1>1. TypeOK'
  BY DEF TypeOK, Never
<1>2. now <= stCheckTime[t]
  <2>1. stCheckTime[t] \in Nat /\ u32Time[t] \in Times /\ now \in 0 .. Horizon
    BY DEF TypeOK
  <2>2. QED
    BY <2>1, DueMeans
<1>3. ASSUME NEW s \in Tasks, mode'[s] # "none"
      PROVE  DueAt(s)'
  <2>1. DueAt(s)
    BY <1>3 DEF DueInv
  <2>2. CASE s = t
    BY <1>2, <2>1, <2>2, TimerAssumption DEF TypeOK, DueAt, LastLook, Never
  <2>3. CASE s # t
    BY <2>1, <2>3 DEF TypeOK, DueAt, LastLook
  <2>4. QED
    BY <2>2, <2>3
<1>4. QED
  BY <1>1, <1>3 DEF DueInv

(* A call takes a single task off the list, ... *)
LEMMA CallSinglePreserves ==
  ASSUME IInv, NEW t \in Tasks, callSingle(t)
  PROVE  IInv'
<1> USE DEF IInv, callSingle, visit
<1>1. TypeOK'
  BY DEF TypeOK, Modes, Never
<1>2. ASSUME NEW s \in Tasks, mode'[s] # "none"
      PROVE  DueAt(s)'
  <2>1. s # t
    BY <1>2 DEF TypeOK
  <2>2. DueAt(s)
    BY <1>2, <2>1 DEF TypeOK, DueInv
  <2>3. QED
    BY <2>1, <2>2 DEF TypeOK, DueAt, LastLook
<1>3. QED
  BY <1>1, <1>2 DEF DueInv

(* ... and gives a continuing one a time to come. *)
LEMMA CallContinuePreserves ==
  ASSUME IInv, NEW t \in Tasks, callContinue(t)
  PROVE  IInv'
<1> USE DEF IInv, callContinue, visit
<1>1. now \in Nat /\ u32Time[t] \in Times
  BY TimerAssumption DEF TypeOK
<1>2. NextCheck(u32Time[t]) \in Nat /\ NextCheck(u32Time[t]) % Second = 0
      /\ now <= NextCheck(u32Time[t])
  BY <1>1, NextCheckTime
<1>3. TypeOK'
  BY <1>2 DEF TypeOK, Never
<1>4. ASSUME NEW s \in Tasks, mode'[s] # "none"
      PROVE  DueAt(s)'
  <2>1. CASE s = t
    BY <1>1, <1>2, <2>1, TimerAssumption
       DEF TypeOK, DueAt, LastLook, NextCheck, BeginOfSecond, Never
  <2>2. CASE s # t
    <3>1. DueAt(s)
      BY <1>4 DEF DueInv
    <3>2. QED
      BY <2>2, <3>1 DEF TypeOK, DueAt, LastLook, BeginOfSecond
  <2>3. QED
    BY <2>1, <2>2
<1>5. QED
  BY <1>3, <1>4 DEF DueInv

(* The clock does not leave a task behind by more than MaxGap. *)
LEMMA ClockPreserves ==
  ASSUME IInv, clock
  PROVE  IInv'
<1> USE DEF IInv, clock
<1>1. TypeOK'
  BY TimerAssumption DEF TypeOK, Never
<1>2. ASSUME NEW s \in Tasks, mode'[s] # "none"
      PROVE  DueAt(s)'
  <2>1. DueAt(s) /\ now < LastLook(s) + MaxGap
    BY <1>2 DEF DueInv
  <2>2. LastLook(s) \in Int
    BY DEF TypeOK, LastLook, Never
  <2>3. QED
    BY <2>1, <2>2, TimerAssumption DEF TypeOK, DueAt, LastLook, BeginOfSecond
<1>3. QED
  BY <1>1, <1>2 DEF DueInv

(* IInv is an invariant of the timer. *)
THEOREM Invariance == Spec => []IInv
<1>1. IInv /\ [Next]_vars => IInv'
  <2> SUFFICES ASSUME IInv, [Next]_vars PROVE IInv'
    OBVIOUS
  <2>1. CASE clock
    BY <2>1, ClockPreserves
  <2>2. ASSUME NEW t \in Tasks, step(t) PROVE IInv'
    BY <2>2, RegisterPreserves, UnRegisterPreserves, NotDuePreserves, CallSinglePreserves,
       CallContinuePreserves DEF step
  <2>3. CASE UNCHANGED vars
    BY <2>3 DEF vars, IInv, TypeOK, DueInv, DueAt, LastLook, BeginOfSecond
  <2>4. QED
    BY <2>1, <2>2, <2>3 DEF Next
<1>2. QED
  BY InitIInv, <1>1, PTL DEF Spec

(* No registered task is left behind its time (timerThr.c:25-63): however  *)
(* the signs of the comparison are mixed, it misses no call.               *)
THEOREM CallsAreOnTime == Spec => []OnTime
<1>1. IInv => OnTime
  <2> SUFFICES ASSUME IInv, NEW t \in Tasks, mode[t] # "none"
               PROVE  now <= stCheckTime[t] + MaxGap
    BY DEF OnTime
  <2>1. DueAt(t) /\ LastLook(t) \in Int
    BY DEF IInv, TypeOK, DueInv, LastLook, Never
  <2>2. QED
    BY <2>1, TimerAssumption DEF IInv, TypeOK, DueAt
<1>2. QED
  BY <1>1, Invariance, PTL

(* A continuing task is called at most once in each period                 *)
(* (timerThr.c:43-58).                                                     *)
THEOREM CallsKeepTheirPeriod == Spec => PeriodKept
<1> DEFINE Kept(t) ==
      calledAt[t] # Never /\ calledAt'[t] \notin {calledAt[t], Never}
        => BeginOfSecond(calledAt'[t]) >= BeginOfSecond(calledAt[t]) + u32Time[t]
<1>1. IInv /\ [Next]_vars => [\A t \in Tasks : Kept(t)]_vars
  <2> SUFFICES ASSUME IInv, Next, NEW t \in Tasks, calledAt[t] # Never,
                      calledAt'[t] \notin {calledAt[t], Never}
               PROVE  BeginOfSecond(calledAt'[t]) >= BeginOfSecond(calledAt[t]) + u32Time[t]
    BY Zenon
  <2>1. callSingle(t) \/ callContinue(t)
    BY DEF IInv, TypeOK, Next, clock, step, RegisterProc, UnRegisterProc, notDue, visit,
           callSingle, callContinue
  <2>2. /\ calledAt'[t] = now
        /\ Due(stCheckTime[t], u32Time[t])
        /\ mode[t] # "none"
        /\ visited[t] = Never \/ now >= visited[t] + Interval
    BY <2>1 DEF IInv, TypeOK, visit, callSingle, callContinue
  <2>3. /\ now \in 0 .. Horizon /\ now \in Nat /\ stCheckTime[t] \in Nat
        /\ u32Time[t] \in Times /\ calledAt[t] \in Nat /\ visited[t] \in Int
    BY <2>2, TimerAssumption DEF IInv, TypeOK, Never
  <2>4. DueAt(t)
    BY <2>2 DEF IInv, DueInv
  <2>5. stCheckTime[t] < now \/ stCheckTime[t] - now >= u32Time[t]
    BY <2>2, <2>3, DueMeans
  <2>6. /\ BeginOfSecond(calledAt[t]) \in Nat /\ BeginOfSecond(calledAt[t]) <= calledAt[t]
        /\ u32Time[t] \in Nat
    BY <2>3, Begin, TimerAssumption
  <2>7. calledAt[t] < now
    BY <2>2, <2>3, <2>4, TimerAssumption DEF DueAt, Never
  <2>8. stCheckTime[t] <= now
    BY <2>3, <2>4, <2>5, <2>6, <2>7 DEF DueAt
  <2>9. stCheckTime[t] <= BeginOfSecond(now)
    BY <2>3, <2>4, <2>8, BegunBefore DEF DueAt
  <2>10. QED
    BY <2>2, <2>4, <2>9 DEF DueAt
<1>2. QED
  BY <1>1, Invariance, PTL DEF Spec, PeriodKept
-----------------------------------------------------------------------------
(* The upload keeps the types of its variables: the countdowns stay above  *)
(* zero where they are counted down.                                       *)
LEMMA UploadTypesKept ==
  ASSUME UploadInv, TaskNext
  PROVE  UploadTypeOK'
<1> USE DEF UploadInv, UploadTypeOK, CtrlTypeOK, SysTypeOK, CpcS, Fields, sysVars, uploadVars
<1>1. HeatTicks \in Nat /\ HeatTicks \in 0 .. HeatTicks
      /\ RetryTicks \in Nat /\ RetryTicks \in 0 .. RetryTicks /\ MaxTasks \in Nat
  BY TickAssumption, MaxTasksAssumption
<1>2. CASE keyStart
  BY <1>1, <1>2 DEF keyStart
<1>3. CASE keyRegister
  <2>1. runState' \in RunStates /\ registered' \in BOOLEAN /\ keyAt' \in {"idle", "exec", "run"}
    BY <1>3 DEF keyRegister, setRunState, RunStates
  <2>2. QED
    BY <1>1, <1>3, <2>1 DEF keyRegister
<1>4. CASE keyExit
  BY <1>1, <1>4, ZenonT(60) DEF keyExit, setRunState, RunStates
<1>5. CASE publish
  BY <1>1, <1>5 DEF publish, setServerState, ctrlVars
<1>6. CASE callback
  <2>1. CASE tick /\ UNCHANGED uploadVars
    BY <1>1, <2>1 DEF tick
  <2>2. CASE enterCase /\ UNCHANGED uploadVars
    BY <1>1, <2>2 DEF enterCase, CaseOf
  <2>3. CASE startHeat /\ UNCHANGED uploadVars
    BY <1>1, <2>3 DEF startHeat
  <2>4. CASE startCount /\ UNCHANGED uploadVars
    <3>1. heatCount' \in 0 .. HeatTicks /\ isValid' \in BOOLEAN
      BY <1>1, <2>4 DEF startCount
    <3>2. QED
      BY <2>4, <3>1 DEF startCount
  <2>5. CASE countDown /\ UNCHANGED uploadVars
    <3>1. heatCount' \in 0 .. HeatTicks
      BY <1>1, <2>5 DEF countDown, CountsInv
    <3>2. flash' \in BOOLEAN
      BY <2>5, Zenon DEF countDown
    <3>3. QED
      BY <2>5, <3>1, <3>2 DEF countDown
  <2>6. CASE stopHeat /\ UNCHANGED uploadVars
    BY <1>1, <2>6 DEF stopHeat
  <2>7. CASE chkLink /\ UNCHANGED uploadVars
    BY <1>1, <2>7 DEF chkLink
  <2>8. CASE execCheck /\ UNCHANGED uploadVars
    BY <1>1, <2>8 DEF execCheck
  <2>9. CASE retryLink /\ UNCHANGED uploadVars
    BY <1>1, <2>9 DEF retryLink, CountsInv
  <2>10. CASE report /\ UNCHANGED uploadVars
    <3>1. flash' \in BOOLEAN
      BY <2>10, Zenon DEF report
    <3>2. QED
      BY <2>10, <3>1 DEF report
  <2>11. CASE reportDone /\ UNCHANGED uploadVars
    BY <1>1, <2>11 DEF reportDone
  <2>12. CASE beep /\ UNCHANGED uploadVars
    BY <1>1, <2>12 DEF beep
  <2>13. CASE shoot /\ photoNo' = taskNo
              /\ UNCHANGED <<keyAt, taskNo, hpc, stillRunning, answered, reply, numbers,
                             mixedUp>>
    BY <1>1, <2>13 DEF shoot
  <2>14. QED
    BY <1>6, <2>1, <2>2, <2>3, <2>4, <2>5, <2>6, <2>7, <2>8, <2>9, <2>10, <2>11, <2>12,
       <2>13, Zenon DEF callback
<1> USE DEF goes, kept, curlKept
<1>7. CASE notSent \/ fdset \/ select \/ badReply
  <2>1. CASE notSent
    BY <2>1 DEF notSent
  <2>2. CASE fdset
    BY <2>2 DEF fdset
  <2>3. CASE select
    BY <2>3 DEF select
  <2>4. CASE badReply
    BY <2>4 DEF badReply
  <2>5. QED
    BY <1>7, <2>1, <2>2, <2>3, <2>4
<1>8. CASE sendPostFile \/ firstPerform
  BY <1>8, ZenonT(60) DEF sendPostFile, firstPerform
<1>9. CASE perform
  <2>1. stillRunning' \in BOOLEAN
    BY <1>9, Zenon DEF perform
  <2>2. QED
    BY <1>9, <2>1 DEF perform
<1>10. CASE otherReply \/ goodReply \/ storeValid
  BY <1>10, ZenonT(60) DEF otherReply, goodReply, storeValid
<1>11. CASE store("percent", "result") \/ store("result", "valid")
  <2>1. numbers' \in [Fields -> 0 .. taskNo]
    BY <1>11 DEF store
  <2>2. /\ cpc = "upload" /\ hpc' \in {"result", "valid"} /\ cpc' = cpc
        /\ UNCHANGED <<ctrlVars, sysVars, keyAt, taskNo, photoNo, stillRunning, answered,
                       reply, mixedUp>>
    BY <1>11 DEF store, ctrlVars
  <2>3. QED
    BY <2>1, <2>2 DEF ctrlVars
<1>12. CASE restart
  <2>1. /\ heatCount' \in 0 .. HeatTicks /\ runState' \in RunStates
        /\ retryCount' \in 0 .. RetryTicks /\ photoNo' \in 0 .. taskNo'
        /\ numbers' \in [Fields -> 0 .. taskNo'] /\ taskNo' \in 0 .. MaxTasks
    BY <1>1, <1>12 DEF restart, RunStates
  <2>2. /\ registered' \in BOOLEAN /\ heater' \in BOOLEAN /\ flash' \in BOOLEAN
        /\ isValid' \in BOOLEAN /\ serverState' \in BOOLEAN /\ stillRunning' \in BOOLEAN
        /\ answered' \in BOOLEAN /\ mixedUp' \in BOOLEAN
    BY <1>12 DEF restart
  <2>3. QED
    BY <1>12, <2>1, <2>2 DEF restart
<1>13. QED
  BY <1>2, <1>3, <1>4, <1>5, <1>6, <1>7, <1>8, <1>9, <1>10, <1>11, <1>12, Zenon
     DEF TaskNext, req_reply

(* A countdown that is counted down is above zero, and nothing happens     *)
(* before the first task.                                                  *)
LEMMA CountsKept ==
  ASSUME UploadInv, TaskNext
  PROVE  /\ CountsInv'
         /\ (hpc \in {"percent", "result", "valid"} => answered = TRUE)'
         /\ (taskNo = 0 => cpc = "none" /\ registered = FALSE /\ keyAt = "idle")'
<1> USE DEF UploadInv, UploadTypeOK, CtrlTypeOK, CountsInv, sysVars, ctrlVars, uploadVars
<1>1. HeatTicks \in Nat \ {0} /\ RetryTicks \in Nat \ {0}
  BY TickAssumption
<1>2. CASE keyStart \/ keyRegister \/ keyExit \/ publish
  BY <1>2 DEF keyStart, keyRegister, keyExit, publish
<1>3. CASE callback
  <2>1. CASE tick \/ startHeat \/ startCount \/ stopHeat \/ chkLink
    BY <1>1, <1>3, <2>1 DEF callback, tick, startHeat, startCount, stopHeat, chkLink
  <2>2. CASE enterCase
    BY <1>3, <2>2 DEF callback, enterCase, CaseOf
  <2>3. CASE countDown /\ UNCHANGED uploadVars
    <3>1. /\ cpc' \in {"stopheat", "none"} /\ heatCount' \in Nat
          /\ heatCount' = 0 => cpc' = "stopheat"
          /\ UNCHANGED <<state, retryCount, hpc, answered, taskNo, registered, keyAt>>
          /\ cpc # "none" /\ taskNo # 0
      BY <1>1, <2>3 DEF countDown
    <3>2. QED
      BY <3>1
  <2>7. CASE execCheck /\ UNCHANGED uploadVars
    BY <2>7 DEF execCheck
  <2>8. CASE report /\ UNCHANGED uploadVars
    <3>1. /\ cpc = "report" /\ cpc' = "done"
          /\ UNCHANGED <<state, heatCount, retryCount, hpc, answered, taskNo>>
      BY <2>8 DEF report
    <3>2. QED
      BY <3>1
  <2>4. CASE (retryLink \/ reportDone \/ beep) /\ UNCHANGED uploadVars
    BY <2>4 DEF retryLink, reportDone, beep
  <2>5. CASE shoot
    BY <1>3, <2>5 DEF callback, shoot
  <2>6. QED
    BY <1>3, <2>1, <2>2, <2>3, <2>4, <2>5, <2>7, <2>8, Zenon DEF callback
<1> USE DEF goes, kept, curlKept
<1>4. CASE notSent \/ sendPostFile \/ firstPerform \/ fdset \/ select \/ perform
  BY <1>4 DEF notSent, sendPostFile, firstPerform, fdset, select, perform
<1>5. CASE req_reply
  BY <1>5 DEF req_reply, otherReply, badReply, goodReply, store, storeValid
<1>6. CASE restart
  BY <1>1, <1>6 DEF restart
<1>7. QED
  BY <1>2, <1>3, <1>4, <1>5, <1>6, Zenon DEF TaskNext

(* The report of the task, as far as its upload has come. *)
LEMMA OwnKept ==
  ASSUME UploadInv, TaskNext, mixedUp' = FALSE, taskNo' > 0
  PROVE  OwnInv'
<1> USE DEF UploadInv, UploadTypeOK, CtrlTypeOK, Fields
<1>1. CASE keyStart
  <2>1. cpc \in {"none", "found", "upload", "beep"}
    BY <1>1 DEF keyStart
  <2>2. /\ photoNo' # taskNo' /\ \A f \in Fields : numbers'[f] # taskNo'
        /\ state' = 0 /\ cpc' = cpc
    BY <1>1 DEF keyStart
  <2>3. QED
    BY <2>1, <2>2 DEF OwnInv, Places
<1> USE DEF ToldInv, Untold, sysVars, uploadVars
<1>2. CASE keyRegister \/ keyExit \/ publish
  BY <1>2 DEF keyRegister, keyExit, publish, ctrlVars, OwnInv, Places
<1>3. CASE callback
  <2>1. OwnInv
    BY <1>3 DEF callback
  <2>2. CASE tick /\ UNCHANGED uploadVars
    BY <2>1, <2>2 DEF tick, OwnInv, Places
  <2>3. CASE enterCase /\ UNCHANGED uploadVars
    BY <2>1, <2>3 DEF enterCase, CaseOf, OwnInv, Places
  <2>4. CASE (startHeat \/ startCount) /\ UNCHANGED uploadVars
    BY <2>1, <2>4 DEF startHeat, startCount, OwnInv, Places
  <2>9. CASE countDown /\ UNCHANGED uploadVars
    <3>1. /\ cpc = "count" /\ cpc' \in {"stopheat", "none"}
          /\ UNCHANGED <<state, isValid, photoNo, taskNo, numbers, hpc, answered, reply>>
      BY <2>9 DEF countDown
    <3>2. QED
      BY <2>1, <3>1 DEF OwnInv, Places
  <2>5. CASE (stopHeat \/ chkLink \/ execCheck \/ retryLink) /\ UNCHANGED uploadVars
    BY <2>1, <2>5 DEF stopHeat, chkLink, execCheck, retryLink, OwnInv, Places
  <2>6. CASE report /\ UNCHANGED uploadVars
    <3>1. /\ cpc = "report" /\ cpc' = "done"
          /\ UNCHANGED <<state, isValid, photoNo, taskNo, numbers, hpc, answered, reply>>
      BY <2>6 DEF report
    <3>2. QED
      BY <2>1, <3>1 DEF OwnInv, Places
  <2>10. CASE (reportDone \/ beep) /\ UNCHANGED uploadVars
    BY <2>1, <2>10 DEF reportDone, beep, OwnInv, Places
  <2>7. CASE shoot /\ photoNo' = taskNo
              /\ UNCHANGED <<keyAt, taskNo, hpc, stillRunning, answered, reply, numbers,
                             mixedUp>>
    BY <2>1, <2>7 DEF shoot, OwnInv, Places
  <2>8. QED
    BY <1>3, <2>2, <2>3, <2>4, <2>5, <2>6, <2>7, <2>9, <2>10, Zenon DEF callback
<1> USE DEF goes, kept, curlKept
<1>4. CASE notSent \/ fdset \/ select \/ badReply
  BY <1>4 DEF notSent, fdset, select, badReply, OwnInv, Places
<1>5. CASE sendPostFile \/ firstPerform
  BY <1>5 DEF sendPostFile, firstPerform, OwnInv, Places
<1>12. CASE perform
  <2>1. OwnInv /\ hpc = "perform" /\ hpc' \in {"fdset", "none"} /\ cpc = "upload"
        /\ cpc' = (IF hpc' = "none" THEN "none" ELSE cpc)
        /\ UNCHANGED <<state, isValid, photoNo, taskNo, numbers, answered, reply>>
    BY <1>12 DEF perform
  <2>2. CASE photoNo # taskNo
    BY <2>1, <2>2 DEF OwnInv, Places
  <2>3. CASE photoNo = taskNo
    <3>1. state = 5 /\ ToldInv
      BY <2>1, <2>3 DEF OwnInv, Places
    <3>2. ToldInv'
      BY <2>1, <3>1
    <3>3. QED
      BY <2>1, <2>3, <3>1, <3>2 DEF OwnInv, Places
  <2>4. QED
    BY <2>2, <2>3
<1>6. CASE otherReply \/ goodReply
  BY <1>6 DEF otherReply, goodReply, OwnInv, Places
<1>7. ASSUME NEW field \in Fields, NEW to \in {"result", "valid"}, store(field, to),
             <<field, to>> \in {<<"percent", "result">>, <<"result", "valid">>}
      PROVE  OwnInv'
  <2>1. /\ OwnInv /\ cpc = "upload" /\ cpc' = cpc /\ hpc = field /\ hpc' = to
        /\ UNCHANGED <<state, isValid, photoNo, taskNo, answered, reply>>
    BY <1>7 DEF store
  <2>2. /\ field \in reply => numbers'[field] = photoNo
        /\ field \notin reply => numbers'[field] = numbers[field]
        /\ \A f \in Fields \ {field} : numbers'[f] = numbers[f]
    BY <1>7 DEF store
  <2>3. CASE photoNo # taskNo
    BY <2>1, <2>2, <2>3 DEF OwnInv
  <2>4. CASE photoNo = taskNo
    <3>1. state = 5 /\ ToldInv
      BY <2>1, <2>4 DEF OwnInv, Places
    <3>2. isValid = FALSE
      BY <1>7, <2>1, <3>1
    <3>3. answered = TRUE
      BY <1>7, <2>1
    <3>4. CASE field = "percent" /\ to = "result"
      BY <2>1, <2>2, <2>4, <3>1, <3>2, <3>3, <3>4 DEF OwnInv, Places
    <3>5. CASE field = "result" /\ to = "valid"
      BY <2>1, <2>2, <2>4, <3>1, <3>2, <3>3, <3>5 DEF OwnInv, Places
    <3>6. QED
      BY <1>7, <3>4, <3>5
  <2>5. QED
    BY <2>3, <2>4
<1>8. CASE storeValid
  <2>1. OwnInv /\ cpc = "upload" /\ cpc' = cpc /\ hpc = "valid" /\ hpc' = "perform"
        /\ isValid' = TRUE
        /\ UNCHANGED <<state, photoNo, taskNo, numbers, answered, reply>>
    BY <1>8 DEF storeValid
  <2>2. photoNo = taskNo \/ state = 0
    BY <2>1 DEF OwnInv, Places
  <2>3. CASE photoNo # taskNo
    BY <2>1, <2>2, <2>3 DEF OwnInv, Places
  <2>4. CASE photoNo = taskNo
    <3>1. state = 5 /\ ToldInv /\ answered = TRUE
      BY <2>1, <2>4 DEF OwnInv, Places
    <3>2. ToldInv'
      BY <2>1, <3>1
    <3>3. QED
      BY <2>1, <2>4, <3>1, <3>2 DEF OwnInv, Places
  <2>5. QED
    BY <2>3, <2>4
<1>9. CASE store("percent", "result") \/ store("result", "valid")
  BY <1>7, <1>9
<1>10. CASE restart
  BY <1>10 DEF restart, OwnInv, Places
<1>11. QED
  BY <1>1, <1>2, <1>3, <1>4, <1>5, <1>6, <1>7, <1>8, <1>9, <1>10, <1>12,
     Zenon DEF TaskNext, req_reply

LEMMA UploadInitInv == UploadInit => UploadInv
<1> SUFFICES ASSUME UploadInit PROVE UploadInv
  OBVIOUS
<1> USE DEF UploadInit, ctrlInit, initSysState
<1>1. UploadTypeOK
  <2>1. HeatTicks \in 0 .. HeatTicks /\ 0 \in 0 .. RetryTicks /\ 0 \in 0 .. MaxTasks
    BY TickAssumption, MaxTasksAssumption
  <2>2. numbers \in [Fields -> 0 .. taskNo] /\ photoNo \in 0 .. taskNo
    OBVIOUS
  <2>3. CtrlTypeOK
    <3>1. registered \in BOOLEAN /\ heater \in BOOLEAN /\ flash \in BOOLEAN
          /\ isValid \in BOOLEAN
      BY Zenon
    <3>2. QED
      BY <2>1, <3>1 DEF CtrlTypeOK, CpcS
  <2>5. SysTypeOK
    BY Zenon DEF SysTypeOK, RunStates
  <2>4. QED
    BY <2>1, <2>2, <2>3, <2>5 DEF UploadTypeOK
<1>2. QED
  BY <1>1 DEF UploadInv, CountsInv

LEMMA UploadInvHolds == TaskSpec => []UploadInv
<1>1. UploadInv /\ [TaskNext]_taskVars => UploadInv'
  <2> SUFFICES ASSUME UploadInv, [TaskNext]_taskVars PROVE UploadInv'
    OBVIOUS
  <2>1. CASE TaskNext
    BY <2>1, UploadTypesKept, CountsKept, OwnKept, Zenon DEF UploadInv
  <2>2. CASE UNCHANGED taskVars
    BY <2>2 DEF taskVars, ctrlVars, sysVars, uploadVars, UploadInv, UploadTypeOK, CtrlTypeOK,
       SysTypeOK, CountsInv, OwnInv, ToldInv, Untold
  <2>3. QED
    BY <2>1, <2>2
<1>2. QED
  BY UploadInitInv, <1>1, PTL DEF TaskSpec

(* The variables of the upload keep their types (sys_ctrl.c:303-413,       *)
(* httpThread.c:58-218), the countdowns of the state machine among them:   *)
(* neither goes below zero, whatever execTask does beside the callback.    *)
THEOREM UploadTypesHold == TaskSpec => []UploadTypeOK
<1>1. UploadInv => UploadTypeOK
  BY Zenon DEF UploadInv
<1>2. QED
  BY <1>1, UploadInvHolds, PTL

(* The report of a task is its own (sys_ctrl.c:307-397,                    *)
(* httpThread.c:58-218): for every number of tasks, every length of the    *)
(* countdowns, and however long the upload of an earlier task goes on.     *)
THEOREM ReportIsItsOwn == TaskSpec => []ReportIsOwn
<1>1. UploadInv => ReportIsOwn
  <2> SUFFICES ASSUME UploadInv, cpc = "report", mixedUp = FALSE
               PROVE  \A f \in Fields :
                        IF isValid THEN f \in reply => numbers[f] = taskNo
                        ELSE numbers[f] # taskNo
    BY DEF ReportIsOwn, UploadInv, UploadTypeOK
  <2>1. taskNo > 0 /\ OwnInv /\ hpc = "none" /\ state = 5
    BY DEF UploadInv, UploadTypeOK, CtrlTypeOK, OwnInv, Places
  <2>2. CASE photoNo = taskNo
    BY <2>1, <2>2 DEF OwnInv, ToldInv, Untold
  <2>3. CASE photoNo # taskNo
    BY <2>1, <2>3 DEF OwnInv
  <2>4. QED
    BY <2>2, <2>3
<1>2. QED
  BY <1>1, UploadInvHolds, PTL
-----------------------------------------------------------------------------
(* What After is: the least set with the next node in it that no pointer   *)
(* leads out of.                                                           *)
LEMMA AfterClosed ==
  ASSUME NEW nxt \in [Nodes -> Cells \cup {Null}], NEW n \in Nodes
  PROVE  /\ After(nxt, n) \subseteq Cells
         /\ nxt[n] \in After(nxt, n) \cup {Null}
         /\ Closed(nxt, After(nxt, n))
<1>1. After(nxt, n) \subseteq Cells
  BY DEF After
<1>2. nxt[n] \in After(nxt, n) \cup {Null}
  BY DEF After
<1>3. ASSUME NEW k \in After(nxt, n), nxt[k] # Null
      PROVE  nxt[k] \in After(nxt, n)
  <2>1. nxt[k] \in Cells
    BY <1>1, <1>3 DEF Nodes
  <2>2. ASSUME NEW S \in SUBSET Cells, nxt[n] \in S \cup {Null}, Closed(nxt, S)
        PROVE  nxt[k] \in S
    BY <1>3, <2>2 DEF After, Closed
  <2>3. QED
    BY <2>1, <2>2 DEF After
<1>4. QED
  BY <1>1, <1>2, <1>3 DEF Closed

LEMMA AfterLeast ==
  ASSUME NEW nxt \in [Nodes -> Cells \cup {Null}], NEW n \in Nodes, NEW S \in SUBSET Cells,
         nxt[n] \in S \cup {Null}, Closed(nxt, S)
  PROVE  After(nxt, n) \subseteq S
BY DEF After

(* A new node's pointer is set: the list is as it was. *)
LEMMA PointToFirst ==
  ASSUME NEW nxt \in [Nodes -> Cells \cup {Null}], NEW c \in Cells,
         c \notin After(nxt, ListHead), OnePointer(nxt), NoRing(nxt),
         NEW nx1 \in [Nodes -> Cells \cup {Null}],
         nx1[c] = nxt[ListHead], \A n \in Nodes \ {c} : nx1[n] = nxt[n]
  PROVE  /\ After(nx1, ListHead) = After(nxt, ListHead)
         /\ OnePointer(nx1) /\ NoRing(nx1)
         /\ \A m \in Cells : After(nx1, m) \subseteq After(nxt, m) \cup After(nxt, ListHead)
<1> DEFINE L == After(nxt, ListHead)
<1>1. c # ListHead /\ c \in Nodes /\ ListHead \in Nodes
  BY ListAssumption DEF Nodes
<1>2. nx1 \in [Nodes -> Cells \cup {Null}]
  OBVIOUS
<1>3. /\ nx1[c] = nxt[ListHead]
      /\ \A n \in Nodes : n # c => nx1[n] = nxt[n]
  BY <1>1
<1>4. L \subseteq Cells /\ nxt[ListHead] \in L \cup {Null} /\ Closed(nxt, L)
  BY <1>1, AfterClosed
<1>5. After(nx1, ListHead) = L
  <2>1. Closed(nx1, L)
    BY <1>3, <1>4 DEF Closed, Nodes
  <2>2. After(nx1, ListHead) \subseteq L
    BY <1>1, <1>2, <1>3, <1>4, <2>1, AfterLeast
  <2>3. DEFINE M == After(nx1, ListHead)
  <2>4. M \subseteq Cells /\ nx1[ListHead] \in M \cup {Null} /\ Closed(nx1, M)
    BY <1>1, <1>2, AfterClosed
  <2>5. c \notin M
    BY <2>2
  <2>6. nxt[ListHead] \in M \cup {Null} /\ Closed(nxt, M)
    BY <1>1, <1>3, <2>4, <2>5 DEF Closed, Nodes
  <2>7. L \subseteq M
    BY <1>1, <2>4, <2>6, AfterLeast
  <2>8. QED
    BY <2>2, <2>7
<1>6. OnePointer(nx1)
  <2>1. \A n \in L \cup {ListHead} : nx1[n] = nxt[n]
    BY <1>1, <1>3, <1>4 DEF Nodes
  <2>2. QED
    BY <1>5, <2>1 DEF OnePointer
<1>7. NoRing(nx1)
  <2> SUFFICES ASSUME NEW S \in SUBSET Cells, S # {}, \A n \in S : nx1[n] \in S
               PROVE  FALSE
    BY DEF NoRing
  <2>1. CASE c \notin S
    BY <1>3, <2>1 DEF NoRing, Nodes
  <2>2. CASE c \in S
    <3>1. nxt[ListHead] \in S \cap L
      BY <1>3, <1>4, <2>2, ListAssumption
    <3>2. \A n \in S \cap L : nxt[n] \in S \cap L
      BY <1>3, <1>4, ListAssumption DEF Closed, Nodes
    <3>3. QED
      BY <3>1, <3>2 DEF NoRing
  <2>3. QED
    BY <2>1, <2>2
<1>8. ASSUME NEW m \in Cells
      PROVE  After(nx1, m) \subseteq After(nxt, m) \cup L
  <2> DEFINE S == After(nxt, m) \cup L
  <2>1. /\ After(nxt, m) \subseteq Cells /\ nxt[m] \in After(nxt, m) \cup {Null}
        /\ Closed(nxt, After(nxt, m))
    BY AfterClosed DEF Nodes
  <2>2. S \in SUBSET Cells
    BY <1>4, <2>1
  <2>3. \A k \in S : nx1[k] \in S \cup {Null}
    BY <1>3, <1>4, <2>1 DEF Closed, Nodes
  <2>4. nx1[m] \in S \cup {Null}
    BY <1>3, <1>4, <2>1 DEF Nodes
  <2>5. m \in Nodes /\ Closed(nx1, S)
    BY <2>3 DEF Closed, Nodes
  <2>6. QED
    BY ONLY <1>2, <2>2, <2>4, <2>5, AfterLeast
<1>9. QED
  BY <1>2, <1>5, <1>6, <1>7, <1>8

(* It becomes the first node. *)
LEMMA PointHead ==
  ASSUME NEW nxt \in [Nodes -> Cells \cup {Null}], NEW c \in Cells,
         c \notin After(nxt, ListHead), nxt[c] = nxt[ListHead],
         OnePointer(nxt), NoRing(nxt),
         NEW nx1 \in [Nodes -> Cells \cup {Null}],
         nx1[ListHead] = c, \A n \in Nodes \ {ListHead} : nx1[n] = nxt[n]
  PROVE  /\ After(nx1, ListHead) = After(nxt, ListHead) \cup {c}
         /\ OnePointer(nx1) /\ NoRing(nx1)
         /\ \A m \in Cells : After(nx1, m) \subseteq After(nxt, m)
<1> DEFINE L == After(nxt, ListHead)
<1>1. c # ListHead /\ c \in Nodes /\ ListHead \in Nodes /\ c # Null
  BY ListAssumption DEF Nodes
<1>2. nx1 \in [Nodes -> Cells \cup {Null}]
  OBVIOUS
<1>3. /\ nx1[ListHead] = c
      /\ \A n \in Nodes : n # ListHead => nx1[n] = nxt[n]
      /\ \A n \in Cells : nx1[n] = nxt[n]
  BY <1>1, ListAssumption DEF Nodes
<1>4. L \subseteq Cells /\ nxt[ListHead] \in L \cup {Null} /\ Closed(nxt, L)
  BY <1>1, AfterClosed
<1>5. After(nx1, ListHead) = L \cup {c}
  <2>1. Closed(nx1, L \cup {c})
    BY <1>3, <1>4 DEF Closed
  <2>2. After(nx1, ListHead) \subseteq L \cup {c}
    <3>1. L \cup {c} \in SUBSET Cells /\ nx1[ListHead] \in (L \cup {c}) \cup {Null}
      BY <1>3, <1>4
    <3>2. QED
      BY ONLY <1>1, <1>2, <2>1, <3>1, AfterLeast
  <2> DEFINE M == After(nx1, ListHead)
  <2>4. M \subseteq Cells /\ nx1[ListHead] \in M \cup {Null} /\ Closed(nx1, M)
    BY <1>1, <1>2, AfterClosed
  <2>5. c \in M
    BY <1>1, <1>3, <2>4
  <2>6. nxt[ListHead] \in M \cup {Null} /\ Closed(nxt, M)
    BY <1>3, <2>4, <2>5 DEF Closed
  <2>7. L \subseteq M
    BY <1>1, <2>4, <2>6, AfterLeast
  <2>8. QED
    BY <2>2, <2>5, <2>7
<1>6. OnePointer(nx1)
  <2>1. SUFFICES ASSUME NEW m \in L \cup {c, ListHead}, NEW n \in L \cup {c, ListHead},
                        nx1[m] = nx1[n], nx1[m] # Null
                 PROVE  m = n
    BY <1>5 DEF OnePointer
  <2>2. \A k \in L \cup {c} : nx1[k] \in L \cup {Null} /\ nx1[k] # c
    BY <1>1, <1>3, <1>4 DEF Closed
  <2>3. \A k \in L \cup {c} : nx1[k] = nxt[IF k = c THEN ListHead ELSE k]
    BY <1>3, <1>4
  <2>4. QED
    BY <1>1, <1>3, <1>4, <2>1, <2>2, <2>3, ListAssumption DEF OnePointer
<1>7. NoRing(nx1)
  BY <1>3 DEF NoRing
<1>8. ASSUME NEW m \in Cells
      PROVE  After(nx1, m) \subseteq After(nxt, m)
  BY <1>3 DEF After, Closed
<1>9. QED
  BY <1>2, <1>5, <1>6, <1>7, <1>8

(* A node is taken out: one pointer to it, and none from it to itself. *)
LEMMA PointPast ==
  ASSUME NEW nxt \in [Nodes -> Cells \cup {Null}],
         OnePointer(nxt), NoRing(nxt),
         NEW prior \in After(nxt, ListHead) \cup {ListHead}, NEW tmp \in After(nxt, ListHead),
         nxt[prior] = tmp,
         NEW nx1 \in [Nodes -> Cells \cup {Null}],
         nx1[prior] = nxt[tmp], \A n \in Nodes \ {prior} : nx1[n] = nxt[n]
  PROVE  /\ After(nx1, ListHead) = After(nxt, ListHead) \ {tmp}
         /\ OnePointer(nx1) /\ NoRing(nx1)
         /\ \A m \in Cells : After(nx1, m) \subseteq After(nxt, m)
<1> DEFINE L == After(nxt, ListHead)
<1>1. L \subseteq Cells /\ nxt[ListHead] \in L \cup {Null} /\ Closed(nxt, L)
  BY AfterClosed DEF Nodes
<1>2. /\ prior \in Nodes /\ tmp \in Nodes /\ tmp \in Cells /\ ListHead \in Nodes
      /\ tmp # ListHead /\ tmp # Null
  BY <1>1, ListAssumption DEF Nodes
<1>3. prior # tmp /\ nxt[tmp] # tmp
  <2>1. \E n \in {tmp} : nxt[n] \notin {tmp}
    BY <1>2 DEF NoRing
  <2>2. QED
    BY <2>1
<1>4. nx1 \in [Nodes -> Cells \cup {Null}]
  OBVIOUS
<1>5. /\ nx1[prior] = nxt[tmp]
      /\ \A n \in Nodes : n # prior => nx1[n] = nxt[n]
  BY <1>2
<1>6. \A n \in L \cup {ListHead} : n # prior => nxt[n] # tmp
  BY <1>2 DEF OnePointer
<1>7. nxt[tmp] \in (L \ {tmp}) \cup {Null}
  BY <1>1, <1>3 DEF Closed
<1>8. After(nx1, ListHead) = L \ {tmp}
  <2>1. \A n \in L \cup {ListHead} : nx1[n] \in (L \ {tmp}) \cup {Null}
    BY <1>1, <1>2, <1>5, <1>6, <1>7 DEF Closed, Nodes
  <2>2. After(nx1, ListHead) \subseteq L \ {tmp}
    <3>1. L \ {tmp} \in SUBSET Cells /\ Closed(nx1, L \ {tmp})
      BY <1>1, <2>1 DEF Closed
    <3>2. QED
      BY ONLY <1>2, <1>4, <2>1, <3>1, AfterLeast
  <2> DEFINE M == After(nx1, ListHead)
  <2>3. M \subseteq Cells /\ nx1[ListHead] \in M \cup {Null} /\ Closed(nx1, M)
    BY <1>2, <1>4, AfterClosed
  <2>4. prior \in M \cup {ListHead}
    <3> SUFFICES ASSUME prior \notin M, prior # ListHead PROVE FALSE
      OBVIOUS
    <3>1. nxt[ListHead] \in M \cup {Null} /\ Closed(nxt, M)
      BY <1>2, <1>5, <2>3 DEF Closed, Nodes
    <3>2. L \subseteq M
      BY <1>2, <2>3, <3>1, AfterLeast
    <3>3. QED
      BY <3>2
  <2>5. nx1[prior] \in M \cup {Null}
    BY <2>3, <2>4 DEF Closed
  <2>6. /\ nxt[ListHead] \in M \cup {tmp} \cup {Null}
        /\ Closed(nxt, M \cup {tmp})
    BY <1>2, <1>5, <2>3, <2>5 DEF Closed, Nodes
  <2>7. L \subseteq M \cup {tmp}
    <3>1. M \cup {tmp} \in SUBSET Cells
      BY <1>2, <2>3
    <3>2. QED
      BY ONLY <1>2, <2>6, <3>1, AfterLeast, nxt \in [Nodes -> Cells \cup {Null}]
  <2>8. QED
    BY <2>2, <2>7
<1>9. OnePointer(nx1)
  <2>1. SUFFICES ASSUME NEW m \in (L \ {tmp}) \cup {ListHead},
                        NEW n \in (L \ {tmp}) \cup {ListHead},
                        nx1[m] = nx1[n], nx1[m] # Null
                 PROVE  m = n
    BY <1>8 DEF OnePointer
  <2>2. \A k \in (L \ {tmp}) \cup {ListHead} :
          nx1[k] = nxt[IF k = prior THEN tmp ELSE k]
    BY <1>1, <1>5 DEF Nodes
  <2>3. QED
    BY <1>2, <2>1, <2>2 DEF OnePointer
<1>10. NoRing(nx1)
  <2> SUFFICES ASSUME NEW S \in SUBSET Cells, S # {}, \A n \in S : nx1[n] \in S
               PROVE  FALSE
    BY DEF NoRing
  <2>1. CASE prior \notin S
    BY <1>5, <2>1 DEF NoRing, Nodes
  <2>2. CASE prior \in S
    <3>1. \A n \in S \cup {tmp} : nxt[n] \in S \cup {tmp}
      BY <1>5, <2>2 DEF Nodes
    <3>2. S \cup {tmp} \in SUBSET Cells /\ S \cup {tmp} # {}
      BY <1>2
    <3>3. \E n \in S \cup {tmp} : nxt[n] \notin S \cup {tmp}
      BY <3>2 DEF NoRing
    <3>4. QED
      BY <3>1, <3>3
  <2>3. QED
    BY <2>1, <2>2
<1>11. ASSUME NEW m \in Cells
       PROVE  After(nx1, m) \subseteq After(nxt, m)
  <2> DEFINE S == After(nxt, m)
  <2>1. S \subseteq Cells /\ nxt[m] \in S \cup {Null} /\ Closed(nxt, S)
    BY AfterClosed DEF Nodes
  <2>2. \A k \in S \cup {m} : nx1[k] \in S \cup {Null}
    BY <1>2, <1>5, <2>1 DEF Closed, Nodes
  <2>3. QED
    BY <1>4, <2>1, <2>2, AfterLeast DEF Closed, Nodes
<1>12. QED
  BY <1>4, <1>8, <1>9, <1>10, <1>11

(* Without a ring no node leads back to itself. *)
LEMMA NoWayBack ==
  ASSUME NEW nxt \in [Nodes -> Cells \cup {Null}], NoRing(nxt), NEW c \in Cells
  PROVE  c \notin After(nxt, c)
<1> SUFFICES ASSUME c \in After(nxt, c) PROVE FALSE
  OBVIOUS
<1> DEFINE R == {m \in Cells : c \in After(nxt, m)}
<1>1. ASSUME NEW m \in R
      PROVE  nxt[m] \in R
  <2>1. m \in Cells /\ m \in Nodes /\ c \in After(nxt, m)
    BY DEF Nodes
  <2>2. CASE nxt[m] = Null
    <3>1. {} \in SUBSET Cells /\ nxt[m] \in {} \cup {Null} /\ Closed(nxt, {})
      BY <2>2 DEF Closed
    <3>2. QED
      BY ONLY <2>1, <3>1, AfterLeast, nxt \in [Nodes -> Cells \cup {Null}]
  <2>3. CASE nxt[m] # Null
    <3> DEFINE k == nxt[m]
               A == After(nxt, k)
    <3>1. k \in Cells /\ k \in Nodes
      BY <2>1, <2>3 DEF Nodes
    <3>2. A \subseteq Cells /\ nxt[k] \in A \cup {Null} /\ Closed(nxt, A)
      BY <3>1, AfterClosed
    <3>3. A \cup {k} \in SUBSET Cells /\ Closed(nxt, A \cup {k})
      BY <3>1, <3>2 DEF Closed
    <3>4. After(nxt, m) \subseteq A \cup {k}
      BY <2>1, <3>3, AfterLeast
    <3>5. QED
      BY <2>1, <3>1, <3>4
  <2>4. QED
    BY <2>2, <2>3
<1>2. R \in SUBSET Cells /\ c \in R
  OBVIOUS
<1>3. QED
  BY <1>1, <1>2 DEF NoRing

(* The search of delNode stays on the list. *)
LEMMA SearchFinds ==
  ASSUME ListTypeOK, NEW task, NEW n \in Searched(task)
  PROVE  Between(n, next[n]) /\ n \in Nodes /\ next[n] \in Cells /\ procId[next[n]] = task
<1>1. /\ next \in [Nodes -> Cells \cup {Null}] /\ ListHead \in Nodes
      /\ Listed \cup {ListHead} \in SUBSET Nodes
      /\ next[ListHead] \in Listed \cup {Null} /\ Closed(next, Listed)
  BY AfterClosed DEF ListTypeOK, Listed, Nodes
<1>2. Passes(Listed \cup {ListHead}, task)
  BY <1>1 DEF Passes, Closed
<1>3. n \in Listed \cup {ListHead}
  BY <1>1, <1>2 DEF Searched, Passed
<1>4. next[n] # Null /\ procId[next[n]] = task
  BY DEF Searched
<1>5. QED
  BY <1>1, <1>3, <1>4 DEF Between, Closed

(* Every registration that has a node gets a number. *)
LEMMA RegisteringKept ==
  ASSUME ListTypeOK, HandsInv, ListNext
  PROVE  lastId' + Cardinality(Registering') <= MaxIds
<1> USE DEF Registering, ListTypeOK
<1>1. IsFiniteSet(Registering) /\ Cardinality(Registering) \in Nat
  <2>1. IsFiniteSet(Clients) /\ Registering \subseteq Clients
    BY ListAssumption DEF Clients
  <2>2. QED
    BY <2>1, FS_Subset, FS_CardinalityType
<1>2. lastId \in Nat /\ lastId + Cardinality(Registering) <= MaxIds /\ MaxIds \in Nat
  BY ListAssumption DEF HandsInv
<1>3. ASSUME NEW c \in Clients, regMalloc(c)
      PROVE  lastId' + Cardinality(Registering') <= MaxIds
  <2>1. Registering' = Registering \cup {c} /\ lastId' = lastId
    BY <1>3 DEF regMalloc
  <2>2. Cardinality(Registering \cup {c}) = Cardinality(Registering) + 1
    <3>1. c \notin Registering
      BY <1>3 DEF regMalloc
    <3>2. QED
      BY <1>1, <3>1, FS_AddElement
  <2>3. lastId + Cardinality(Registering) < MaxIds
    BY <1>3 DEF regMalloc
  <2>4. Cardinality(Registering \cup {c}) \in Nat
    BY <1>1, FS_AddElement, FS_CardinalityType
  <2>5. QED
    BY ONLY <1>1, <1>2, <2>1, <2>2, <2>3, <2>4
<1>4. ASSUME NEW c \in Clients, regFill(c)
      PROVE  lastId' + Cardinality(Registering') <= MaxIds
  <2>1. Registering' = Registering \ {c} /\ c \in Registering /\ lastId' = lastId + 1
    BY <1>4 DEF regFill
  <2>2. Cardinality(Registering \ {c}) = Cardinality(Registering) - 1
    BY <1>1, <2>1, FS_RemoveElement
  <2>3. QED
    BY ONLY <1>1, <1>2, <2>1, <2>2
<1>5. ASSUME NEW c \in Clients, regLock(c) \/ regLink(c) \/ unregLock(c) \/ unregCut(c)
      PROVE  lastId' + Cardinality(Registering') <= MaxIds
  <2>1. Registering' = Registering /\ lastId' = lastId
    BY <1>5 DEF regLock, regLink, unregLock, unregCut, heapVars, unlink
  <2>2. QED
    BY <1>2, <2>1
<1>6. CASE timerTaskChkThr
  <2>1. Registering' = Registering /\ lastId' = lastId
    BY <1>6 DEF timerTaskChkThr, wrap, goOn, look, call, after, delSingle, advance, heapVars,
       clientVars, unlink
  <2>2. QED
    BY <1>2, <2>1
<1>7. QED
  BY <1>3, <1>4, <1>5, <1>6, Zenon DEF ListNext, client

(* The pointers and the numbers keep their types, and whoever works on a   *)
(* node has one.                                                           *)
LEMMA ClientTypesKept ==
  ASSUME ListTypeOK, HandsInv, NEW c \in Clients, client(c)
  PROVE  ListTypeOK' /\ HandsInv'
<1> USE DEF ListTypeOK, HandsInv, heapVars, timerVars, pastVars
<1>1. lastId' + Cardinality(Registering') <= MaxIds
  BY RegisteringKept DEF ListNext
<1>2. /\ c # "timer" /\ ListHead \in Nodes /\ Cells \subseteq Nodes
      /\ Null \notin Nodes /\ MaxIds \in Nat /\ lastId \in Nat
  BY ListAssumption DEF Nodes, Clients
<1>3. CASE regMalloc(c)
  BY <1>1, <1>2, <1>3 DEF regMalloc
<1>4. CASE regLock(c)
  BY <1>1, <1>2, <1>4 DEF regLock
<1>5. CASE regLink(c)
  BY <1>1, <1>2, <1>5 DEF regLink
<1>6. CASE regFill(c)
  <2>1. lastId + 1 \in 1 .. MaxIds
    <3>1. c \in Registering /\ IsFiniteSet(Registering)
      <4>1. IsFiniteSet(Clients) /\ Registering \subseteq Clients
        BY ListAssumption DEF Clients, Registering
      <4>2. QED
        BY <1>6, <4>1, FS_Subset DEF regFill, Registering
    <3>2. Cardinality(Registering) \in Nat /\ Cardinality(Registering) # 0
      BY <3>1, FS_CardinalityType, FS_EmptySet
    <3>3. QED
      BY <1>2, <3>2
  <2>2. /\ procId' \in [Cells -> 0 .. MaxIds]
        /\ taskMode' \in [Cells -> {"none", "SINGLE", "CONTINUE"}]
    BY <1>6, <2>1 DEF regFill
  <2>3. /\ id' \in [Clients -> 0 .. MaxIds]
        /\ lpc' \in [Clients -> {"idle", "lock", "link", "fill", "has", "cut", "lost"}]
        /\ \A d \in Clients : lpc'[d] \in {"has", "cut"} => id'[d] \in 1 .. lastId'
    BY <1>2, <1>6, <2>1 DEF regFill
  <2>4. QED
    BY <1>1, <1>2, <1>6, <2>1, <2>2, <2>3, ZenonT(60) DEF regFill
<1>7. CASE unregLock(c)
  <2>1. CASE /\ locked' = Endless(id[c])
             /\ lpc' = [lpc EXCEPT ![c] = IF Endless(id[c]) THEN "lost" ELSE "idle"]
             /\ UNCHANGED <<prev, node>>
    <3>1. locked' \in BOOLEAN
      BY <2>1, Zenon DEF Endless
    <3>2. PICK w \in {"lost", "idle"} : lpc' = [lpc EXCEPT ![c] = w]
      BY <2>1
    <3>3. QED
      BY <1>1, <1>2, <1>7, <2>1, <3>1, <3>2 DEF unregLock
  <2>2. ASSUME NEW n \in Searched(id[c]), prev' = [prev EXCEPT ![c] = n],
               node' = [node EXCEPT ![c] = next[n]], lpc' = [lpc EXCEPT ![c] = "cut"],
               locked' = TRUE
        PROVE  ListTypeOK' /\ HandsInv'
    <3>1. n \in Nodes /\ next[n] \in Cells
      BY <2>2, SearchFinds
    <3>2. QED
      BY <1>1, <1>2, <1>7, <2>2, <3>1 DEF unregLock
  <2>3. QED
    BY <1>7, <2>1, <2>2 DEF unregLock
<1>8. CASE unregCut(c)
  <2>1. gone' \in SUBSET (1 .. MaxIds) /\ called' \subseteq gone'
    <3>1. id[c] \in 1 .. MaxIds
      BY <1>2, <1>8 DEF unregCut
    <3>2. gone' = gone \cup {id[c]} /\ called' = called
      BY <1>8 DEF unregCut
    <3>3. QED
      BY <3>1, <3>2
  <2>2. next' \in [Nodes -> Cells \cup {Null}] /\ allocated' \subseteq Cells
    BY <1>2, <1>8 DEF unregCut, unlink
  <2>3. QED
    BY <1>1, <1>2, <1>8, <2>1, <2>2, ZenonT(60) DEF unregCut, unlink
<1>9. QED
  BY <1>3, <1>4, <1>5, <1>6, <1>7, <1>8 DEF client

LEMMA TimerTypesKept ==
  ASSUME ListTypeOK, HandsInv, timerTaskChkThr
  PROVE  ListTypeOK' /\ HandsInv'
<1> USE DEF ListTypeOK, HandsInv, heapVars, clientVars
<1>1. lastId' + Cardinality(Registering') <= MaxIds
  BY RegisteringKept DEF ListNext
<1>2. /\ "timer" \notin Clients /\ ListHead \in Nodes /\ Cells \subseteq Nodes
      /\ Null \notin Nodes /\ MaxIds \in Nat /\ lastId \in Nat
  BY ListAssumption DEF Nodes, Clients
<1>3. CASE wrap
  BY <1>1, <1>2, <1>3 DEF wrap, pastVars
<1>4. CASE goOn
  BY <1>1, <1>2, <1>4 DEF goOn, pastVars
<1>5. CASE look
  BY <1>1, <1>2, <1>5 DEF look, pastVars
<1>6. CASE call
  BY <1>1, <1>2, <1>6 DEF call
<1>7. CASE after
  <2>1. ASSUME NEW n \in Searched(procId[cur]), prev' = [prev EXCEPT !["timer"] = n],
               cut' = next[n], tpc' = "cut", bare' \in BOOLEAN
        PROVE  ListTypeOK' /\ HandsInv'
    <3>1. n \in Nodes /\ next[n] \in Cells
      BY SearchFinds
    <3>2. QED
      BY <1>1, <1>2, <1>7, <2>1, <3>1 DEF after
  <2>2. CASE tpc' \in {"lost", "next"} /\ UNCHANGED <<prev, cut, bare>>
    BY <1>1, <1>2, <1>7, <2>2 DEF after
  <2>3. QED
    BY <1>7, <2>1, <2>2 DEF after
<1>8. CASE delSingle
  <2>1. gone' \in SUBSET (1 .. MaxIds) /\ called' \subseteq gone'
    <3>1. {procId[cut]} \ {0} \subseteq 1 .. MaxIds
      BY <1>2, <1>8 DEF delSingle
    <3>2. gone' = gone \cup ({procId[cut]} \ {0}) /\ called' = called
      BY <1>8 DEF delSingle
    <3>3. QED
      BY <3>1, <3>2
  <2>2. next' \in [Nodes -> Cells \cup {Null}] /\ allocated' \subseteq Cells
    BY <1>2, <1>8 DEF delSingle, unlink
  <2>3. QED
    BY <1>1, <1>2, <1>8, <2>1, <2>2 DEF delSingle, unlink
<1>9. CASE advance
  BY <1>1, <1>2, <1>9 DEF advance
<1>10. QED
  BY <1>3, <1>4, <1>5, <1>6, <1>7, <1>8, <1>9 DEF timerTaskChkThr

(* The mutex is released only by the thread that has it, or stolen says so. *)
LEMMA LockKept ==
  ASSUME ListTypeOK, LockInv, ListNext, stolen' = FALSE
  PROVE  LockInv'
<1> USE DEF ListTypeOK, LockInv, InSection
<1>1. ASSUME NEW c \in Clients, regMalloc(c) \/ regLink(c)
      PROVE  LockInv'
  BY <1>1 DEF regMalloc, regLink, timerVars
<1>2. ASSUME NEW c \in Clients, regLock(c)
      PROVE  LockInv'
  BY <1>2 DEF regLock, timerVars
<1>3. ASSUME NEW c \in Clients, regFill(c) \/ unregCut(c)
      PROVE  LockInv'
  <2>1. InSection(c) /\ ~InSection(c)' /\ UNCHANGED <<tpc, guarded>>
        /\ \A d \in Clients : d # c => lpc'[d] = lpc[d]
    BY <1>3 DEF regFill, unregCut, timerVars
  <2>2. \A d \in Clients : ~InSection(d)'
    BY <2>1
  <2>3. ~(tpc # "lock" /\ guarded = TRUE)
    BY <2>1
  <2>4. QED
    BY <2>1, <2>2, <2>3
<1>4. ASSUME NEW c \in Clients, unregLock(c)
      PROVE  LockInv'
  <2>1. /\ \A d \in Clients : ~InSection(d)
        /\ ~(tpc # "lock" /\ guarded = TRUE)
        /\ UNCHANGED <<tpc, guarded>>
    BY <1>4 DEF unregLock, timerVars
  <2>2. CASE locked' = TRUE
    <3>1. \A d \in Clients : d # c => lpc'[d] = lpc[d]
      BY <1>4 DEF unregLock
    <3>2. QED
      BY <2>1, <2>2, <3>1
  <2>3. CASE locked' # TRUE
    <3>1. \A d \in Clients : ~InSection(d)'
      BY <1>4, <2>1, <2>3 DEF unregLock
    <3>2. QED
      BY <2>1, <3>1
  <2>4. QED
    BY <2>2, <2>3
<1>5. CASE wrap \/ goOn
  BY <1>5 DEF wrap, goOn, clientVars
<1>6. CASE look \/ call
  BY <1>6 DEF look, call, clientVars
<1>7. CASE after \/ delSingle
  BY <1>7 DEF after, delSingle, clientVars
<1>8. CASE advance
  <2>1. \A c \in Clients : ~InSection(c)
    BY <1>8 DEF advance
  <2>2. QED
    BY <1>8, <2>1 DEF advance, clientVars
<1>9. QED
  BY <1>1, <1>2, <1>3, <1>4, <1>5, <1>6, <1>7, <1>8, Zenon
     DEF ListNext, client, timerTaskChkThr

(* The timer never comes to a node that is not filled in. *)
LEMMA FilledKept ==
  ASSUME ListTypeOK, HandsInv, LockInv, FilledInv, torn = FALSE, ListNext, stolen' = FALSE
  PROVE  FilledInv' /\ torn' = FALSE
<1> USE DEF ListTypeOK, FilledInv
<1>1. ListHead \in Nodes /\ Cells \subseteq Nodes /\ ListHead \notin Cells /\ Null \notin Cells
  BY ListAssumption DEF Nodes
<1>2. ASSUME NEW c \in Clients, regMalloc(c)
      PROVE  FilledInv' /\ torn' = FALSE
  <2>1. \A d \in Clients : lpc[d] = "fill" => lpc'[d] = "fill" /\ node'[d] = node[d]
    BY <1>2 DEF regMalloc
  <2>2. UNCHANGED <<next, procId, cur, torn>>
    BY <1>2 DEF regMalloc, timerVars, pastVars
  <2>3. QED
    BY <2>1, <2>2
<1>3. ASSUME NEW c \in Clients, regLock(c)
      PROVE  FilledInv' /\ torn' = FALSE
  <2>1. next[ListHead] # Null => procId[next[ListHead]] # 0
    BY <1>1, <1>3 DEF regLock, LockInv, InSection
  <2>2. /\ UNCHANGED <<procId, cur, torn, node>>
        /\ \A d \in Clients : lpc[d] = "fill" => lpc'[d] = "fill"
        /\ \A n \in Nodes : next'[n] \in {next[n], next[ListHead]}
        /\ next'[ListHead] = next[ListHead]
    BY <1>1, <1>3 DEF regLock, timerVars, HandsInv
  <2>3. QED
    BY <1>1, <2>1, <2>2
<1>4. ASSUME NEW c \in Clients, regLink(c)
      PROVE  FilledInv' /\ torn' = FALSE
  <2>1. /\ UNCHANGED <<procId, cur, torn, node>> /\ lpc'[c] = "fill"
        /\ \A d \in Clients : lpc[d] = "fill" => lpc'[d] = "fill"
        /\ next'[ListHead] = node[c]
        /\ \A n \in Nodes : n # ListHead => next'[n] = next[n]
    BY <1>1, <1>4 DEF regLink, timerVars, pastVars
  <2>2. QED
    BY <2>1
<1>5. ASSUME NEW c \in Clients, regFill(c)
      PROVE  FilledInv' /\ torn' = FALSE
  <2>1. /\ UNCHANGED <<next, cur, torn, node>>
        /\ procId'[node[c]] # 0
        /\ \A n \in Cells : n # node[c] => procId'[n] = procId[n]
    BY <1>5 DEF regFill, timerVars, pastVars, HandsInv
  <2>2. \A d \in Clients : lpc[d] = "fill" => d = c
    BY <1>5 DEF regFill, LockInv, InSection
  <2>3. QED
    BY <1>1, <2>1, <2>2
<1>6. ASSUME NEW c \in Clients, unregLock(c)
      PROVE  FilledInv' /\ torn' = FALSE
  <2>1. UNCHANGED <<next, procId, cur, torn>>
    BY <1>6 DEF unregLock, heapVars, timerVars
  <2>2. \A d \in Clients : lpc[d] # "fill"
    BY <1>6 DEF unregLock, LockInv, InSection
  <2>3. QED
    BY <2>1, <2>2
<1>7. ASSUME NEW prior \in Nodes, NEW tmp \in Cells, unlink(prior, tmp),
             UNCHANGED <<cur, torn>>,
             \A d \in Clients : lpc[d] = "fill" => lpc'[d] = "fill" /\ node'[d] = node[d]
      PROVE  FilledInv' /\ torn' = FALSE
  <2>1. /\ UNCHANGED procId
        /\ \A n \in Nodes : next'[n] \in {next[n], next[tmp]}
        /\ \A n \in Nodes : n # prior => next'[n] = next[n]
    BY <1>7 DEF unlink
  <2>2. next[tmp] # Null => procId[next[tmp]] # 0
    BY <1>1
  <2>3. QED
    BY <1>7, <2>1, <2>2
<1>8. ASSUME NEW c \in Clients, unregCut(c)
      PROVE  FilledInv' /\ torn' = FALSE
  BY <1>7, <1>8 DEF unregCut, HandsInv, timerVars
<1>9. CASE delSingle
  BY <1>7, <1>9 DEF delSingle, HandsInv, clientVars
<1>10. CASE wrap
  <2>1. next[ListHead] # Null => procId[next[ListHead]] # 0
    BY <1>1, <1>10 DEF wrap, LockInv, InSection
  <2>2. QED
    BY <1>10, <2>1 DEF wrap, heapVars, clientVars, pastVars
<1>11. CASE goOn \/ look
  BY <1>11 DEF goOn, look, heapVars, clientVars, pastVars
<1>12. CASE call
  BY <1>12 DEF call, heapVars, clientVars
<1>13. CASE after
  BY <1>13 DEF after, heapVars, clientVars
<1>14. CASE advance
  <2>1. next[cur] # Null => procId[next[cur]] # 0
    BY <1>1, <1>14 DEF advance
  <2>2. QED
    BY <1>14, <2>1 DEF advance, heapVars, clientVars
<1>15. QED
  BY <1>2, <1>3, <1>4, <1>5, <1>6, <1>8, <1>9, <1>10, <1>11, <1>12, <1>13, <1>14, Zenon
     DEF ListNext, client, timerTaskChkThr

(* The list stays the list of the tasks that are registered. *)
LEMMA ClientHeapKept ==
  ASSUME ListTypeOK, HandsInv, LockInv, HeapInv, NEW c \in Clients, client(c),
         bare' = FALSE
  PROVE  HeapInv'
<1> USE DEF ListTypeOK, HeapInv, NewInv, CutInv, InSection, Registering
<1>1. ListHead \in Nodes /\ Cells \subseteq Nodes /\ ListHead \notin Cells /\ Null \notin Cells
  BY ListAssumption DEF Nodes
<1>2. /\ next \in [Nodes -> Cells \cup {Null}] /\ Listed \subseteq Cells
      /\ Listed \subseteq allocated
  BY <1>1, AfterClosed DEF Listed, TaskNodes
<1>3. CASE regMalloc(c)
  <2>1. PICK cell \in Cells \ allocated :
          allocated' = allocated \cup {cell} /\ node' = [node EXCEPT ![c] = cell]
    BY <1>3 DEF regMalloc
  <2>2. /\ UNCHANGED <<next, procId, prev, id, tpc, cut>> /\ lpc[c] = "idle"
        /\ lpc' = [lpc EXCEPT ![c] = "lock"]
    BY <1>3 DEF regMalloc, timerVars
  <2>3. Listed' = Listed
    BY <2>2 DEF Listed
  <2>4. TaskNodes' = TaskNodes
    BY <2>1, <2>2 DEF TaskNodes
  <2>5. NewInv'
    BY <1>2, <2>1, <2>2, <2>3
  <2>6. CutInv'
    BY <2>1, <2>2, <2>3 DEF Between
  <2>7. QED
    BY <2>2, <2>3, <2>4, <2>5, <2>6
<1>4. CASE regLock(c)
  <2>1. /\ next' = [next EXCEPT ![node[c]] = next[ListHead]] /\ node[c] \in Cells
        /\ node[c] \notin Listed
    BY <1>4 DEF regLock, HandsInv
  <2>2. /\ UNCHANGED <<allocated, node, tpc>> /\ tpc # "cut" /\ lpc[c] = "lock"
        /\ lpc' = [lpc EXCEPT ![c] = "link"] /\ \A d \in Clients : ~InSection(d)
    BY <1>4 DEF regLock, timerVars, LockInv
  <2>3. Listed' = Listed /\ OnePointer(next') /\ NoRing(next')
    <3>1. /\ node[c] \in Cells /\ node[c] \notin After(next, ListHead)
          /\ OnePointer(next) /\ NoRing(next)
      BY <2>1 DEF Listed
    <3>2. /\ next' \in [Nodes -> Cells \cup {Null}] /\ next'[node[c]] = next[ListHead]
          /\ \A n \in Nodes \ {node[c]} : next'[n] = next[n]
      BY <1>1, <1>2, <2>1
    <3>3. QED
      BY ONLY <1>2, <3>1, <3>2, PointToFirst DEF Listed
  <2>4. TaskNodes' = TaskNodes
    BY <2>2 DEF TaskNodes
  <2>5. next'[node[c]] = next'[ListHead]
    BY <1>1, <1>2, <2>1
  <2>6. NewInv'
    BY <2>2, <2>3, <2>5
  <2>7. QED
    BY <2>2, <2>3, <2>4, <2>6
<1>5. CASE regLink(c)
  <2>1. /\ next' = [next EXCEPT ![ListHead] = node[c]] /\ node[c] \in Cells
        /\ node[c] \in allocated \ Listed /\ next[node[c]] = next[ListHead]
    BY <1>5 DEF regLink, HandsInv
  <2>2. /\ UNCHANGED <<allocated, node, tpc>> /\ lpc[c] = "link"
        /\ lpc' = [lpc EXCEPT ![c] = "fill"] /\ tpc # "cut"
        /\ \A d \in Clients : d # c => ~InSection(d)
    BY <1>5 DEF regLink, timerVars, LockInv
  <2>3. Listed' = Listed \cup {node[c]} /\ OnePointer(next') /\ NoRing(next')
    <3>1. node[c] \notin After(next, ListHead) /\ OnePointer(next) /\ NoRing(next)
      BY <2>1 DEF Listed
    <3>2. QED
      BY ONLY <1>1, <1>2, <2>1, <3>1, PointHead DEF Listed
  <2>4. \A d \in Registering : node[d] = node[c] => d = c
    BY <2>2
  <2>5. TaskNodes' = TaskNodes \cup {node[c]}
    BY <2>1, <2>2, <2>4 DEF TaskNodes
  <2>6. NewInv'
    BY <2>1, <2>2, <2>3, <2>4
  <2>7. QED
    BY <2>2, <2>3, <2>5, <2>6
<1>6. CASE regFill(c)
  <2>1. /\ UNCHANGED <<next, allocated, node, tpc>> /\ lpc[c] = "fill" /\ tpc # "cut"
        /\ \A d \in Clients : d # c => lpc'[d] = lpc[d] /\ ~InSection(d)
        /\ lpc'[c] \in {"has", "idle"}
    BY <1>6 DEF regFill, timerVars, LockInv
  <2>2. Listed' = Listed
    BY <2>1 DEF Listed
  <2>3. TaskNodes' = TaskNodes
    BY <2>1 DEF TaskNodes
  <2>4. QED
    BY <2>1, <2>2, <2>3
<1>7. CASE unregLock(c)
  <2>1. /\ UNCHANGED <<next, procId, allocated, id, tpc>> /\ tpc # "cut" /\ lpc[c] = "has"
        /\ \A d \in Clients : ~InSection(d)
        /\ \A d \in Clients : d # c => lpc'[d] = lpc[d] /\ node'[d] = node[d]
    BY <1>7 DEF unregLock, timerVars, heapVars, LockInv
  <2>2. Listed' = Listed
    BY <2>1 DEF Listed
  <2>3. lpc'[c] \in {"cut", "idle", "lost"}
    BY <1>7 DEF unregLock
  <2>4. TaskNodes' = TaskNodes
    BY <2>1, <2>3 DEF TaskNodes
  <2>5. lpc'[c] = "cut" => (Between(prev[c], node[c]) /\ procId[node[c]] = id[c])'
    <3> SUFFICES ASSUME lpc'[c] = "cut"
                 PROVE  (Between(prev[c], node[c]) /\ procId[node[c]] = id[c])'
      OBVIOUS
    <3>1. PICK n \in Searched(id[c]) : /\ prev' = [prev EXCEPT ![c] = n]
                                       /\ node' = [node EXCEPT ![c] = next[n]]
      BY <1>7, <2>1 DEF unregLock
    <3>2. prev'[c] = n /\ node'[c] = next[n]
      BY <3>1
    <3>3. Between(n, next[n]) /\ procId[next[n]] = id[c]
      BY SearchFinds
    <3>4. QED
      BY <2>1, <2>2, <3>2, <3>3 DEF Between
  <2>6. NewInv'
    BY <2>1, <2>2, <2>3
  <2>7. CutInv'
    BY <2>1, <2>5
  <2>8. QED
    BY <2>1, <2>2, <2>4, <2>6, <2>7
<1>8. CASE unregCut(c)
  <2>1. /\ Between(prev[c], node[c]) /\ next' = [next EXCEPT ![prev[c]] = next[node[c]]]
        /\ allocated' = allocated \ {node[c]}
    BY <1>8 DEF unregCut, unlink
  <2>2. /\ UNCHANGED <<node, tpc>> /\ lpc[c] = "cut"
        /\ lpc' = [lpc EXCEPT ![c] = "idle"] /\ tpc # "cut"
        /\ \A d \in Clients : d # c => ~InSection(d)
    BY <1>8 DEF unregCut, timerVars, LockInv
  <2>3. Listed' = Listed \ {node[c]} /\ OnePointer(next') /\ NoRing(next')
    <3>1. /\ prev[c] \in After(next, ListHead) \cup {ListHead}
          /\ node[c] \in After(next, ListHead) /\ next[prev[c]] = node[c]
          /\ OnePointer(next) /\ NoRing(next)
      BY <2>1 DEF Listed, Between
    <3>2. /\ next' \in [Nodes -> Cells \cup {Null}] /\ next'[prev[c]] = next[node[c]]
          /\ \A n \in Nodes \ {prev[c]} : next'[n] = next[n]
      BY <1>1, <1>2, <2>1 DEF Between
    <3>3. QED
      BY ONLY <1>2, <3>1, <3>2, PointPast DEF Listed
  <2>4. TaskNodes' = TaskNodes \ {node[c]}
    BY <2>1, <2>2 DEF TaskNodes
  <2>5. NewInv'
    BY <2>1, <2>2, <2>3 DEF Between
  <2>6. QED
    BY <2>2, <2>3, <2>4, <2>5
<1>9. QED
  BY <1>3, <1>4, <1>5, <1>6, <1>7, <1>8 DEF client

LEMMA TimerHeapKept ==
  ASSUME ListTypeOK, HandsInv, HeapInv, timerTaskChkThr, bare' = FALSE
  PROVE  HeapInv'
<1> USE DEF ListTypeOK, HeapInv, NewInv, CutInv, InSection, Registering, clientVars
<1>1. ListHead \in Nodes /\ Cells \subseteq Nodes /\ ListHead \notin Cells /\ Null \notin Cells
  BY ListAssumption DEF Nodes
<1>2. next \in [Nodes -> Cells \cup {Null}] /\ Listed \subseteq Cells
  BY <1>1, AfterClosed DEF Listed
<1>3. ASSUME UNCHANGED <<next, procId, allocated, prev, lpc, node, id>>, tpc' # "cut"
      PROVE  HeapInv'
  <2>1. Listed' = Listed /\ TaskNodes' = TaskNodes
    BY <1>3 DEF Listed, TaskNodes
  <2>2. QED
    BY <1>3, <2>1 DEF Between
<1>4. CASE wrap \/ goOn \/ look \/ call \/ advance
  BY <1>3, <1>4 DEF wrap, goOn, look, call, advance, heapVars
<1>5. CASE after
  <2>1. ASSUME NEW n \in Searched(procId[cur]), prev' = [prev EXCEPT !["timer"] = n],
               cut' = next[n], \A c \in Clients : ~InSection(c)
        PROVE  HeapInv'
    <3>1. UNCHANGED <<next, procId, allocated, lpc, node, id>>
      BY <1>5 DEF after, heapVars
    <3>2. Listed' = Listed /\ TaskNodes' = TaskNodes
      BY <3>1 DEF Listed, TaskNodes
    <3>3. prev'["timer"] = n
      BY <2>1
    <3>4. Between(n, next[n])
      BY SearchFinds
    <3>5. CutInv'
      BY <2>1, <3>1, <3>2, <3>3, <3>4 DEF Between
    <3>6. NewInv'
      BY <3>1, <3>2
    <3>7. QED
      BY <3>1, <3>2, <3>5, <3>6
  <2>2. CASE tpc' # "cut" /\ UNCHANGED <<prev, cut, bare>>
    BY <1>3, <1>5, <2>2 DEF after, heapVars
  <2>3. QED
    BY <1>5, <2>1, <2>2 DEF after
<1>6. CASE delSingle
  <2>1. /\ Between(prev["timer"], cut)
        /\ next' = [next EXCEPT ![prev["timer"]] = next[cut]]
        /\ allocated' = allocated \ {cut} /\ tpc' # "cut"
        /\ UNCHANGED <<lpc, node>>
        /\ \A c \in Clients : ~InSection(c)
    BY <1>6 DEF delSingle, unlink
  <2>2. Listed' = Listed \ {cut} /\ OnePointer(next') /\ NoRing(next')
    <3>1. /\ prev["timer"] \in After(next, ListHead) \cup {ListHead}
          /\ cut \in After(next, ListHead) /\ next[prev["timer"]] = cut
          /\ OnePointer(next) /\ NoRing(next)
      BY <2>1 DEF Listed, Between
    <3>2. /\ next' \in [Nodes -> Cells \cup {Null}] /\ next'[prev["timer"]] = next[cut]
          /\ \A n \in Nodes \ {prev["timer"]} : next'[n] = next[n]
      BY <1>1, <1>2, <2>1 DEF Between
    <3>3. QED
      BY ONLY <1>2, <3>1, <3>2, PointPast DEF Listed
  <2>3. TaskNodes' = TaskNodes \ {cut}
    BY <2>1 DEF TaskNodes
  <2>4. NewInv'
    BY <2>1, <2>2 DEF Between
  <2>5. CutInv'
    BY <2>1
  <2>6. QED
    BY <2>2, <2>3, <2>4, <2>5
<1>7. QED
  BY <1>4, <1>5, <1>6 DEF timerTaskChkThr

(* What follows from IdsInv for a thread that goes over the list from its  *)
(* head while no client is filling a node in.                              *)
LEMMA ListedNotGone ==
  ASSUME IdsInv, \A c \in Clients : lpc[c] # "fill", ListTypeOK, NEW n \in Listed
  PROVE  procId[n] \notin gone /\ procId[n] \notin called
BY DEF IdsInv, Full, ListTypeOK

(* After keeps to the nodes it had, or to them and the list. *)
LEMMA BehindKept ==
  ASSUME IdsInv, ListTypeOK, procId' = procId, called' = called, UNCHANGED <<cur, tpc>>,
         \A m \in Cells : After(next', m) \subseteq After(next, m)
  PROVE  (cur # Null => \A n \in Cells : procId[n] \in called =>
            n \notin After(next, cur) /\ (tpc \in {"lock", "look", "call"} => n # cur))'
BY DEF IdsInv, ListTypeOK

(* Numbers are given once, and no pointer leads back to a task that was    *)
(* called late.                                                            *)
LEMMA ClientIdsKept ==
  ASSUME ListTypeOK, HandsInv, LockInv, HeapInv, IdsInv, NEW c \in Clients, client(c),
         bare' = FALSE
  PROVE  IdsInv'
<1> USE DEF ListTypeOK, HeapInv, NewInv, CutInv, InSection, Registering
<1>1. ListHead \in Nodes /\ Cells \subseteq Nodes /\ ListHead \notin Cells /\ Null \notin Cells
      /\ lastId \in Nat
  BY ListAssumption DEF Nodes
<1>2. /\ next \in [Nodes -> Cells \cup {Null}] /\ Listed \subseteq Cells
      /\ next[ListHead] \in Listed \cup {Null} /\ Closed(next, Listed)
  BY <1>1, AfterClosed DEF Listed
<1>3. CASE regMalloc(c)
  <2>1. /\ UNCHANGED <<next, procId, lastId, gone, called, cur, tpc>>
        /\ \A d \in Clients : lpc[d] = "fill" => lpc'[d] = "fill" /\ node'[d] = node[d]
    BY <1>3 DEF regMalloc, timerVars, pastVars
  <2>2. Listed' = Listed /\ \A n \in Cells : Full(n)' => Full(n)
    BY <2>1 DEF Listed, Full
  <2>3. QED
    BY <1>2, <2>1, <2>2 DEF IdsInv
<1>4. CASE regLock(c)
  <2>1. /\ UNCHANGED <<procId, lastId, gone, called, cur, tpc, node>>
        /\ \A d \in Clients : lpc[d] # "fill" /\ lpc'[d] # "fill"
        /\ next' = [next EXCEPT ![node[c]] = next[ListHead]] /\ node[c] \in Cells
        /\ node[c] \notin Listed
    BY <1>4 DEF regLock, timerVars, HandsInv, LockInv
  <2>2. /\ Listed' = Listed
        /\ \A m \in Cells : After(next', m) \subseteq After(next, m) \cup Listed
    <3>1. /\ node[c] \in Cells /\ node[c] \notin After(next, ListHead)
          /\ OnePointer(next) /\ NoRing(next)
      BY <2>1 DEF Listed
    <3>2. /\ next' \in [Nodes -> Cells \cup {Null}] /\ next'[node[c]] = next[ListHead]
          /\ \A n \in Nodes \ {node[c]} : next'[n] = next[n]
      BY <1>1, <1>2, <2>1
    <3>3. QED
      BY ONLY <1>2, <3>1, <3>2, PointToFirst DEF Listed
  <2>3. \A n \in Listed : procId[n] \notin gone /\ procId[n] \notin called
    BY <2>1, ListedNotGone
  <2>4. QED
    BY <2>1, <2>2, <2>3 DEF IdsInv, Full
<1>5. CASE regLink(c)
  <2>1. /\ UNCHANGED <<procId, lastId, gone, called, cur, tpc, node>>
        /\ \A d \in Clients : d # c => lpc'[d] = lpc[d] /\ lpc'[d] # "fill"
        /\ lpc'[c] = "fill"
        /\ next' = [next EXCEPT ![ListHead] = node[c]] /\ node[c] \in Cells
        /\ node[c] \notin Listed /\ next[node[c]] = next[ListHead]
    BY <1>5 DEF regLink, timerVars, pastVars, HandsInv, LockInv
  <2>2. /\ Listed' = Listed \cup {node[c]}
        /\ \A m \in Cells : After(next', m) \subseteq After(next, m)
    <3>1. node[c] \notin After(next, ListHead) /\ OnePointer(next) /\ NoRing(next)
      BY <2>1 DEF Listed
    <3>2. QED
      BY ONLY <1>1, <1>2, <2>1, <3>1, PointHead DEF Listed
  <2>3. \A n \in Listed' : Full(n)' => n \in Listed /\ Full(n)
    BY <2>1, <2>2, <1>5 DEF Full, regLink
  <2>4. QED
    BY <2>1, <2>2, <2>3, BehindKept DEF IdsInv
<1>6. CASE regFill(c)
  <2>1. /\ UNCHANGED <<next, gone, called, cur, tpc, node>> /\ lastId' = lastId + 1
        /\ procId' = [procId EXCEPT ![node[c]] = lastId + 1] /\ node[c] \in Cells
        /\ \A d \in Clients : lpc'[d] # "fill" /\ (d # c => lpc[d] # "fill")
    BY <1>6 DEF regFill, timerVars, pastVars, HandsInv, LockInv
  <2>2. procId'[node[c]] = lastId + 1 /\ \A n \in Cells : n # node[c] => procId'[n] = procId[n]
    BY <2>1
  <2>3. \A n \in Cells : procId[n] \in Nat /\ procId[n] <= lastId
    BY DEF IdsInv
  <2>4. lastId + 1 \notin gone /\ lastId + 1 \notin called /\ gone \subseteq 1 .. lastId
    BY <1>1 DEF IdsInv
  <2>5. \A m, n \in Cells : procId'[m] = procId'[n] /\ procId'[m] # 0 => m = n
    BY <1>1, <2>2, <2>3 DEF IdsInv
  <2>6. \A n \in Cells : procId'[n] <= lastId'
    BY <1>1, <2>1, <2>2, <2>3
  <2>7. gone' \subseteq 1 .. lastId'
    BY <1>1, <2>1, <2>4
  <2>8. Listed' = Listed
    BY <2>1 DEF Listed
  <2>9. \A n \in Listed : procId'[n] \notin gone
    BY <1>2, <2>1, <2>2, <2>4 DEF IdsInv, Full
  <2>10. \A n \in Cells : procId'[n] \in called => procId[n] \in called
    BY <2>2, <2>4
  <2>11. QED
    BY <2>1, <2>5, <2>6, <2>7, <2>8, <2>9, <2>10 DEF IdsInv
<1>7. CASE unregLock(c)
  <2>1. /\ UNCHANGED <<next, procId, lastId, gone, called, cur, tpc>>
        /\ \A d \in Clients : lpc[d] # "fill" /\ lpc'[d] # "fill"
    BY <1>7 DEF unregLock, timerVars, heapVars, LockInv
  <2>2. QED
    BY <2>1 DEF IdsInv, Full, Listed
<1>8. CASE unregCut(c)
  <2>1. /\ Between(prev[c], node[c]) /\ next' = [next EXCEPT ![prev[c]] = next[node[c]]]
        /\ UNCHANGED <<procId, lastId, called, cur, tpc, node>> /\ gone' = gone \cup {id[c]}
        /\ procId[node[c]] = id[c] /\ id[c] \in 1 .. lastId
    BY <1>8 DEF unregCut, unlink, timerVars, HandsInv
  <2>2. \A d \in Clients : lpc[d] # "fill" /\ lpc'[d] # "fill"
    BY <1>8 DEF unregCut, LockInv
  <2>3. /\ Listed' = Listed \ {node[c]}
        /\ \A m \in Cells : After(next', m) \subseteq After(next, m)
    <3>1. /\ prev[c] \in After(next, ListHead) \cup {ListHead}
          /\ node[c] \in After(next, ListHead) /\ next[prev[c]] = node[c]
          /\ OnePointer(next) /\ NoRing(next)
      BY <2>1 DEF Listed, Between
    <3>2. /\ next' \in [Nodes -> Cells \cup {Null}] /\ next'[prev[c]] = next[node[c]]
          /\ \A n \in Nodes \ {prev[c]} : next'[n] = next[n]
      BY <1>1, <1>2, <2>1 DEF Between
    <3>3. QED
      BY ONLY <1>2, <3>1, <3>2, PointPast DEF Listed
  <2>4. \A n \in Listed' : procId[n] \notin gone /\ procId[n] # id[c]
    <3>1. node[c] \in Cells /\ id[c] # 0
      BY <1>2, <2>1 DEF Between
    <3>2. QED
      BY <1>2, <2>1, <2>2, <2>3, <3>1, ListedNotGone DEF IdsInv
  <2>5. QED
    BY <2>1, <2>3, <2>4, BehindKept DEF IdsInv
<1>9. QED
  BY <1>3, <1>4, <1>5, <1>6, <1>7, <1>8 DEF client

LEMMA TimerIdsKept ==
  ASSUME ListTypeOK, HandsInv, LockInv, HeapInv, IdsInv, again = FALSE, timerTaskChkThr,
         bare' = FALSE
  PROVE  IdsInv' /\ again' = FALSE
<1> USE DEF ListTypeOK, HeapInv, NewInv, CutInv, InSection, clientVars
<1>1. ListHead \in Nodes /\ Cells \subseteq Nodes /\ ListHead \notin Cells /\ Null \notin Cells
      /\ lastId \in Nat
  BY ListAssumption DEF Nodes
<1>2. /\ next \in [Nodes -> Cells \cup {Null}] /\ Listed \subseteq Cells
      /\ next[ListHead] \in Listed \cup {Null} /\ Closed(next, Listed)
  BY <1>1, AfterClosed DEF Listed
<1>3. ASSUME UNCHANGED <<next, procId, lastId, gone, called, lpc, node, again>>,
             \/ UNCHANGED cur /\ tpc' \notin {"lock", "look", "call"}
             \/ UNCHANGED cur /\ tpc \in {"lock", "look", "call"}
             \/ cur' = Null
      PROVE  IdsInv' /\ again' = FALSE
  BY <1>3 DEF IdsInv, Full, Listed
<1>4. CASE wrap
  <2>1. CASE cur' = Null
    BY <1>3, <1>4, <2>1 DEF wrap, heapVars, pastVars
  <2>2. CASE cur' # Null
    <3>1. /\ UNCHANGED <<next, procId, lastId, gone, called, lpc, node, again>>
          /\ cur' \in Listed
          /\ \A c \in Clients : lpc[c] # "fill"
      BY <1>2, <1>4, <2>2 DEF wrap, heapVars, pastVars, LockInv
    <3>2. After(next, cur') \subseteq Listed
      <4>1. cur' \in Nodes /\ next[cur'] \in Listed \cup {Null} /\ Listed \in SUBSET Cells
        BY <1>1, <1>2, <3>1 DEF Closed
      <4>2. QED
        BY ONLY <1>2, <4>1, AfterLeast
    <3>3. \A n \in Listed : procId[n] \notin called
      BY <3>1, ListedNotGone
    <3>4. QED
      BY <3>1, <3>2, <3>3 DEF IdsInv, Full, Listed
  <2>3. QED
    BY <2>1, <2>2
<1>5. CASE goOn \/ look
  BY <1>3, <1>5 DEF goOn, look, heapVars, pastVars
<1>6. CASE call
  <2>1. /\ UNCHANGED <<next, procId, lastId, gone, cur, lpc, node>>
        /\ called' = called \cup ({procId[cur]} \cap gone)
        /\ cur \in Cells /\ tpc = "call" /\ tpc' = "after"
    BY <1>6 DEF call, heapVars
  <2>2. procId[cur] \notin called
    BY <1>1, <2>1 DEF IdsInv
  <2>3. again' = FALSE
    BY <1>6, <2>2 DEF call
  <2>4. cur \notin After(next, cur)
    BY <1>2, <2>1, NoWayBack
  <2>5. ASSUME procId[cur] \in gone, NEW n \in Cells, procId[n] = procId[cur]
        PROVE  n = cur
    <3>1. procId[cur] # 0
      BY <1>1, <2>5 DEF IdsInv
    <3>2. QED
      BY <2>1, <2>5, <3>1 DEF IdsInv
  <2>6. ASSUME NEW n \in Cells, procId[n] \in called'
        PROVE  n \notin After(next, cur)
    <3>1. procId[n] \in called \/ n = cur
      BY <2>1, <2>5, <2>6
    <3>2. cur # Null
      BY <1>1, <2>1
    <3>3. QED
      BY <2>4, <3>1, <3>2 DEF IdsInv
  <2>7. QED
    BY <2>1, <2>3, <2>6 DEF IdsInv, Full, Listed
<1>7. CASE after
  BY <1>3, <1>7 DEF after, heapVars
<1>8. CASE delSingle
  <2>1. /\ Between(prev["timer"], cut)
        /\ next' = [next EXCEPT ![prev["timer"]] = next[cut]]
        /\ UNCHANGED <<procId, lastId, called, cur, lpc, node, again>>
        /\ gone' = gone \cup ({procId[cut]} \ {0})
        /\ tpc = "cut" /\ tpc' = "next" /\ cut \in Cells
        /\ \A c \in Clients : lpc[c] # "fill"
    BY <1>8 DEF delSingle, unlink, HandsInv
  <2>2. /\ Listed' = Listed \ {cut}
        /\ \A m \in Cells : After(next', m) \subseteq After(next, m)
    <3>1. /\ prev["timer"] \in After(next, ListHead) \cup {ListHead}
          /\ cut \in After(next, ListHead) /\ next[prev["timer"]] = cut
          /\ OnePointer(next) /\ NoRing(next)
      BY <2>1 DEF Listed, Between
    <3>2. /\ next' \in [Nodes -> Cells \cup {Null}] /\ next'[prev["timer"]] = next[cut]
          /\ \A n \in Nodes \ {prev["timer"]} : next'[n] = next[n]
      BY <1>1, <1>2, <2>1 DEF Between
    <3>3. QED
      BY ONLY <1>2, <3>1, <3>2, PointPast DEF Listed
  <2>3. \A n \in Listed' : procId[n] \notin gone'
    BY <1>2, <2>1, <2>2, ListedNotGone DEF IdsInv
  <2>4. gone' \subseteq 1 .. lastId
    <3>1. procId[cut] \in Nat /\ procId[cut] <= lastId /\ gone \subseteq 1 .. lastId
      BY <2>1 DEF IdsInv
    <3>2. {procId[cut]} \ {0} \subseteq 1 .. lastId
      BY <1>1, <3>1
    <3>3. QED
      BY <2>1, <3>1, <3>2
  <2>5. QED
    BY <2>1, <2>2, <2>3, <2>4 DEF IdsInv
<1>9. CASE advance
  <2>1. /\ UNCHANGED <<next, procId, lastId, gone, called, lpc, node, again>>
        /\ cur \in Cells /\ cur' = next[cur]
    BY <1>9 DEF advance, heapVars
  <2>2. CASE cur' = Null
    BY <1>3, <2>1, <2>2
  <2>3. CASE cur' # Null
    <3>1. /\ After(next, cur) \in SUBSET Cells /\ cur' \in After(next, cur)
          /\ Closed(next, After(next, cur))
      BY <1>1, <1>2, <2>1, <2>3, AfterClosed
    <3>2. cur' \in Nodes /\ next[cur'] \in After(next, cur) \cup {Null}
      BY <1>1, <3>1 DEF Closed
    <3>3. After(next, cur') \subseteq After(next, cur)
      BY ONLY <1>2, <3>1, <3>2, AfterLeast
    <3>4. QED
      BY <1>1, <2>1, <2>3, <3>1, <3>3 DEF IdsInv, Full, Listed
  <2>4. QED
    BY <2>2, <2>3
<1>10. QED
  BY <1>4, <1>5, <1>6, <1>7, <1>8, <1>9 DEF timerTaskChkThr

(* What a history has noted it keeps, and only a call calls a task again. *)
LEMMA OnlyRaised ==
  ASSUME ListTypeOK, ListNext
  PROVE  (stolen' = FALSE => stolen = FALSE) /\ (bare' = FALSE => bare = FALSE)
BY DEF ListTypeOK, ListNext, client, timerTaskChkThr, regMalloc, regLock, regLink, regFill,
   unregLock, unregCut, wrap, goOn, look, call, after, delSingle, advance, pastVars

LEMMA AgainByTimer ==
  ASSUME NEW c \in Clients, client(c)
  PROVE  again' = again
BY DEF client, regMalloc, regLock, regLink, regFill, unregLock, unregCut, pastVars

LEMMA ListInitInv == ListInit => ListInv
<1> SUFFICES ASSUME ListInit PROVE ListInv
  OBVIOUS
<1> USE DEF ListInit
<1>1. ListHead \in Nodes /\ ListHead \notin Cells /\ Null \notin Nodes /\ MaxIds \in Nat
  BY ListAssumption DEF Nodes
<1>2. ListTypeOK
  <2>1. /\ 0 \in 0 .. MaxIds /\ next \in [Nodes -> Cells \cup {Null}]
        /\ taskMode \in [Cells -> {"none", "SINGLE", "CONTINUE"}]
        /\ lpc \in [Clients -> {"idle", "lock", "link", "fill", "has", "cut", "lost"}]
        /\ node \in [Clients -> Cells \cup {Null}]
        /\ prev \in [Clients \cup {"timer"} -> Nodes \cup {Null}]
    BY <1>1
  <2>2. procId \in [Cells -> 0 .. MaxIds] /\ id \in [Clients -> 0 .. MaxIds]
    BY <2>1
  <2>3. /\ locked \in BOOLEAN /\ guarded \in BOOLEAN /\ stolen \in BOOLEAN
        /\ bare \in BOOLEAN /\ again \in BOOLEAN /\ torn \in BOOLEAN
    BY Zenon
  <2>4. QED
    BY <2>1, <2>2, <2>3 DEF ListTypeOK
<1>3. HandsInv
  <2>1. Registering = {}
    BY DEF Registering
  <2>2. Cardinality(Registering) = 0
    BY <2>1, FS_EmptySet
  <2>3. QED
    BY <1>1, <2>2 DEF HandsInv
<1>4. LockInv /\ FilledInv
  BY <1>1 DEF LockInv, FilledInv, InSection
<1>5. Listed = {}
  <2>1. {} \in SUBSET Cells /\ next[ListHead] \in {} \cup {Null} /\ Closed(next, {})
    BY <1>1 DEF Closed
  <2>2. next \in [Nodes -> Cells \cup {Null}]
    BY <1>2 DEF ListTypeOK
  <2>3. QED
    BY ONLY <1>1, <2>1, <2>2, AfterLeast DEF Listed
<1>6. HeapInv
  <2>1. TaskNodes = {}
    BY DEF TaskNodes
  <2>2. OnePointer(next)
    BY <1>5 DEF OnePointer, Listed
  <2>3. NoRing(next)
    BY <1>1 DEF NoRing, Nodes
  <2>4. NewInv /\ CutInv
    BY DEF NewInv, CutInv, Registering
  <2>5. QED
    BY <1>5, <2>1, <2>2, <2>3, <2>4 DEF HeapInv
<1>7. IdsInv
  BY <1>5 DEF IdsInv
<1>8. QED
  BY <1>2, <1>3, <1>4, <1>6, <1>7 DEF ListInv

LEMMA ListInvHolds == ListSpec => []ListInv
<1>1. ListInv /\ [ListNext]_listVars => ListInv'
  <2> SUFFICES ASSUME ListInv, [ListNext]_listVars PROVE ListInv'
    OBVIOUS
  <2>1. CASE ListNext
    <3>1. ListTypeOK' /\ HandsInv'
      BY <2>1, ClientTypesKept, TimerTypesKept DEF ListInv, ListNext
    <3>2. /\ stolen' = FALSE => stolen = FALSE
          /\ bare' = FALSE => bare = FALSE
      BY <2>1, OnlyRaised DEF ListInv
    <3>3. stolen' = FALSE => LockInv' /\ FilledInv' /\ torn' = FALSE
      BY <2>1, <3>2, LockKept, FilledKept DEF ListInv
    <3>4. stolen' = FALSE /\ bare' = FALSE => HeapInv'
      BY <2>1, <3>2, ClientHeapKept, TimerHeapKept DEF ListInv, ListNext
    <3>5. stolen' = FALSE /\ bare' = FALSE => IdsInv' /\ again' = FALSE
      <4> SUFFICES ASSUME stolen' = FALSE, bare' = FALSE PROVE IdsInv' /\ again' = FALSE
        OBVIOUS
      <4>1. CASE timerTaskChkThr
        BY <3>2, <4>1, TimerIdsKept DEF ListInv
      <4>2. ASSUME NEW c \in Clients, client(c) PROVE IdsInv' /\ again' = FALSE
        BY <3>2, <4>2, ClientIdsKept, AgainByTimer DEF ListInv
      <4>3. QED
        BY <2>1, <4>1, <4>2 DEF ListNext
    <3>6. QED
      BY <3>1, <3>3, <3>4, <3>5 DEF ListInv
  <2>2. CASE UNCHANGED listVars
    <3> USE <2>2 DEF listVars
    <3>1. ListTypeOK' /\ HandsInv'
      BY DEF ListInv, ListTypeOK, HandsInv, Registering
    <3>2. LockInv' = LockInv /\ FilledInv' = FilledInv
      BY DEF LockInv, FilledInv, InSection
    <3>3. HeapInv' = HeapInv
      BY DEF HeapInv, Listed, TaskNodes, OnePointer, NoRing, NewInv, CutInv, Registering, Between,
         InSection
    <3>4. IdsInv' = IdsInv
      BY DEF IdsInv, Listed, Full
    <3>5. QED
      BY <3>1, <3>2, <3>3, <3>4 DEF ListInv
  <2>3. QED
    BY <2>1, <2>2
<1>2. QED
  BY ListInitInv, <1>1, PTL DEF ListSpec

(* The pointers of the list keep their types (timerThr.c:15-153), also     *)
(* after a node was freed under the timer, or its mutex released by it.    *)
THEOREM ListTypesHold == ListSpec => []ListTypeOK
<1>1. ListInv => ListTypeOK
  BY DEF ListInv
<1>2. QED
  BY <1>1, ListInvHolds, PTL

(* The list is the set of registered tasks (timerThr.c:67-87, 120-153),    *)
(* for every number of nodes and threads, but for the two lines that break *)
(* the rule of the mutex: 52 after 32, and 61 after 32.                    *)
THEOREM ListHoldsTasks == ListSpec => []ListIsTasks
<1>1. ListInv => ListIsTasks
  BY DEF ListInv, ListTypeOK, HeapInv, ListIsTasks
<1>2. QED
  BY <1>1, ListInvHolds, PTL

(* A task that was taken off is called once more at the most               *)
(* (timerThr.c:25-64), although the thread keeps a pointer to a node that  *)
(* may be freed, and handed out again, and freed again: from the nodes     *)
(* that were freed no pointer leads back.                                  *)
THEOREM CalledLateOnce == ListSpec => []LateCallOnce
<1>1. ListInv => LateCallOnce
  BY DEF ListInv, ListTypeOK, LateCallOnce
<1>2. QED
  BY <1>1, ListInvHolds, PTL

-----------------------------------------------------------------------------
(* Least and largest members. *)
LEMMA MinIs ==
  ASSUME NEW S, S \subseteq Nat, S # {}
  PROVE  Min(S) \in S /\ \A k \in S : Min(S) <= k
<1> DEFINE Less == {ss \in Nat \X Nat : ss[1] < ss[2]}
<1>1. IsWellFoundedOn(Less, Nat)
  BY NatLessThanWellFounded DEF OpToRel
<1>2. \E x \in S : \A y \in S : ~ (<<y, x>> \in Less)
  <2> HIDE DEF Less
  <2> QED
    BY <1>1, WFMin, Zenon
<1>3. \E x \in S : \A y \in S : x <= y
  <2>1. PICK x \in S : \A y \in S : ~ (<<y, x>> \in Less)
    BY <1>2
  <2>2. ASSUME NEW y \in S PROVE x <= y
    <3>1. <<y, x>> \in Nat \X Nat
      OBVIOUS
    <3>2. ~ (y < x)
      BY <2>1, <3>1
    <3> QED
      BY <3>2
  <2> QED
    BY <2>2
<1> QED
  BY <1>3 DEF Min

LEMMA MaxIs ==
  ASSUME NEW n \in Nat, NEW S, S \subseteq 0 .. n, S # {}
  PROVE  Max(S) \in S /\ \A k \in S : Max(S) >= k
<1> DEFINE T == {k \in 0 .. n : n - k \in S}
<1>1. T \subseteq Nat /\ T # {}
  <2>1. PICK k \in S : TRUE
    OBVIOUS
  <2>2. n - k \in 0 .. n /\ n - (n - k) = k
    BY <2>1
  <2>3. n - k \in T
    BY ONLY <2>1, <2>2
  <2>4. T \subseteq Nat
    OBVIOUS
  <2> QED
    BY ONLY <2>3, <2>4
<1>2. Min(T) \in T /\ \A k \in T : Min(T) <= k
  BY ONLY <1>1, MinIs
<1>3. n - Min(T) \in S
  BY <1>2
<1>4. \A k \in S : n - k \in T
  OBVIOUS
<1>5. \A k \in S : n - Min(T) >= k
  <2> HIDE DEF T
  <2> TAKE k \in S
  <2>1. Min(T) <= n - k /\ Min(T) \in Nat
    BY <1>1, <1>2, <1>4
  <2> QED
    BY <2>1
<1> QED
  BY <1>3, <1>5, Zenon DEF Max

-----------------------------------------------------------------------------
LEMMA SizeRange ==
  \A size \in 1 .. MaxSize : size \in Nat /\ \A k \in 1 .. size : k \in 1 .. MaxSize /\ k <= size
BY DEF MaxSize

LEMMA Joined ==
  ASSUME NEW S, NEW s \in Seq(S), NEW t \in Seq(S)
  PROVE  /\ s \o t \in Seq(S)
         /\ Len(s \o t) = Len(s) + Len(t)
         /\ \A k \in 1 .. Len(s) : (s \o t)[k] = s[k]
         /\ \A k \in 1 .. Len(t) : (s \o t)[k + Len(s)] = t[k]
OBVIOUS

(* Bytes: they are finitely many, ... *)
BytesOf(file, n) ==
  {byte \in (1 .. n) \X (1 .. MaxSize) : byte[2] <= file[byte[1]].size}

LEMMA BytesFinite ==
  ASSUME NEW file, NEW n \in Nat
  PROVE  /\ IsFiniteSet(BytesOf(file, n))
         /\ Bytes(file, n) = Cardinality(BytesOf(file, n))
         /\ Bytes(file, n) \in Nat
<1>1. IsFiniteSet(1 .. n) /\ IsFiniteSet(1 .. MaxSize)
  <2>1. 1 \in Int /\ n \in Int /\ MaxSize \in Int
    BY DEF MaxSize
  <2> QED
    BY ONLY <2>1, FS_Interval
<1>2. IsFiniteSet((1 .. n) \X (1 .. MaxSize))
  BY <1>1, FS_Product
<1>3. BytesOf(file, n) \in SUBSET ((1 .. n) \X (1 .. MaxSize))
  BY DEF BytesOf
<1>4. IsFiniteSet(BytesOf(file, n))
  BY ONLY <1>2, <1>3, FS_Subset
<1>5. Bytes(file, n) = Cardinality(BytesOf(file, n))
  BY DEF Bytes, BytesOf
<1> QED
  BY <1>4, <1>5, FS_CardinalityType

LEMMA BytesZero == \A file : Bytes(file, 0) = 0
<1> TAKE file
<1>1. BytesOf(file, 0) = {}
  BY DEF BytesOf
<1> QED
  BY <1>1, BytesFinite, FS_EmptySet

(* ... more of more lines, ... *)
LEMMA BytesGrow ==
  ASSUME NEW file, NEW m \in Nat, NEW n \in Nat, m <= n
  PROVE  Bytes(file, m) <= Bytes(file, n)
<1>1. BytesOf(file, m) \in SUBSET BytesOf(file, n)
  BY DEF BytesOf
<1> QED
  BY <1>1, BytesFinite, FS_Subset

(* ... each line has as many as its size, ... *)
LEMMA BytesOfLine ==
  ASSUME NEW i, NEW k \in Nat
  PROVE  IsFiniteSet({i} \X (1 .. k)) /\ Cardinality({i} \X (1 .. k)) = k
<1>1. IsFiniteSet(1 .. k) /\ Cardinality(1 .. k) = k
  BY FS_Interval
<1>2. IsFiniteSet({i}) /\ Cardinality({i}) = 1
  BY FS_Singleton
<1>3. /\ IsFiniteSet({i} \X (1 .. k))
      /\ Cardinality({i} \X (1 .. k)) = Cardinality({i}) * Cardinality(1 .. k)
  BY ONLY <1>1, <1>2, FS_Product
<1> QED
  BY <1>1, <1>2, <1>3

LEMMA RowType ==
  ASSUME NEW row \in Rows
  PROVE  /\ row.key \in Keys \cup {"[sys]", "[report]", "junk"}
         /\ row.val \in Nat
         /\ row.size \in 1 .. 19 /\ row.size \in Nat
BY DEF Rows, MaxSize

LEMMA BytesStep ==
  ASSUME NEW file \in Seq(Rows), NEW n \in 1 .. Len(file)
  PROVE  Bytes(file, n) = Bytes(file, n - 1) + file[n].size
<1> DEFINE Own == {n} \X (1 .. file[n].size)
<1>1. file[n] \in Rows /\ n \in Nat /\ n - 1 \in Nat
  OBVIOUS
<1>2. file[n].size \in 1 .. MaxSize
  BY <1>1 DEF Rows
<1>3. BytesOf(file, n) = BytesOf(file, n - 1) \cup Own
  <2>1. ASSUME NEW byte \in BytesOf(file, n)
        PROVE  byte \in BytesOf(file, n - 1) \cup Own
    <3>1. /\ byte = <<byte[1], byte[2]>> /\ byte[1] \in 1 .. n /\ byte[2] \in 1 .. MaxSize
          /\ byte[2] <= file[byte[1]].size
      BY <2>1 DEF BytesOf
    <3>2. CASE byte[1] = n
      <4>1. byte[2] \in 1 .. MaxSize /\ byte[2] <= file[n].size
        BY <3>1, <3>2, Zenon
      <4>2. byte[2] \in 1 .. file[n].size
        BY ONLY <4>1, <1>2, SMTT(40) DEF MaxSize
      <4>3. byte = <<n, byte[2]>>
        BY <3>1, <3>2, Zenon
      <4>4. byte \in Own
        BY <4>2, <4>3
      <4> QED
        BY <4>4
    <3>3. CASE byte[1] # n
      BY <1>1, <3>1, <3>3 DEF BytesOf
    <3> QED
      BY <3>2, <3>3
  <2>2. BytesOf(file, n - 1) \subseteq BytesOf(file, n)
    BY <1>1 DEF BytesOf
  <2>3. ASSUME NEW byte \in Own
        PROVE  byte \in BytesOf(file, n)
    <3>1. byte = <<n, byte[2]>> /\ byte[1] = n /\ byte[2] \in 1 .. file[n].size
      BY <2>3
    <3>2. byte[2] \in 1 .. MaxSize /\ byte[2] <= file[n].size
      BY ONLY <1>2, <3>1, SizeRange
    <3>3. n \in 1 .. n
      BY <1>1
    <3> QED
      BY <3>1, <3>2, <3>3 DEF BytesOf
  <2> QED
    BY <2>1, <2>2, <2>3
<1>4. BytesOf(file, n - 1) \cap Own = {}
  BY <1>1 DEF BytesOf
<1>5. /\ IsFiniteSet(BytesOf(file, n - 1)) /\ Bytes(file, n - 1) \in Nat
      /\ Bytes(file, n - 1) = Cardinality(BytesOf(file, n - 1))
      /\ Bytes(file, n) = Cardinality(BytesOf(file, n))
  BY <1>1, BytesFinite
<1>6. IsFiniteSet(Own) /\ Cardinality(Own) = file[n].size /\ file[n].size \in Nat
  <2>1. file[n].size \in Nat
    BY <1>2, SMTT(40) DEF MaxSize
  <2> QED
    BY ONLY <2>1, BytesOfLine
<1> HIDE DEF Own
<1>7. Cardinality(BytesOf(file, n)) =
        Cardinality(BytesOf(file, n - 1)) + Cardinality(Own) - Cardinality({})
  BY ONLY <1>3, <1>4, <1>5, <1>6, FS_Union
<1> QED
  BY <1>5, <1>6, <1>7, FS_EmptySet

(* ... a line that takes the place of another changes them by what it is   *)
(* longer or shorter, ...                                                  *)
LEMMA BytesReplaced ==
  ASSUME NEW file \in Seq(Rows), NEW i \in 1 .. Len(file), NEW row \in Rows
  PROVE  Bytes([file EXCEPT ![i] = row], Len(file)) =
           Bytes(file, Len(file)) - file[i].size + row.size
<1> DEFINE new == [file EXCEPT ![i] = row]
           n == Len(file)
           Rest == {byte \in BytesOf(file, n) : byte[1] # i}
<1>1. n \in Nat /\ new \in Seq(Rows) /\ Len(new) = n /\ new[i] = row
  OBVIOUS
<1>2. \A k \in 1 .. n : k # i => new[k] = file[k]
  OBVIOUS
<1>3. file[i].size \in 1 .. MaxSize /\ row.size \in 1 .. MaxSize
  <2>1. file[i] \in Rows
    OBVIOUS
  <2> QED
    BY <2>1 DEF Rows
<1> HIDE DEF new
<1>a. ASSUME NEW f, NEW s \in 1 .. MaxSize, f[i].size = s,
             \A k \in 1 .. n : k # i => f[k] = file[k]
      PROVE  Bytes(f, n) = Cardinality(Rest) + s /\ Cardinality(Rest) \in Nat
  <2> DEFINE Own == {i} \X (1 .. s)
  <2>1. BytesOf(f, n) = Rest \cup Own
    <3>1. ASSUME NEW byte \in (1 .. n) \X (1 .. MaxSize)
          PROVE  byte \in BytesOf(f, n) <=> byte \in Rest \cup Own
      <4>1. byte = <<byte[1], byte[2]>> /\ byte[1] \in 1 .. n /\ byte[2] \in 1 .. MaxSize
        BY <3>1
      <4>2. CASE byte[1] = i
        BY <1>a, <4>1, <4>2 DEF BytesOf, MaxSize
      <4>3. CASE byte[1] # i
        BY <1>a, <4>1, <4>3 DEF BytesOf
      <4> QED
        BY <4>2, <4>3
    <3>2. 1 .. s \subseteq 1 .. MaxSize /\ i \in 1 .. n
      BY <1>a DEF MaxSize
    <3> QED
      BY <3>1, <3>2 DEF BytesOf
  <2>2. Rest \cap Own = {}
    OBVIOUS
  <2>3. IsFiniteSet(BytesOf(file, n)) /\ Rest \in SUBSET BytesOf(file, n)
    BY <1>1, BytesFinite
  <2>4. IsFiniteSet(Rest) /\ Cardinality(Rest) \in Nat
    <3> HIDE DEF Rest
    <3> QED
      BY <2>3, FS_Subset, FS_CardinalityType
  <2>5. IsFiniteSet(Own) /\ Cardinality(Own) = s /\ s \in Nat
    <3>1. s \in Nat
      BY DEF MaxSize
    <3> QED
      BY ONLY <3>1, BytesOfLine
  <2> HIDE DEF Own, Rest
  <2>6. Cardinality(BytesOf(f, n)) = Cardinality(Rest) + Cardinality(Own) - Cardinality({})
    BY ONLY <2>1, <2>2, <2>4, <2>5, FS_Union
  <2>7. Bytes(f, n) = Cardinality(BytesOf(f, n))
    BY <1>1, BytesFinite
  <2> QED
    BY <2>4, <2>5, <2>6, <2>7, FS_EmptySet
<1>4. Bytes(file, n) = Cardinality(Rest) + file[i].size
  BY <1>3, <1>a
<1>5. Bytes(new, n) = Cardinality(Rest) + row.size /\ Cardinality(Rest) \in Nat
  BY <1>1, <1>2, <1>3, <1>a
<1> HIDE DEF Rest
<1>6. Bytes(new, n) = Bytes(file, n) - file[i].size + row.size
  <2>1. file[i].size \in Nat /\ row.size \in Nat
    BY ONLY <1>3, SizeRange
  <2> QED
    BY ONLY <1>4, <1>5, <2>1
<1> QED
  BY <1>6 DEF new

(* ... and one put between others only adds to them.                       *)
LEMMA Inserted ==
  ASSUME NEW file \in Seq(Rows), NEW i \in 1 .. Len(file) + 1, NEW row \in Rows
  PROVE  LET new == InsertAt(file, i, row) IN
         /\ new \in Seq(Rows)
         /\ Len(new) = Len(file) + 1
         /\ new[i] = row
         /\ \A k \in 1 .. i - 1 : new[k] = file[k]
         /\ \A k \in i .. Len(file) : new[k + 1] = file[k]
<1> DEFINE front == SubSeq(file, 1, i - 1)
           back == SubSeq(file, i, Len(file))
<1>1. front \in Seq(Rows) /\ Len(front) = i - 1 /\ \A k \in 1 .. i - 1 : front[k] = file[k]
  OBVIOUS
<1>2. /\ back \in Seq(Rows) /\ Len(back) = Len(file) - i + 1
      /\ \A k \in 1 .. Len(file) - i + 1 : back[k] = file[i + k - 1]
  OBVIOUS
<1> HIDE DEF front, back
<1>3. /\ front \o <<row>> \in Seq(Rows) /\ Len(front \o <<row>>) = i
      /\ (front \o <<row>>)[i] = row
      /\ \A k \in 1 .. i - 1 : (front \o <<row>>)[k] = file[k]
  BY <1>1
<1> DEFINE head == front \o <<row>>
<1> HIDE DEF head
<1>4. /\ head \o back \in Seq(Rows) /\ Len(head \o back) = Len(file) + 1
      /\ \A k \in 1 .. i : (head \o back)[k] = head[k]
      /\ \A k \in i .. Len(file) : (head \o back)[k + 1] = back[k + 1 - i]
  <2>1. head \in Seq(Rows) /\ Len(head) = i /\ i \in Nat /\ Len(file) \in Nat
    BY <1>3 DEF head
  <2>2. Len(head \o back) = Len(file) + 1 /\ head \o back \in Seq(Rows)
    <3>1. Len(back) = Len(file) - i + 1
      BY ONLY <1>2
    <3>2. head \o back \in Seq(Rows) /\ Len(head \o back) = Len(head) + Len(back)
      BY ONLY <1>2, <2>1, Joined
    <3> QED
      BY ONLY <2>1, <3>1, <3>2
  <2>3. \A k \in 1 .. Len(file) + 1 :
          (head \o back)[k] = IF k <= i THEN head[k] ELSE back[k - i]
    BY ONLY <1>2, <2>1
  <2> QED
    BY ONLY <2>1, <2>2, <2>3
<1>5. InsertAt(file, i, row) = head \o back
  BY DEF InsertAt, head, front, back
<1>6. \A k \in i .. Len(file) : back[k + 1 - i] = file[k]
  BY <1>2
<1>7. \A k \in 1 .. i - 1 : (head \o back)[k] = file[k]
  BY <1>3, <1>4 DEF head
<1> QED
  BY <1>3, <1>4, <1>5, <1>6, <1>7 DEF head

LEMMA BytesInserted ==
  ASSUME NEW file \in Seq(Rows), NEW i \in 1 .. Len(file) + 1, NEW row \in Rows
  PROVE  Bytes(InsertAt(file, i, row), Len(file) + 1) >= Bytes(file, Len(file))
<1> DEFINE new == InsertAt(file, i, row)
           n == Len(file)
           move(byte) == IF byte[1] < i THEN byte ELSE <<byte[1] + 1, byte[2]>>
           moved == [byte \in BytesOf(file, n) |-> move(byte)]
<1>1. /\ n \in Nat /\ i \in 1 .. n + 1
      /\ \A k \in 1 .. i - 1 : new[k] = file[k]
      /\ \A k \in i .. n : new[k + 1] = file[k]
  <2>1. /\ \A k \in 1 .. i - 1 : InsertAt(file, i, row)[k] = file[k]
        /\ \A k \in i .. Len(file) : InsertAt(file, i, row)[k + 1] = file[k]
    BY Inserted, ZenonT(60)
  <2>2. n \in Nat /\ i \in 1 .. n + 1
    OBVIOUS
  <2> QED
    BY <2>1, <2>2, Zenon
<1> HIDE DEF new
<1>2. ASSUME NEW byte \in BytesOf(file, n)
      PROVE  /\ byte = <<byte[1], byte[2]>> /\ byte[1] \in 1 .. n
             /\ move(byte) \in BytesOf(new, n + 1)
  <2>1. /\ byte = <<byte[1], byte[2]>> /\ byte[1] \in 1 .. n /\ byte[2] \in 1 .. MaxSize
        /\ byte[2] <= file[byte[1]].size
    BY <1>2 DEF BytesOf
  <2>2. CASE byte[1] < i
    BY <1>1, <2>1, <2>2 DEF BytesOf
  <2>3. CASE ~ (byte[1] < i)
    BY <1>1, <2>1, <2>3 DEF BytesOf
  <2> QED
    BY <2>1, <2>2, <2>3
<1>3. ASSUME NEW a \in BytesOf(file, n), NEW b \in BytesOf(file, n), move(a) = move(b)
      PROVE  a = b
  BY <1>1, <1>2, <1>3, SMTT(40)
<1>4. moved \in Injection(BytesOf(file, n), BytesOf(new, n + 1))
  <2>1. moved \in [BytesOf(file, n) -> BytesOf(new, n + 1)]
    BY <1>2
  <2>2. IsInjective(moved)
    <3> HIDE DEF move
    <3> QED
      BY <1>3 DEF IsInjective
  <2> QED
    BY <2>1, <2>2 DEF Injection
<1>5. IsFiniteSet(BytesOf(new, n + 1)) /\ n + 1 \in Nat
  BY <1>1, BytesFinite
<1>6. Cardinality(BytesOf(file, n)) <= Cardinality(BytesOf(new, n + 1))
  <2> HIDE DEF moved
  <2> QED
    BY ONLY <1>4, <1>5, FS_Injection
<1> QED
  BY <1>1, <1>5, <1>6, BytesFinite DEF new
-----------------------------------------------------------------------------
LEMMA CutSize ==
  ASSUME NEW size \in 1 .. 19, NEW before \in Nat, NEW n \in Nat, before <= n,
         before + size > n, n - before # 0
  PROVE  size - (n - before) \in 1 .. 19
OBVIOUS

(* What is left of a file behind its first n bytes: lines that begin after *)
(* them, and before these what is left of one that does not.               *)
LEMMA BehindRows ==
  ASSUME NEW file \in Seq(Rows), NEW n \in Nat
  PROVE  /\ Behind(file, n) \in Seq(Rows)
         /\ \A k \in 1 .. Len(Behind(file, n)) :
              \/ Behind(file, n)[k].key = "junk"
              \/ \E j \in 1 .. Len(file) :
                   Behind(file, n)[k] = file[j] /\ Bytes(file, j - 1) >= n
<1> DEFINE whole == {i \in 0 .. Len(file) : Bytes(file, i) <= n}
           top == Max(whole)
           rest == SubSeq(file, top + 1, Len(file))
           taken == n - Bytes(file, top)
<1>1. Len(file) \in Nat /\ whole \subseteq 0 .. Len(file) /\ 0 \in whole
  BY BytesZero
<1>2. top \in whole /\ \A i \in whole : top >= i
  <2> HIDE DEF whole
  <2> QED
    BY <1>1, MaxIs
<1>3. /\ top \in 0 .. Len(file) /\ Bytes(file, top) <= n /\ Bytes(file, top) \in Nat
      /\ top < Len(file) => Bytes(file, top + 1) > n /\ Bytes(file, top + 1) \in Nat
  <2>1. top \in 0 .. Len(file) /\ Bytes(file, top) <= n
    BY <1>2
  <2> HIDE DEF top
  <2>2. Bytes(file, top) \in Nat /\ Bytes(file, top + 1) \in Nat
    BY <2>1, BytesFinite
  <2>3. ASSUME top < Len(file), Bytes(file, top + 1) <= n
        PROVE  FALSE
    <3>1. top + 1 \in whole
      BY <1>1, <2>1, <2>3
    <3> QED
      BY <1>2, <2>1, <3>1
  <2> QED
    BY <2>1, <2>2, <2>3
<1> HIDE DEF top, whole
<1>4. /\ rest \in Seq(Rows) /\ Len(rest) = Len(file) - top
      /\ \A k \in 1 .. Len(rest) : k + top \in 1 .. Len(file) /\ rest[k] = file[k + top]
  BY <1>1, <1>3
<1> HIDE DEF rest
<1>5. \A j \in 1 .. Len(file) : j > top + 1 => Bytes(file, j - 1) >= n
  <2> TAKE j \in 1 .. Len(file)
  <2> HAVE j > top + 1
  <2>1. Bytes(file, top + 1) <= Bytes(file, j - 1) /\ Bytes(file, j - 1) \in Nat
    <3>1. top + 1 \in Nat /\ j - 1 \in Nat /\ top + 1 <= j - 1
      BY <1>3
    <3> QED
      BY ONLY <3>1, BytesGrow, BytesFinite
  <2> QED
    BY <1>3, <2>1
<1>6. CASE taken = 0 \/ rest = <<>>
  <2>1. Behind(file, n) = rest
    BY <1>6 DEF Behind, rest, top, whole
  <2>2. ASSUME NEW k \in 1 .. Len(rest)
        PROVE  \E j \in 1 .. Len(file) : rest[k] = file[j] /\ Bytes(file, j - 1) >= n
    <3>1. k + top \in 1 .. Len(file) /\ rest[k] = file[k + top]
      BY <1>4
    <3>2. CASE k = 1
      <4>1. rest # <<>>
        BY <2>2, <1>4
      <4>2. Bytes(file, top) = n
        BY <1>3, <1>6, <4>1
      <4> QED
        BY <1>3, <3>1, <3>2, <4>2
    <3>3. CASE k # 1
      BY <1>3, <1>5, <3>1, <3>3
    <3> QED
      BY <3>2, <3>3
  <2> QED
    BY <1>4, <2>1, <2>2
<1>7. CASE taken # 0 /\ rest # <<>>
  <2> DEFINE first == Junk(rest[1].size - taken)
  <2>1. Behind(file, n) = <<first>> \o Tail(rest)
    BY <1>7 DEF Behind, rest, top, whole
  <2>2. Len(rest) >= 1 /\ rest[1] = file[1 + top] /\ top < Len(file)
    BY <1>3, <1>4, <1>7
  <2>3. first \in Rows /\ first.key = "junk"
    <3>1. Bytes(file, top + 1) = Bytes(file, top) + file[top + 1].size
      <4>1. top + 1 \in 1 .. Len(file) /\ (top + 1) - 1 = top
        BY <1>3, <2>2
      <4> QED
        BY <4>1, BytesStep
    <3>2. file[top + 1] \in Rows
      BY <1>3, <2>2
    <3>3. file[top + 1].size \in 1 .. 19
      BY <3>2, RowType
    <3>4. rest[1].size - taken \in 1 .. 19
      <4>1. rest[1].size = file[top + 1].size
        BY <1>3, <2>2
      <4>2. /\ Bytes(file, top + 1) > n /\ Bytes(file, top) <= n
            /\ Bytes(file, top) \in Nat
        BY <1>3, <2>2
      <4>3. n - Bytes(file, top) # 0
        BY <1>7
      <4>4. file[top + 1].size - (n - Bytes(file, top)) \in 1 .. 19
        BY ONLY <3>1, <3>3, <4>2, <4>3, n \in Nat, CutSize
      <4> QED
        BY <4>1, <4>4
    <3> QED
      BY <3>4 DEF Junk, Rows, MaxSize
  <2>4. /\ Tail(rest) \in Seq(Rows) /\ Len(Tail(rest)) = Len(rest) - 1
        /\ \A k \in 1 .. Len(rest) - 1 : Tail(rest)[k] = rest[k + 1]
    BY <1>4, <1>7
  <2> DEFINE tail == Tail(rest)
  <2> HIDE DEF first, tail
  <2>5. /\ <<first>> \o tail \in Seq(Rows)
        /\ Len(<<first>> \o tail) = Len(rest)
        /\ (<<first>> \o tail)[1] = first
        /\ \A k \in 2 .. Len(rest) : (<<first>> \o tail)[k] = rest[k]
    <3>1. /\ tail \in Seq(Rows) /\ Len(tail) = Len(rest) - 1
          /\ \A k \in 1 .. Len(rest) - 1 : tail[k] = rest[k + 1]
      BY <2>4 DEF tail
    <3>2. <<first>> \in Seq(Rows) /\ Len(<<first>>) = 1 /\ <<first>>[1] = first
      BY <2>3
    <3>3. /\ <<first>> \o tail \in Seq(Rows)
          /\ Len(<<first>> \o tail) = 1 + Len(tail)
          /\ (<<first>> \o tail)[1] = first
          /\ \A k \in 1 .. Len(tail) : (<<first>> \o tail)[k + 1] = tail[k]
      BY ONLY <3>1, <3>2, Joined
    <3>4. Len(rest) \in Nat
      BY <1>4
    <3>5. Len(<<first>> \o tail) = Len(rest)
      BY ONLY <3>1, <3>3, <3>4
    <3>6. ASSUME NEW k \in 2 .. Len(rest)
          PROVE  (<<first>> \o tail)[k] = rest[k]
      <4>1. k - 1 \in 1 .. Len(rest) - 1 /\ (k - 1) + 1 = k
        BY ONLY <3>4, <3>6
      <4>2. k - 1 \in 1 .. Len(tail)
        BY ONLY <3>1, <4>1
      <4>3. (<<first>> \o tail)[(k - 1) + 1] = tail[k - 1]
        BY ONLY <3>3, <4>2, Zenon
      <4>4. tail[k - 1] = rest[(k - 1) + 1]
        BY ONLY <3>1, <4>1, Zenon
      <4> QED
        BY ONLY <4>1, <4>3, <4>4, Zenon
    <3> QED
      BY ONLY <3>3, <3>5, <3>6
  <2>6. ASSUME NEW k \in 1 .. Len(rest), k # 1
        PROVE  \E j \in 1 .. Len(file) : rest[k] = file[j] /\ Bytes(file, j - 1) >= n
    BY <1>3, <1>4, <1>5, <2>6
  <2> QED
    BY <2>1, <2>3, <2>5, <2>6, SMTT(40) DEF tail
<1> QED
  BY <1>6, <1>7

(* When no more than two bytes of a regular file are left, they are junk.  *)
LEMMA LeftIsJunk ==
  ASSUME NEW file \in Seq(Rows), \A i \in DOMAIN file : Regular(file[i]),
         NEW n \in Nat, n >= Bytes(file, Len(file)) - 2
  PROVE  /\ Behind(file, n) \in Seq(Rows)
         /\ \A k \in 1 .. Len(Behind(file, n)) : Behind(file, n)[k].key = "junk"
<1>1. ASSUME NEW j \in 1 .. Len(file), Bytes(file, j - 1) >= n
      PROVE  file[j].key = "junk"
  <2>1. file[j] \in Rows /\ Regular(file[j])
    OBVIOUS
  <2>2. Bytes(file, j) = Bytes(file, j - 1) + file[j].size
    BY BytesStep
  <2>3. Bytes(file, j) <= Bytes(file, Len(file))
    BY BytesGrow
  <2>4. /\ Bytes(file, j) \in Nat /\ Bytes(file, j - 1) \in Nat
        /\ Bytes(file, Len(file)) \in Nat
    BY BytesFinite
  <2>5. file[j].size \in Nat /\ file[j].size <= 2
    BY <1>1, <2>1, <2>2, <2>3, <2>4, RowType
  <2> QED
    BY <2>1, <2>5 DEF Regular, Line, Keys
<1>2. ASSUME NEW k \in 1 .. Len(Behind(file, n))
      PROVE  Behind(file, n)[k].key = "junk"
  <2>1. CASE \E j \in 1 .. Len(file) :
               Behind(file, n)[k] = file[j] /\ Bytes(file, j - 1) >= n
    BY <1>1, <2>1
  <2> QED
    BY <2>1, BehindRows
<1> QED
  BY <1>2, BehindRows
-----------------------------------------------------------------------------
(* Where a file in order has its keys.                                     *)
LEMMA SectionRange ==
  ASSUME NEW file \in Seq(Rows), NEW key
  PROVE  /\ SectionAt(file, key) \in 0 .. Len(file)
         /\ \A i \in 1 .. Len(file) :
              file[i].key = SectionOf(key) =>
                SectionAt(file, key) >= 1 /\ file[SectionAt(file, key)].key = SectionOf(key)
<1> DEFINE I == {i \in 1 .. Len(file) : file[i].key = SectionOf(key)}
<1>1. SectionAt(file, key) = IF I # {} THEN Min(I) ELSE 0
  BY DEF SectionAt, SelectInSeq
<1>2. I # {} => Min(I) \in I
  <2>1. I \subseteq Nat
    OBVIOUS
  <2> HIDE DEF I
  <2> QED
    BY <2>1, MinIs
<1>3. CASE I = {}
  <2>1. SectionAt(file, key) = 0 /\ 0 \in 0 .. Len(file)
    BY <1>1, <1>3
  <2> QED
    BY <1>3, <2>1
<1>4. CASE I # {}
  <2>1. SectionAt(file, key) \in I
    BY ONLY <1>1, <1>2, <1>4
  <2> QED
    BY <2>1
<1> QED
  BY <1>3, <1>4

LEMMA KeyNames ==
  \A key \in Keys : /\ SectionOf(key) \in {"[sys]", "[report]"}
                    /\ SectionOf(key) \notin Keys
                    /\ key # "junk" /\ SectionOf(key) # "junk"
BY DEF Keys, SectionOf

LEMMA SectionFound ==
  ASSUME NEW file \in Seq(Rows), InOrder(file), NEW key \in Keys
  PROVE  /\ SectionAt(file, key) \in 1 .. Len(file)
         /\ file[SectionAt(file, key)].key = SectionOf(key)
         /\ \A i \in 1 .. Len(file) : file[i].key = SectionOf(key) => i = SectionAt(file, key)
<1>1. DOMAIN file = 1 .. Len(file) /\ Len(file) \in Nat
  OBVIOUS
<1>2. PICK i \in 1 .. Len(file) : file[i].key = SectionOf(key)
  BY <1>1, KeyNames DEF InOrder
<1>3. SectionAt(file, key) \in 1 .. Len(file) /\ file[SectionAt(file, key)].key = SectionOf(key)
  BY <1>1, <1>2, SectionRange
<1>4. ASSUME NEW j \in 1 .. Len(file), file[j].key = SectionOf(key)
      PROVE  j = SectionAt(file, key)
  BY <1>1, <1>3, <1>4, KeyNames DEF InOrder
<1> QED
  BY <1>3, <1>4

(* A key is behind its section, with nothing but keys between.             *)
LEMMA KeyBehind ==
  ASSUME NEW file \in Seq(Rows), InOrder(file), NEW j \in 1 .. Len(file), file[j].key \in Keys
  PROVE  /\ SectionAt(file, file[j].key) < j
         /\ \A m \in SectionAt(file, file[j].key) + 1 .. j - 1 : file[m].key \in Keys
<1>1. DOMAIN file = 1 .. Len(file) /\ Len(file) \in Nat
  OBVIOUS
<1>2. PICK i \in 1 .. j - 1 : /\ file[i].key = SectionOf(file[j].key)
                             /\ \A m \in i + 1 .. j - 1 : file[m].key \in Keys
  BY <1>1 DEF InOrder
<1>3. i = SectionAt(file, file[j].key)
  <2>1. i \in 1 .. Len(file)
    BY <1>1
  <2> QED
    BY <1>2, <2>1, SectionFound
<1> QED
  BY <1>2, <1>3

LEMMA PlaceIs ==
  ASSUME NEW file \in Seq(Rows), InOrder(file), NEW j \in 1 .. Len(file), file[j].key \in Keys
  PROVE  ValueOf(file, file[j].key) = file[j].val
<1> DEFINE key == file[j].key
           sec == SectionAt(file, key)
           sections == {i \in DOMAIN file : i > sec /\ file[i].key \in {"[sys]", "[report]"}}
           found == {i \in DOMAIN file : i > sec /\ file[i].key = key /\ \A n \in sections : i < n}
<1>1. DOMAIN file = 1 .. Len(file) /\ Len(file) \in Nat /\ key \in Keys
  OBVIOUS
<1>2. /\ sec \in 1 .. Len(file) /\ sec < j
      /\ \A m \in sec + 1 .. j - 1 : file[m].key \in Keys
  BY SectionFound, KeyBehind
<1>3. \A n \in sections : j < n
  <2> TAKE n \in sections
  <2>1. n \in 1 .. Len(file) /\ n > sec /\ file[n].key \notin Keys
    BY <1>1 DEF Keys
  <2> HIDE DEF sec, sections
  <2>2. n # j
    BY <1>1, <2>1
  <2>3. ~ (n < j)
    BY <1>2, <2>1
  <2> QED
    BY <2>1, <2>2, <2>3
<1>4. found = {j}
  <2>1. j \in found
    <3> HIDE DEF sec, sections
    <3> QED
      BY <1>1, <1>2, <1>3
  <2>2. ASSUME NEW i \in found PROVE i = j
    BY <1>1, <2>2, KeyNames DEF InOrder
  <2> QED
    BY <2>1, <2>2
<1>5. PlaceOf(file, key) = j
  <2>1. Min({j}) = j
    BY DEF Min
  <2>2. PlaceOf(file, key) = IF found = {} THEN 0 ELSE Min(found)
    BY DEF PlaceOf
  <2> HIDE DEF found
  <2> QED
    BY <1>4, <2>1, <2>2
<1> QED
  BY <1>5 DEF ValueOf

LEMMA NoPlace ==
  ASSUME NEW file \in Seq(Rows), NEW key, \A j \in 1 .. Len(file) : file[j].key # key
  PROVE  ValueOf(file, key) = 0
<1>1. PlaceOf(file, key) = 0
  BY DEF PlaceOf
<1> QED
  BY <1>1 DEF ValueOf

LEMMA ValueType ==
  ASSUME NEW file \in Seq(Rows), InOrder(file), NEW key \in Keys
  PROVE  ValueOf(file, key) \in Nat
<1>1. CASE \E j \in 1 .. Len(file) : file[j].key = key
  <2>1. PICK j \in 1 .. Len(file) : file[j].key = key
    BY <1>1
  <2>2. ValueOf(file, key) = file[j].val /\ file[j] \in Rows
    BY <2>1, PlaceIs
  <2> QED
    BY <2>2, RowType
<1>2. CASE \A j \in 1 .. Len(file) : file[j].key # key
  BY <1>2, NoPlace
<1> QED
  BY <1>1, <1>2

(* Two files with the same rows of a key give it the same value.           *)
LEMMA SameValue ==
  ASSUME NEW f \in Seq(Rows), InOrder(f), NEW g \in Seq(Rows), InOrder(g), NEW key \in Keys,
         \A j \in 1 .. Len(f) :
           f[j].key = key => \E m \in 1 .. Len(g) : g[m] = f[j],
         \A m \in 1 .. Len(g) :
           g[m].key = key => \E j \in 1 .. Len(f) : f[j].key = key
  PROVE  ValueOf(g, key) = ValueOf(f, key)
<1>1. CASE \E j \in 1 .. Len(f) : f[j].key = key
  <2>1. PICK j \in 1 .. Len(f) : f[j].key = key
    BY <1>1
  <2>2. PICK m \in 1 .. Len(g) : g[m] = f[j]
    BY <2>1
  <2>3. ValueOf(f, key) = f[j].val
    BY <2>1, PlaceIs
  <2>4. ValueOf(g, key) = g[m].val
    BY <2>1, <2>2, PlaceIs
  <2> QED
    BY <2>2, <2>3, <2>4
<1>2. CASE \A j \in 1 .. Len(f) : f[j].key # key
  BY <1>2, NoPlace
<1> QED
  BY <1>1, <1>2
-----------------------------------------------------------------------------
(* Lines behind a file that are junk change nothing.                       *)
LEMMA JunkBehind ==
  ASSUME NEW file \in Seq(Rows), InOrder(file), NEW left \in Seq(Rows),
         \A k \in 1 .. Len(left) : left[k].key = "junk"
  PROVE  /\ InOrder(file \o left)
         /\ \A key \in Keys : ValueOf(file \o left, key) = ValueOf(file, key)
<1> DEFINE all == file \o left
<1>1. /\ all \in Seq(Rows) /\ Len(all) = Len(file) + Len(left)
      /\ \A k \in 1 .. Len(file) : all[k] = file[k]
      /\ \A k \in 1 .. Len(left) : all[k + Len(file)] = left[k]
  BY Joined
<1>2. /\ DOMAIN file = 1 .. Len(file) /\ Len(file) \in Nat
      /\ DOMAIN all = 1 .. Len(all) /\ Len(left) \in Nat
  BY <1>1
<1> HIDE DEF all
<1>3. \A k \in 1 .. Len(file) : k \in 1 .. Len(all)
  BY <1>1, <1>2
<1>4. ASSUME NEW k \in 1 .. Len(all), all[k].key # "junk"
      PROVE  k \in 1 .. Len(file) /\ all[k] = file[k]
  <2>1. ASSUME k > Len(file) PROVE FALSE
    <3>1. k - Len(file) \in 1 .. Len(left) /\ (k - Len(file)) + Len(file) = k
      BY <1>1, <1>2, <2>1
    <3>2. all[k] = left[k - Len(file)]
      BY <1>1, <3>1
    <3> QED
      BY <1>4, <3>1, <3>2
  <2> QED
    BY <1>1, <1>2, <2>1
<1>5. InOrder(all)
  <2>1. ASSUME NEW i \in DOMAIN all
        PROVE  Regular(all[i])
    <3>1. CASE all[i].key = "junk"
      BY <3>1 DEF Regular
    <3>2. CASE all[i].key # "junk"
      <4>1. i \in DOMAIN file /\ all[i] = file[i]
        BY <1>2, <1>4, <3>2
      <4>2. Regular(file[i])
        BY <4>1 DEF InOrder
      <4> QED
        BY <4>1, <4>2
    <3> QED
      BY <3>1, <3>2
  <2>2. ASSUME NEW i \in DOMAIN all, NEW j \in DOMAIN all, all[i].key = all[j].key, i # j
        PROVE  all[i].key = "junk"
    <3>1. SUFFICES ASSUME all[i].key # "junk" PROVE FALSE
      OBVIOUS
    <3>2. i \in 1 .. Len(file) /\ j \in 1 .. Len(file) /\ all[i] = file[i] /\ all[j] = file[j]
      BY <1>2, <1>4, <2>2, <3>1
    <3> QED
      BY <1>2, <2>2, <3>1, <3>2 DEF InOrder
  <2>3. ASSUME NEW name \in {"[sys]", "[report]"}
        PROVE  \E i \in DOMAIN all : all[i].key = name
    <3>1. PICK i \in 1 .. Len(file) : file[i].key = name
      BY <1>2 DEF InOrder
    <3> QED
      BY <1>1, <1>2, <1>3, <3>1
  <2>4. ASSUME NEW j \in DOMAIN all, all[j].key \in Keys
        PROVE  \E i \in 1 .. j - 1 : /\ all[i].key = SectionOf(all[j].key)
                                    /\ \A m \in i + 1 .. j - 1 : all[m].key \in Keys
    <3>1. j \in 1 .. Len(file) /\ all[j] = file[j]
      BY <1>2, <1>4, <2>4, KeyNames
    <3>2. PICK i \in 1 .. j - 1 : /\ file[i].key = SectionOf(file[j].key)
                                 /\ \A m \in i + 1 .. j - 1 : file[m].key \in Keys
      BY <1>2, <2>4, <3>1 DEF InOrder
    <3>3. \A m \in 1 .. j - 1 : all[m] = file[m]
      BY <1>1, <1>2, <3>1
    <3>4. \A m \in i + 1 .. j - 1 : m \in 1 .. j - 1
      BY <1>2, <3>1
    <3> QED
      BY <3>1, <3>2, <3>3, <3>4
  <2> QED
    BY <2>1, <2>2, <2>3, <2>4 DEF InOrder
<1>6. ASSUME NEW key \in Keys
      PROVE  ValueOf(all, key) = ValueOf(file, key)
  <2>1. \A j \in 1 .. Len(file) :
          file[j].key = key => \E m \in 1 .. Len(all) : all[m] = file[j]
    BY <1>1, <1>3
  <2>2. \A m \in 1 .. Len(all) :
          all[m].key = key => \E j \in 1 .. Len(file) : file[j].key = key
    BY <1>4, KeyNames
  <2> QED
    BY <1>1, <1>5, <2>1, <2>2, SameValue
<1> QED
  BY <1>5, <1>6 DEF all

(* The lines the program writes.                                           *)
LEMMA LineIs ==
  ASSUME NEW key \in Keys, NEW val \in Nat, NEW digits \in 1 .. 3
  PROVE  /\ Line(key, val, digits) \in Rows
         /\ Line(key, val, digits).key = key
         /\ Line(key, val, digits).val = val
         /\ Regular(Line(key, val, digits))
         /\ \A row \in Rows :
              row.key = key /\ Regular(row) => row.size <= Line(key, val, digits).size + 2
<1> DEFINE line == Line(key, val, digits)
<1>1. line.key = key /\ line.val = val
  BY DEF Line
<1>2. \A d \in 1 .. 3, v \in Nat :
        /\ Line(key, v, d).size = Line(key, 0, d).size
        /\ Line(key, v, d).size \in 10 .. 19
        /\ Line(key, v, d).size <= line.size + 2
  BY DEF Line, Keys
<1>3. line \in Rows
  <2>1. (CASE key = "result" -> 10 [] key = "Percent" -> 10 + digits
           [] key = "date" -> 19 [] key = "is1thBoot" -> 13) \in 1 .. MaxSize
    BY DEF Keys, MaxSize
  <2> QED
    BY <2>1 DEF Line, Rows
<1>4. Regular(line)
  <2>1. line.size = Line(line.key, 0, digits).size
    BY <1>1, <1>2
  <2> HIDE DEF line
  <2> QED
    BY <1>1, <2>1 DEF Regular
<1>5. ASSUME NEW row \in Rows, row.key = key, Regular(row)
      PROVE  row.size <= line.size + 2
  <2>1. PICK d \in 1 .. 3 : row.size = Line(key, 0, d).size
    BY <1>5 DEF Regular, Keys
  <2> QED
    BY <1>2, <2>1
<1> QED
  BY <1>1, <1>3, <1>4, <1>5
-----------------------------------------------------------------------------
(* SetLine: the line it changes, or in front of which it puts a new one.   *)
Spot(file, key) ==
  Min({j \in SectionAt(file, key) + 1 .. Len(file) : file[j].key \notin Keys \ {key}}
      \cup {Len(file) + 1})

LEMMA SpotIs ==
  ASSUME NEW file \in Seq(Rows), NEW key
  PROVE  /\ Spot(file, key) \in SectionAt(file, key) + 1 .. Len(file) + 1
         /\ Spot(file, key) \in 1 .. Len(file) + 1
         /\ \A j \in SectionAt(file, key) + 1 .. Spot(file, key) - 1 :
              file[j].key \in Keys \ {key}
         /\ Spot(file, key) <= Len(file) => file[Spot(file, key)].key \notin Keys \ {key}
<1> DEFINE sec == SectionAt(file, key)
           S == {j \in sec + 1 .. Len(file) : file[j].key \notin Keys \ {key}}
                  \cup {Len(file) + 1}
           i == Spot(file, key)
<1>1. sec \in 0 .. Len(file) /\ Len(file) \in Nat
  BY SectionRange
<1> HIDE DEF sec
<1>2. S \subseteq Nat /\ S # {}
  BY <1>1
<1>3. i = Min(S)
  BY DEF Spot, sec
<1>4. i \in S /\ \A j \in S : i <= j
  <2> HIDE DEF S, i
  <2> QED
    BY <1>2, <1>3, MinIs
<1> HIDE DEF i
<1>5. i \in sec + 1 .. Len(file) + 1
  BY <1>1, <1>4
<1>6. ASSUME NEW j \in sec + 1 .. i - 1
      PROVE  file[j].key \in Keys \ {key}
  <2>1. j \in sec + 1 .. Len(file) /\ ~ (i <= j)
    BY <1>1, <1>5
  <2>2. j \notin S
    <3> HIDE DEF S
    <3> QED
      BY <1>4, <2>1
  <2> QED
    BY <2>1, <2>2
<1>7. i <= Len(file) => file[i].key \notin Keys \ {key}
  BY <1>1, <1>4
<1>8. i \in 1 .. Len(file) + 1
  BY <1>1, <1>5
<1> QED
  BY <1>5, <1>6, <1>7, <1>8 DEF i, sec

LEMMA SetLineIs ==
  ASSUME NEW file \in Seq(Rows), NEW row
  PROVE  SetLine(file, row) =
           LET i == Spot(file, row.key) IN
           IF i <= Len(file) /\ file[i].key = row.key
             THEN [file EXCEPT ![i] = row] ELSE InsertAt(file, i, row)
BY Zenon DEF SetLine, Spot

LEMMA SetLineRows ==
  ASSUME NEW file \in Seq(Rows), NEW row \in Rows
  PROVE  SetLine(file, row) \in Seq(Rows)
<1> DEFINE i == Spot(file, row.key)
<1>1. i \in 1 .. Len(file) + 1
  BY SpotIs
<1>2. i <= Len(file) => [file EXCEPT ![i] = row] \in Seq(Rows)
  <2> HIDE DEF i
  <2>1. ASSUME i \in 1 .. Len(file) PROVE [file EXCEPT ![i] = row] \in Seq(Rows)
    BY <2>1
  <2> QED
    BY <1>1, <2>1
<1>3. InsertAt(file, i, row) \in Seq(Rows)
  BY ONLY <1>1, file \in Seq(Rows), row \in Rows, Inserted
<1> QED
  BY <1>2, <1>3, SetLineIs

LEMMA ReplacedInOrder ==
  ASSUME NEW file \in Seq(Rows), InOrder(file), NEW i \in 1 .. Len(file), NEW row \in Rows,
         Regular(row), row.key \in Keys, file[i].key = row.key
  PROVE  LET new == [file EXCEPT ![i] = row] IN
         /\ InOrder(new)
         /\ ValueOf(new, row.key) = row.val
         /\ \A key \in Keys \ {row.key} : ValueOf(new, key) = ValueOf(file, key)
<1> DEFINE new == [file EXCEPT ![i] = row]
<1>1. /\ new \in Seq(Rows) /\ Len(new) = Len(file) /\ Len(file) \in Nat
      /\ DOMAIN new = 1 .. Len(file) /\ DOMAIN file = 1 .. Len(file)
      /\ new[i] = row
      /\ \A k \in 1 .. Len(file) : k # i => new[k] = file[k]
  OBVIOUS
<1> HIDE DEF new
<1>2. \A k \in 1 .. Len(file) : new[k].key = file[k].key
  BY <1>1
<1>3. InOrder(new)
  <2>1. \A k \in DOMAIN new : Regular(new[k])
    BY <1>1 DEF InOrder
  <2>2. \A a, b \in DOMAIN new : new[a].key = new[b].key /\ a # b => new[a].key = "junk"
    BY <1>1, <1>2 DEF InOrder
  <2>3. \A name \in {"[sys]", "[report]"} : \E k \in DOMAIN new : new[k].key = name
    BY <1>1, <1>2 DEF InOrder
  <2>4. ASSUME NEW j \in DOMAIN new, new[j].key \in Keys
        PROVE  \E k \in 1 .. j - 1 : /\ new[k].key = SectionOf(new[j].key)
                                    /\ \A m \in k + 1 .. j - 1 : new[m].key \in Keys
    <3>1. j \in 1 .. Len(file) /\ new[j].key = file[j].key
      BY <1>1, <1>2
    <3>2. PICK k \in 1 .. j - 1 : /\ file[k].key = SectionOf(file[j].key)
                                 /\ \A m \in k + 1 .. j - 1 : file[m].key \in Keys
      BY <1>1, <2>4, <3>1 DEF InOrder
    <3>3. \A m \in 1 .. j - 1 : new[m].key = file[m].key
      BY <1>1, <1>2, <3>1
    <3>4. \A m \in k + 1 .. j - 1 : m \in 1 .. j - 1
      BY <3>1
    <3> QED
      BY <3>1, <3>2, <3>3, <3>4
  <2> QED
    BY <2>1, <2>2, <2>3, <2>4 DEF InOrder
<1>4. ValueOf(new, row.key) = row.val
  BY <1>1, <1>3, PlaceIs
<1>5. ASSUME NEW key \in Keys \ {row.key}
      PROVE  ValueOf(new, key) = ValueOf(file, key)
  <2>1. \A j \in 1 .. Len(file) : file[j].key = key => new[j] = file[j]
    BY <1>1
  <2>2. \A m \in 1 .. Len(new) :
          new[m].key = key => \E j \in 1 .. Len(file) : file[j].key = key
    BY <1>1, <1>2
  <2> QED
    BY <1>1, <1>3, <2>1, <2>2, SameValue
<1> QED
  BY <1>3, <1>4, <1>5 DEF new

LEMMA InsertedInOrder ==
  ASSUME NEW file \in Seq(Rows), InOrder(file), NEW row \in Rows, Regular(row),
         row.key \in Keys, \A j \in 1 .. Len(file) : file[j].key # row.key,
         NEW i \in SectionAt(file, row.key) + 1 .. Len(file) + 1,
         \A j \in SectionAt(file, row.key) + 1 .. i - 1 : file[j].key \in Keys,
         i <= Len(file) => file[i].key \notin Keys
  PROVE  LET new == InsertAt(file, i, row) IN
         /\ InOrder(new)
         /\ ValueOf(new, row.key) = row.val
         /\ \A key \in Keys \ {row.key} : ValueOf(new, key) = ValueOf(file, key)
<1> DEFINE new == InsertAt(file, i, row)
           sec == SectionAt(file, row.key)
           n == Len(file)
<1>1. /\ sec \in 1 .. n /\ n \in Nat /\ i \in 1 .. n + 1 /\ sec < i
      /\ file[sec].key = SectionOf(row.key)
  BY SectionFound
<1>2. /\ new \in Seq(Rows) /\ Len(new) = n + 1 /\ new[i] = row
      /\ DOMAIN new = 1 .. n + 1 /\ DOMAIN file = 1 .. n
      /\ \A k \in 1 .. i - 1 : new[k] = file[k]
      /\ \A k \in i .. n : new[k + 1] = file[k]
  <2>1. /\ new \in Seq(Rows) /\ Len(new) = n + 1 /\ new[i] = row
        /\ \A k \in 1 .. i - 1 : new[k] = file[k]
        /\ \A k \in i .. n : new[k + 1] = file[k]
    BY <1>1, Inserted
  <2> HIDE DEF new
  <2>2. DOMAIN new = 1 .. n + 1 /\ DOMAIN file = 1 .. n
    BY <2>1
  <2> QED
    BY <2>1, <2>2
<1> HIDE DEF new, sec
<1> DEFINE old(m) == IF m < i THEN m ELSE m - 1
           pos(k) == IF k < i THEN k ELSE k + 1
<1>3. \A m \in 1 .. n + 1 : m # i =>
        old(m) \in 1 .. n /\ new[m] = file[old(m)] /\ pos(old(m)) = m
  <2> TAKE m \in 1 .. n + 1
  <2> HAVE m # i
  <2>1. CASE m < i
    BY <1>1, <1>2, <2>1
  <2>2. CASE m > i
    <3>1. m - 1 \in i .. n /\ (m - 1) + 1 = m /\ ~ (m < i) /\ ~ (m - 1 < i)
      BY <1>1, <2>2
    <3>2. new[m] = file[m - 1]
      BY <1>2, <3>1
    <3> QED
      BY <1>1, <3>1, <3>2
  <2> QED
    BY <1>1, <2>1, <2>2
<1>4. \A k \in 1 .. n : pos(k) \in 1 .. n + 1 /\ pos(k) # i /\ new[pos(k)] = file[k]
  BY <1>1, <1>2
<1>5. InOrder(new)
  <2>1. ASSUME NEW m \in DOMAIN new PROVE Regular(new[m])
    <3>1. CASE m = i
      BY <1>2, <3>1
    <3>2. CASE m # i
      <4>1. old(m) \in 1 .. n /\ new[m] = file[old(m)]
        BY <1>2, <1>3, <3>2
      <4> HIDE DEF old
      <4> QED
        BY <1>2, <4>1 DEF InOrder
    <3> QED
      BY <3>1, <3>2
  <2>2. ASSUME NEW a \in DOMAIN new, NEW b \in DOMAIN new, new[a].key = new[b].key, a # b
        PROVE  new[a].key = "junk"
    <3>1. CASE a = i
      <4>1. old(b) \in 1 .. n /\ new[b] = file[old(b)]
        BY <1>2, <1>3, <2>2, <3>1
      <4> HIDE DEF old
      <4> QED
        BY <1>2, <2>2, <3>1, <4>1
    <3>2. CASE b = i
      <4>1. old(a) \in 1 .. n /\ new[a] = file[old(a)]
        BY <1>2, <1>3, <2>2, <3>2
      <4> HIDE DEF old
      <4> QED
        BY <1>2, <2>2, <3>2, <4>1
    <3>3. CASE a # i /\ b # i
      <4>1. /\ old(a) \in 1 .. n /\ new[a] = file[old(a)] /\ pos(old(a)) = a
            /\ old(b) \in 1 .. n /\ new[b] = file[old(b)] /\ pos(old(b)) = b
        BY <1>2, <1>3, <3>3
      <4> HIDE DEF old, pos
      <4>2. old(a) # old(b)
        BY <2>2, <4>1
      <4> QED
        BY <1>2, <2>2, <4>1, <4>2 DEF InOrder
    <3> QED
      BY <3>1, <3>2, <3>3
  <2>3. ASSUME NEW name \in {"[sys]", "[report]"}
        PROVE  \E m \in DOMAIN new : new[m].key = name
    <3>1. PICK k \in 1 .. n : file[k].key = name
      BY <1>2 DEF InOrder
    <3>2. pos(k) \in 1 .. n + 1 /\ new[pos(k)] = file[k]
      BY <1>4
    <3> HIDE DEF pos
    <3> QED
      BY <1>2, <3>1, <3>2
  <2>4. ASSUME NEW j \in DOMAIN new, new[j].key \in Keys
        PROVE  \E k \in 1 .. j - 1 : /\ new[k].key = SectionOf(new[j].key)
                                    /\ \A m \in k + 1 .. j - 1 : new[m].key \in Keys
    <3>1. CASE j = i
      <4>1. sec \in 1 .. j - 1 /\ new[sec] = file[sec]
        BY <1>1, <1>2, <3>1
      <4>2. ASSUME NEW m \in sec + 1 .. j - 1 PROVE new[m].key \in Keys
        <5>1. m \in 1 .. i - 1 /\ m \in sec + 1 .. i - 1
          BY <1>1, <3>1
        <5> QED
          BY <1>2, <5>1 DEF sec
      <4> QED
        BY <1>1, <1>2, <3>1, <4>1, <4>2
    <3>2. CASE j < i
      <4>1. j \in 1 .. n /\ \A m \in 1 .. j : new[m] = file[m]
        BY <1>1, <1>2, <3>2
      <4>2. PICK k \in 1 .. j - 1 : /\ file[k].key = SectionOf(file[j].key)
                                   /\ \A m \in k + 1 .. j - 1 : file[m].key \in Keys
        BY <1>2, <2>4, <4>1 DEF InOrder
      <4>3. new[k] = file[k] /\ new[j] = file[j]
        BY <4>1
      <4>4. \A m \in k + 1 .. j - 1 : new[m] = file[m]
        BY <4>1
      <4> QED
        BY <4>2, <4>3, <4>4
    <3>3. CASE j > i
      <4> DEFINE o == j - 1
      <4>1. o \in i .. n /\ o \in 1 .. n /\ o + 1 = j
        BY <1>1, <1>2, <3>3
      <4> HIDE DEF o
      <4>2. new[j] = file[o] /\ file[o].key \in Keys
        <5>1. new[o + 1] = file[o]
          BY <1>2, <4>1
        <5> QED
          BY <2>4, <4>1, <5>1
      <4>3. PICK k \in 1 .. o - 1 : /\ file[k].key = SectionOf(file[o].key)
                                   /\ \A m \in k + 1 .. o - 1 : file[m].key \in Keys
        BY <1>2, <4>1, <4>2 DEF InOrder
      <4>4. k >= i
        <5>1. ASSUME k < i PROVE FALSE
          <6>1. i <= n /\ file[i].key \notin Keys
            BY <1>1, <4>1
          <6>2. i # o
            BY <4>2, <6>1
          <6>3. i \in k + 1 .. o - 1
            BY <1>1, <4>1, <5>1, <6>2
          <6> QED
            BY <4>3, <6>1, <6>3
        <5> QED
          BY <1>1, <4>1, <5>1
      <4>5. k + 1 \in 1 .. j - 1 /\ new[k + 1] = file[k]
        <5>1. k \in i .. n
          BY <1>1, <4>1, <4>4
        <5> QED
          BY <1>1, <1>2, <4>1, <5>1
      <4>6. ASSUME NEW m \in (k + 1) + 1 .. j - 1
            PROVE  new[m].key \in Keys
        <5>1. m - 1 \in i .. n /\ m - 1 \in k + 1 .. o - 1 /\ (m - 1) + 1 = m
          BY <1>1, <4>1, <4>4
        <5>2. new[(m - 1) + 1] = file[m - 1]
          BY <1>2, <5>1
        <5> QED
          BY <4>3, <5>1, <5>2
      <4> QED
        BY <4>2, <4>3, <4>5, <4>6
    <3> QED
      BY <1>1, <1>2, <3>1, <3>2, <3>3
  <2> QED
    BY <2>1, <2>2, <2>3, <2>4 DEF InOrder
<1>6. ValueOf(new, row.key) = row.val
  BY <1>1, <1>2, <1>5, PlaceIs
<1>7. ASSUME NEW key \in Keys \ {row.key}
      PROVE  ValueOf(new, key) = ValueOf(file, key)
  <2>1. ASSUME NEW j \in 1 .. Len(file), file[j].key = key
        PROVE  \E m \in 1 .. Len(new) : new[m] = file[j]
    <3>1. pos(j) \in 1 .. n + 1 /\ new[pos(j)] = file[j]
      BY <1>4
    <3> HIDE DEF pos
    <3> QED
      BY <1>2, <3>1
  <2>2. ASSUME NEW m \in 1 .. Len(new), new[m].key = key
        PROVE  \E j \in 1 .. Len(file) : file[j].key = key
    <3>1. m # i
      BY <1>2, <2>2
    <3>2. old(m) \in 1 .. n /\ new[m] = file[old(m)]
      BY <1>2, <1>3, <3>1
    <3> HIDE DEF old
    <3> QED
      BY <2>2, <3>2
  <2> QED
    BY <1>2, <1>5, <2>1, <2>2, SameValue
<1> QED
  BY <1>5, <1>6, <1>7 DEF new

(* SetLine keeps a file in order and sets its key, and no other; and the   *)
(* new file is at most two bytes shorter.                                  *)
LEMMA SetLineKept ==
  ASSUME NEW file \in Seq(Rows), InOrder(file),
         NEW key \in Keys, NEW val \in Nat, NEW digits \in 1 .. 3
  PROVE  LET new == SetLine(file, Line(key, val, digits)) IN
         /\ InOrder(new)
         /\ ValueOf(new, key) = val
         /\ \A k \in Keys \ {key} : ValueOf(new, k) = ValueOf(file, k)
         /\ Bytes(new, Len(new)) >= Bytes(file, Len(file)) - 2
<1> DEFINE row == Line(key, val, digits)
           i == Spot(file, key)
           sec == SectionAt(file, key)
           n == Len(file)
<1>1. /\ row \in Rows /\ row.key = key /\ row.val = val /\ Regular(row)
      /\ \A old \in Rows : old.key = key /\ Regular(old) => old.size <= row.size + 2
  BY LineIs
<1>2. /\ n \in Nat /\ DOMAIN file = 1 .. n
      /\ i \in sec + 1 .. n + 1 /\ i \in 1 .. n + 1
      /\ \A j \in sec + 1 .. i - 1 : file[j].key \in Keys \ {key}
      /\ i <= n => file[i].key \notin Keys \ {key}
  BY SpotIs
<1>3. SetLine(file, row) = IF i <= n /\ file[i].key = key
                             THEN [file EXCEPT ![i] = row] ELSE InsertAt(file, i, row)
  BY <1>1, SetLineIs
<1>4. Bytes(file, n) \in Nat
  BY <1>2, BytesFinite
<1> HIDE DEF row, i, sec
<1>5. CASE i <= n /\ file[i].key = key
  <2> DEFINE new == [file EXCEPT ![i] = row]
  <2>1. i \in 1 .. n /\ file[i] \in Rows /\ Regular(file[i])
    BY <1>2, <1>5 DEF InOrder
  <2>2. /\ InOrder(new) /\ ValueOf(new, key) = val
        /\ \A k \in Keys \ {key} : ValueOf(new, k) = ValueOf(file, k)
    <3>1. /\ InOrder(new) /\ ValueOf(new, row.key) = row.val
          /\ \A k \in Keys \ {row.key} : ValueOf(new, k) = ValueOf(file, k)
      <4>1. row.key \in Keys /\ file[i].key = row.key
        BY <1>1, <1>5
      <4> QED
        BY ONLY <1>1, <2>1, <4>1, file \in Seq(Rows), InOrder(file), ReplacedInOrder
    <3> HIDE DEF new
    <3> QED
      BY <1>1, <3>1
  <2>3. Bytes(new, n) = Bytes(file, n) - file[i].size + row.size /\ Len(new) = n
    BY <1>1, <2>1, BytesReplaced
  <2> HIDE DEF new
  <2>4. file[i].size \in Nat /\ row.size \in Nat /\ file[i].size <= row.size + 2
    BY <1>1, <1>5, <2>1, RowType
  <2>5. Bytes(new, Len(new)) >= Bytes(file, n) - 2
    BY ONLY <1>4, <2>3, <2>4
  <2> QED
    BY <1>3, <1>5, <2>2, <2>5 DEF new, row
<1>6. CASE ~ (i <= n /\ file[i].key = key)
  <2> DEFINE new == InsertAt(file, i, row)
  <2>1. i <= n => file[i].key \notin Keys
    BY <1>2, <1>6
  <2>2. ASSUME NEW j \in 1 .. n, file[j].key = key
        PROVE  FALSE
    <3>1. sec < j /\ \A m \in sec + 1 .. j - 1 : file[m].key \in Keys
      BY <2>2, KeyBehind DEF sec
    <3>2. sec \in Nat
      BY SectionRange DEF sec
    <3>3. ~ (j < i)
      <4>1. ASSUME j < i PROVE FALSE
        <5>1. j \in sec + 1 .. i - 1
          BY <1>2, <3>1, <3>2, <4>1
        <5> QED
          BY <1>2, <2>2, <5>1
      <4> QED
        BY <4>1
    <3>4. j # i
      BY <1>2, <2>1, <2>2
    <3>5. i \in sec + 1 .. j - 1 /\ i <= n
      BY <1>2, <3>2, <3>3, <3>4
    <3> QED
      BY <2>1, <3>1, <3>5
  <2>3. \A j \in 1 .. n : file[j].key # key
    BY <2>2
  <2>4. /\ InOrder(new) /\ ValueOf(new, key) = val
        /\ \A k \in Keys \ {key} : ValueOf(new, k) = ValueOf(file, k)
    <3>1. \A j \in sec + 1 .. i - 1 : file[j].key \in Keys
      BY <1>2
    <3> QED
      BY <1>1, <1>2, <2>1, <2>3, <3>1, InsertedInOrder DEF sec
  <2>5. Bytes(new, n + 1) >= Bytes(file, n) /\ Bytes(new, n + 1) \in Nat /\ Len(new) = n + 1
    BY <1>1, <1>2, BytesInserted, BytesFinite, Inserted
  <2> HIDE DEF new
  <2>6. Bytes(new, Len(new)) >= Bytes(file, n) - 2
    BY ONLY <1>4, <2>5
  <2> QED
    BY <1>3, <1>6, <2>4, <2>6 DEF new, row
<1> QED
  BY <1>5, <1>6
-----------------------------------------------------------------------------
(* The shipped files are in order.                                         *)
LEMMA FirstInOrder ==
  ASSUME NEW file \in FirstFiles
  PROVE  /\ file \in Seq(Rows)
         /\ InOrder(file)
         /\ \A k \in 1 .. 3 : ValueOf(file, SavedKeys[k]) = 0
         /\ ValueOf(file, "is1thBoot") = 1
<1>1. /\ Section("[sys]") \in Rows /\ Section("[sys]").key = "[sys]" /\ Section("[sys]").size = 7
      /\ Section("[report]") \in Rows /\ Section("[report]").key = "[report]"
      /\ Section("[report]").size = 10
  BY DEF Section, Rows, MaxSize
<1> DEFINE boot1 == Line("is1thBoot", 1, 1)
           res == Line("result", 0, 1)
           per == Line("Percent", 0, 1)
           dat == Line("date", 0, 1)
           sys == Section("[sys]")
           rep == Section("[report]")
<1>2. /\ boot1 \in Rows /\ boot1.key = "is1thBoot" /\ boot1.val = 1 /\ Regular(boot1)
      /\ res \in Rows /\ res.key = "result" /\ res.val = 0 /\ Regular(res)
      /\ per \in Rows /\ per.key = "Percent" /\ per.val = 0 /\ Regular(per)
      /\ dat \in Rows /\ dat.key = "date" /\ dat.val = 0 /\ Regular(dat)
  BY LineIs DEF Keys
<1>3. /\ sys \in Rows /\ sys.key = "[sys]" /\ Regular(sys)
      /\ rep \in Rows /\ rep.key = "[report]" /\ Regular(rep)
  BY <1>1 DEF Regular
<1>4. /\ SectionOf("is1thBoot") = "[sys]" /\ SectionOf("result") = "[report]"
      /\ SectionOf("Percent") = "[report]" /\ SectionOf("date") = "[report]"
  BY DEF SectionOf
<1>5. \/ file = <<sys, boot1, rep>>
      \/ file = <<sys, boot1, rep, res, per, dat>>
      \/ file = <<rep, res, per, dat, sys, boot1>>
      \/ file = <<rep, sys, boot1>>
  BY DEF FirstFiles
<1>6. "is1thBoot" \in Keys /\ "result" \in Keys /\ "Percent" \in Keys /\ "date" \in Keys
  BY DEF Keys
<1>7. \A k \in 1 .. 3 : SavedKeys[k] \in {"result", "Percent", "date"}
  BY DEF SavedKeys
<1> HIDE DEF boot1, res, per, dat, sys, rep
<1>8. file \in Seq(Rows) /\ InOrder(file)
  <2>1. CASE file = <<sys, boot1, rep>>
    <3>1. /\ file \in Seq(Rows) /\ Len(file) = 3 /\ DOMAIN file = 1 .. 3
          /\ file[1] = sys /\ file[2] = boot1 /\ file[3] = rep
      BY <1>2, <1>3, <2>1
    <3>2. \A i \in 1 .. 3 : Regular(file[i])
      BY <1>2, <1>3, <3>1
    <3>3. \A i, j \in 1 .. 3 : file[i].key = file[j].key => i = j
      BY <1>2, <1>3, <3>1
    <3>4. \A name \in {"[sys]", "[report]"} : \E i \in 1 .. 3 : file[i].key = name
      BY <1>2, <1>3, <3>1
    <3>5. ASSUME NEW j \in 1 .. 3, file[j].key \in Keys
          PROVE  \E i \in 1 .. j - 1 : /\ file[i].key = SectionOf(file[j].key)
                                      /\ \A m \in i + 1 .. j - 1 : file[m].key \in Keys
      <4>1. CASE j = 2
        <5>1. 1 \in 1 .. j - 1 /\ file[1].key = SectionOf(file[j].key)
          BY <1>2, <1>3, <1>4, <3>1, <4>1
        <5>2. \A m \in 1 + 1 .. j - 1 : file[m].key \in Keys
          BY <1>2, <1>6, <3>1, <4>1
        <5> QED
          BY <5>1, <5>2
      <4> QED
        BY <1>3, <3>1, <3>5, <4>1 DEF Keys
    <3> QED
      BY <3>1, <3>2, <3>3, <3>4, <3>5 DEF InOrder
  <2>2. CASE file = <<sys, boot1, rep, res, per, dat>>
    <3>1. /\ file \in Seq(Rows) /\ Len(file) = 6 /\ DOMAIN file = 1 .. 6
          /\ file[1] = sys /\ file[2] = boot1 /\ file[3] = rep
          /\ file[4] = res /\ file[5] = per /\ file[6] = dat
      BY <1>2, <1>3, <2>2
    <3>2. \A i \in 1 .. 6 : Regular(file[i])
      BY <1>2, <1>3, <3>1
    <3>3. \A i, j \in 1 .. 6 : file[i].key = file[j].key => i = j
      BY <1>2, <1>3, <3>1
    <3>4. \A name \in {"[sys]", "[report]"} : \E i \in 1 .. 6 : file[i].key = name
      BY <1>2, <1>3, <3>1
    <3>5. ASSUME NEW j \in 1 .. 6, file[j].key \in Keys
          PROVE  \E i \in 1 .. j - 1 : /\ file[i].key = SectionOf(file[j].key)
                                      /\ \A m \in i + 1 .. j - 1 : file[m].key \in Keys
      <4>1. CASE j = 2
        <5>1. 1 \in 1 .. j - 1 /\ file[1].key = SectionOf(file[j].key)
          BY <1>2, <1>3, <1>4, <3>1, <4>1
        <5>2. \A m \in 1 + 1 .. j - 1 : file[m].key \in Keys
          BY <1>2, <1>6, <3>1, <4>1
        <5> QED
          BY <5>1, <5>2
      <4>2. CASE j = 4
        <5>1. 3 \in 1 .. j - 1 /\ file[3].key = SectionOf(file[j].key)
          BY <1>2, <1>3, <1>4, <3>1, <4>2
        <5>2. \A m \in 3 + 1 .. j - 1 : file[m].key \in Keys
          BY <1>2, <1>6, <3>1, <4>2
        <5> QED
          BY <5>1, <5>2
      <4>3. CASE j = 5
        <5>1. 3 \in 1 .. j - 1 /\ file[3].key = SectionOf(file[j].key)
          BY <1>2, <1>3, <1>4, <3>1, <4>3
        <5>2. \A m \in 3 + 1 .. j - 1 : file[m].key \in Keys
          BY <1>2, <1>6, <3>1, <4>3
        <5> QED
          BY <5>1, <5>2
      <4>4. CASE j = 6
        <5>1. 3 \in 1 .. j - 1 /\ file[3].key = SectionOf(file[j].key)
          BY <1>2, <1>3, <1>4, <3>1, <4>4
        <5>2. \A m \in 3 + 1 .. j - 1 : file[m].key \in Keys
          BY <1>2, <1>6, <3>1, <4>4
        <5> QED
          BY <5>1, <5>2
      <4> QED
        BY <1>3, <3>1, <3>5, <4>1, <4>2, <4>3, <4>4 DEF Keys
    <3> QED
      BY <3>1, <3>2, <3>3, <3>4, <3>5 DEF InOrder
  <2>3. CASE file = <<rep, res, per, dat, sys, boot1>>
    <3>1. /\ file \in Seq(Rows) /\ Len(file) = 6 /\ DOMAIN file = 1 .. 6
          /\ file[1] = rep /\ file[2] = res /\ file[3] = per
          /\ file[4] = dat /\ file[5] = sys /\ file[6] = boot1
      BY <1>2, <1>3, <2>3
    <3>2. \A i \in 1 .. 6 : Regular(file[i])
      BY <1>2, <1>3, <3>1
    <3>3. \A i, j \in 1 .. 6 : file[i].key = file[j].key => i = j
      BY <1>2, <1>3, <3>1
    <3>4. \A name \in {"[sys]", "[report]"} : \E i \in 1 .. 6 : file[i].key = name
      BY <1>2, <1>3, <3>1
    <3>5. ASSUME NEW j \in 1 .. 6, file[j].key \in Keys
          PROVE  \E i \in 1 .. j - 1 : /\ file[i].key = SectionOf(file[j].key)
                                      /\ \A m \in i + 1 .. j - 1 : file[m].key \in Keys
      <4>1. CASE j = 2
        <5>1. 1 \in 1 .. j - 1 /\ file[1].key = SectionOf(file[j].key)
          BY <1>2, <1>3, <1>4, <3>1, <4>1
        <5>2. \A m \in 1 + 1 .. j - 1 : file[m].key \in Keys
          BY <1>2, <1>6, <3>1, <4>1
        <5> QED
          BY <5>1, <5>2
      <4>2. CASE j = 3
        <5>1. 1 \in 1 .. j - 1 /\ file[1].key = SectionOf(file[j].key)
          BY <1>2, <1>3, <1>4, <3>1, <4>2
        <5>2. \A m \in 1 + 1 .. j - 1 : file[m].key \in Keys
          BY <1>2, <1>6, <3>1, <4>2
        <5> QED
          BY <5>1, <5>2
      <4>3. CASE j = 4
        <5>1. 1 \in 1 .. j - 1 /\ file[1].key = SectionOf(file[j].key)
          BY <1>2, <1>3, <1>4, <3>1, <4>3
        <5>2. \A m \in 1 + 1 .. j - 1 : file[m].key \in Keys
          BY <1>2, <1>6, <3>1, <4>3
        <5> QED
          BY <5>1, <5>2
      <4>4. CASE j = 6
        <5>1. 5 \in 1 .. j - 1 /\ file[5].key = SectionOf(file[j].key)
          BY <1>2, <1>3, <1>4, <3>1, <4>4
        <5>2. \A m \in 5 + 1 .. j - 1 : file[m].key \in Keys
          BY <1>2, <1>6, <3>1, <4>4
        <5> QED
          BY <5>1, <5>2
      <4> QED
        BY <1>3, <3>1, <3>5, <4>1, <4>2, <4>3, <4>4 DEF Keys
    <3> QED
      BY <3>1, <3>2, <3>3, <3>4, <3>5 DEF InOrder
  <2>4. CASE file = <<rep, sys, boot1>>
    <3>1. /\ file \in Seq(Rows) /\ Len(file) = 3 /\ DOMAIN file = 1 .. 3
          /\ file[1] = rep /\ file[2] = sys /\ file[3] = boot1
      BY <1>2, <1>3, <2>4
    <3>2. \A i \in 1 .. 3 : Regular(file[i])
      BY <1>2, <1>3, <3>1
    <3>3. \A i, j \in 1 .. 3 : file[i].key = file[j].key => i = j
      BY <1>2, <1>3, <3>1
    <3>4. \A name \in {"[sys]", "[report]"} : \E i \in 1 .. 3 : file[i].key = name
      BY <1>2, <1>3, <3>1
    <3>5. ASSUME NEW j \in 1 .. 3, file[j].key \in Keys
          PROVE  \E i \in 1 .. j - 1 : /\ file[i].key = SectionOf(file[j].key)
                                      /\ \A m \in i + 1 .. j - 1 : file[m].key \in Keys
      <4>1. CASE j = 3
        <5>1. 2 \in 1 .. j - 1 /\ file[2].key = SectionOf(file[j].key)
          BY <1>2, <1>3, <1>4, <3>1, <4>1
        <5>2. \A m \in 2 + 1 .. j - 1 : file[m].key \in Keys
          BY <1>2, <1>6, <3>1, <4>1
        <5> QED
          BY <5>1, <5>2
      <4> QED
        BY <1>3, <3>1, <3>5, <4>1 DEF Keys
    <3> QED
      BY <3>1, <3>2, <3>3, <3>4, <3>5 DEF InOrder
  <2> QED
    BY <1>5, <2>1, <2>2, <2>3, <2>4
<1>9. \A j \in 1 .. Len(file) : file[j] \in {boot1, res, per, dat, sys, rep}
  BY <1>5
<1>10. \E j \in 1 .. Len(file) : file[j] = boot1
  <2>1. CASE file = <<sys, boot1, rep>> \/ file = <<sys, boot1, rep, res, per, dat>>
    <3>1. 2 \in 1 .. Len(file) /\ file[2] = boot1
      BY <2>1
    <3> QED
      BY <3>1
  <2>2. CASE file = <<rep, res, per, dat, sys, boot1>>
    <3>1. 6 \in 1 .. Len(file) /\ file[6] = boot1
      BY <2>2
    <3> QED
      BY <3>1
  <2>3. CASE file = <<rep, sys, boot1>>
    <3>1. 3 \in 1 .. Len(file) /\ file[3] = boot1
      BY <2>3
    <3> QED
      BY <3>1
  <2> QED
    BY <1>5, <2>1, <2>2, <2>3
<1>11. ValueOf(file, "is1thBoot") = 1
  BY <1>2, <1>6, <1>8, <1>10, PlaceIs
<1>12. ASSUME NEW key \in {"result", "Percent", "date"}
       PROVE  ValueOf(file, key) = 0
  <2>1. CASE \E j \in 1 .. Len(file) : file[j].key = key
    <3>1. PICK j \in 1 .. Len(file) : file[j].key = key
      BY <2>1
    <3>2. ValueOf(file, key) = file[j].val
      BY <1>6, <1>8, <3>1, PlaceIs
    <3>3. file[j].val = 0
      BY <1>2, <1>3, <1>9, <3>1
    <3> QED
      BY <3>2, <3>3
  <2>2. CASE \A j \in 1 .. Len(file) : file[j].key # key
    BY <1>8, <2>2, NoPlace
  <2> QED
    BY <2>1, <2>2
<1> QED
  BY <1>7, <1>8, <1>11, <1>12
-----------------------------------------------------------------------------
LEMMA RecInitInv == RecInit => RecordInv
<1> SUFFICES ASSUME RecInit PROVE RecordInv
  OBVIOUS
<1>1. /\ lines \in Seq(Rows) /\ InOrder(lines)
      /\ \A k \in 1 .. 3 : ValueOf(lines, SavedKeys[k]) = 0
      /\ ValueOf(lines, "is1thBoot") = 1
  BY FirstInOrder DEF RecInit
<1>2. RecTypeOK
  <2>1. saves \in 0 .. MaxSaves /\ keyNo \in 1 .. 3
    BY RecordAssumption DEF RecInit
  <2>2. lineArray \in [Writers -> Seq(Rows)]
    BY DEF RecInit
  <2>3. last \in [Keys -> Nat] /\ skipped \subseteq Keys
    BY DEF RecInit
  <2> QED
    BY <1>1, <2>1, <2>2, <2>3 DEF RecInit, RecTypeOK, Writers
<1>3. CopyInv
  BY DEF RecInit, CopyInv
<1>4. ValuesInv
  <2>1. \A k \in 1 .. 3 : last[SavedKeys[k]] = 0
    BY DEF RecInit, SavedKeys, Keys
  <2>2. last["is1thBoot"] = 1
    BY DEF RecInit, Keys
  <2>3. \A key \in Keys : ValueOf(lines, key) = last[key]
    BY <1>1, <2>1, <2>2 DEF Keys, SavedKeys
  <2>4. saves = 0 /\ recPc["timer"] = "boot" /\ keyNo = 1
    BY DEF RecInit, Writers
  <2>5. SavesInv
    BY <2>1, <2>4 DEF SavesInv
  <2> QED
    BY <2>3, <2>5 DEF ValuesInv
<1> QED
  BY <1>1, <1>2, <1>3, <1>4 DEF RecordInv

(* What a writer writes: its own key, ...                                  *)
OwnValue(w) == IF w = "display" THEN 0 ELSE saves

LEMMA ChangedIs ==
  ASSUME RecTypeOK, NEW w \in Writers, NEW digits \in Digits(w)
  PROVE  /\ KeyOf(w) \in Keys /\ OwnValue(w) \in Nat /\ digits \in 1 .. 3
         /\ Changed(w, digits) = SetLine(lineArray[w], Line(KeyOf(w), OwnValue(w), digits))
<1>1. KeyOf(w) \in Keys
  BY DEF RecTypeOK, SavedKeys, Keys, KeyOf
<1>2. OwnValue(w) \in Nat
  BY RecordAssumption DEF RecTypeOK, OwnValue
<1>3. digits \in 1 .. 3
  BY RecordAssumption DEF Digits
<1> QED
  BY <1>1, <1>2, <1>3 DEF Changed, NewLine, OwnValue

(* ... the others as they were in its copy, and behind them what is left.  *)
LEMMA WrittenRows ==
  ASSUME RecTypeOK, NEW w \in Writers, NEW digits \in Digits(w)
  PROVE  LET file == Changed(w, digits) IN
         /\ file \in Seq(Rows)
         /\ Bytes(file, Len(file)) \in Nat
         /\ Behind(lines, Bytes(file, Len(file))) \in Seq(Rows)
<1> DEFINE file == Changed(w, digits)
<1>1. file \in Seq(Rows)
  <2>1. file = SetLine(lineArray[w], Line(KeyOf(w), OwnValue(w), digits))
    BY ChangedIs
  <2>2. Line(KeyOf(w), OwnValue(w), digits) \in Rows
    BY ChangedIs, LineIs
  <2>3. lineArray[w] \in Seq(Rows)
    BY DEF RecTypeOK
  <2> QED
    BY <2>1, <2>2, <2>3, SetLineRows
<1> HIDE DEF file
<1>2. Bytes(file, Len(file)) \in Nat
  <2>1. Len(file) \in Nat
    BY <1>1
  <2> QED
    BY <2>1, BytesFinite
<1>3. Behind(lines, Bytes(file, Len(file))) \in Seq(Rows)
  BY <1>2, BehindRows DEF RecTypeOK
<1> QED
  BY <1>1, <1>2, <1>3 DEF file

LEMMA WrittenKept ==
  ASSUME RecTypeOK, NEW w \in Writers, lineArray[w] = lines, InOrder(lines), writeFile(w)
  PROVE  /\ InOrder(lines')
         /\ ValueOf(lines', KeyOf(w)) = OwnValue(w)
         /\ \A k \in Keys \ {KeyOf(w)} : ValueOf(lines', k) = ValueOf(lines, k)
<1>1. PICK digits \in Digits(w) :
        lines' = Changed(w, digits)
                   \o Behind(lines, Bytes(Changed(w, digits), Len(Changed(w, digits))))
  BY DEF writeFile
<1> DEFINE file == Changed(w, digits)
           n == Bytes(file, Len(file))
           left == Behind(lines, n)
<1>2. /\ KeyOf(w) \in Keys /\ OwnValue(w) \in Nat /\ digits \in 1 .. 3
      /\ file = SetLine(lines, Line(KeyOf(w), OwnValue(w), digits))
  BY ChangedIs
<1>3. lines \in Seq(Rows) /\ file \in Seq(Rows) /\ n \in Nat
  BY WrittenRows DEF RecTypeOK
<1>4. lines' = file \o left
  BY <1>1
<1> HIDE DEF file
<1>5. /\ InOrder(file) /\ ValueOf(file, KeyOf(w)) = OwnValue(w)
      /\ \A k \in Keys \ {KeyOf(w)} : ValueOf(file, k) = ValueOf(lines, k)
      /\ n >= Bytes(lines, Len(lines)) - 2
  BY <1>2, <1>3, SetLineKept
<1> HIDE DEF n
<1>6. left \in Seq(Rows) /\ \A k \in 1 .. Len(left) : left[k].key = "junk"
  <2>1. \A i \in DOMAIN lines : Regular(lines[i])
    BY DEF InOrder
  <2> QED
    BY <1>3, <1>5, <2>1, LeftIsJunk
<1> HIDE DEF left
<1>7. /\ InOrder(file \o left)
      /\ \A key \in Keys : ValueOf(file \o left, key) = ValueOf(file, key)
  BY <1>3, <1>5, <1>6, JunkBehind
<1> QED
  BY <1>2, <1>4, <1>5, <1>7

(* Each step keeps the invariant: the start, ...                           *)
LEMMA BootKept == RecordInv /\ boot => RecordInv'
<1> SUFFICES ASSUME RecordInv, boot PROVE RecordInv'
  OBVIOUS
<1> USE DEF RecordInv
<1>1. PICK place \in {"read", "done"} :
        recPc' = [w \in Writers |-> IF w = "timer" THEN "idle" ELSE place]
  <2>1. PICK opened \in BOOLEAN :
          recPc' = [w \in Writers |->
                      IF w = "timer" THEN "idle"
                      ELSE IF opened /\ ValueOf(lines, "is1thBoot") = 1 THEN "read" ELSE "done"]
    BY DEF boot
  <2>2. CASE opened /\ ValueOf(lines, "is1thBoot") = 1
    BY <2>1, <2>2
  <2>3. CASE ~ (opened /\ ValueOf(lines, "is1thBoot") = 1)
    BY <2>1, <2>3
  <2> QED
    BY <2>2, <2>3
<1>2. RecTypeOK'
  BY <1>1 DEF RecTypeOK, Writers, boot
<1>3. CopyInv'
  BY DEF CopyInv, boot
<1>4. ASSUME ~overlapped PROVE InOrder(lines)' /\ ValuesInv'
  <2>1. recPc'["timer"] = "idle" /\ recPc["timer"] = "boot"
    BY <1>1 DEF Writers, boot
  <2> QED
    BY <1>4, <2>1 DEF ValuesInv, SavesInv, boot
<1> QED
  BY <1>2, <1>3, <1>4 DEF boot

(* ... the start of a save, ...                                            *)
LEMMA ShowReportKept == RecordInv /\ showReport => RecordInv'
<1> SUFFICES ASSUME RecordInv, showReport PROVE RecordInv'
  OBVIOUS
<1> USE DEF RecordInv, showReport
<1>1. RecTypeOK'
  <2>1. saves' \in 0 .. MaxSaves
    BY RecordAssumption DEF RecTypeOK
  <2> QED
    BY <2>1 DEF RecTypeOK, Writers
<1>2. CopyInv'
  BY DEF CopyInv
<1>3. ASSUME ~overlapped PROVE InOrder(lines)' /\ ValuesInv'
  <2>1. ASSUME NEW k \in 1 .. 3 PROVE last'[SavedKeys[k]] <= saves'
    <3>1. SavedKeys[k] \in Keys
      BY DEF SavedKeys, Keys
    <3>2. saves \in Nat /\ last[SavedKeys[k]] \in Nat /\ last[SavedKeys[k]] <= saves
      BY <1>3, <3>1 DEF RecTypeOK, ValuesInv, SavesInv
    <3> QED
      BY <3>2
  <2>2. /\ keyNo' = 1 /\ ~saved'
        /\ \A k \in 1 .. 2 :
             SavedKeys[k] \in skipped' \/ last'[SavedKeys[k]] >= last'[SavedKeys[k + 1]]
    BY <1>3 DEF RecTypeOK, ValuesInv, SavesInv
  <2>3. SavesInv'
    BY <2>1, <2>2 DEF SavesInv
  <2> QED
    BY <1>3, <2>3 DEF ValuesInv
<1> QED
  BY <1>1, <1>2, <1>3

(* ... the copy, ...                                                       *)
LEMMA ReadFileKept ==
  ASSUME RecordInv, NEW w \in Writers, readFile(w)
  PROVE  RecordInv'
<1> USE DEF RecordInv, readFile
<1>1. RecTypeOK'
  BY DEF RecTypeOK, Writers
<1>2. CopyInv'
  BY DEF CopyInv, RecTypeOK
<1>3. ASSUME ~overlapped PROVE InOrder(lines)' /\ ValuesInv'
  <2>1. \/ recPc'["timer"] = recPc["timer"]
        \/ recPc'["timer"] \in {"write", "lost"} /\ recPc["timer"] \in {"read", "write"}
    BY DEF Writers, RecTypeOK
  <2> QED
    BY <1>3, <2>1 DEF ValuesInv, SavesInv
<1> QED
  BY <1>1, <1>2, <1>3

(* ... the loss of power, ...                                              *)
LEMMA PowerLossKept == RecordInv /\ powerLoss => RecordInv'
<1> SUFFICES ASSUME RecordInv, powerLoss PROVE RecordInv'
  OBVIOUS
<1> USE DEF RecordInv, powerLoss
<1>1. RecTypeOK'
  <2>1. lineArray' \in [Writers -> Seq(Rows)]
    OBVIOUS
  <2> QED
    BY <2>1 DEF RecTypeOK, Writers
<1>2. CopyInv'
  BY DEF CopyInv
<1>3. ASSUME ~overlapped PROVE InOrder(lines)' /\ ValuesInv'
  <2>1. recPc'["timer"] = "boot" /\ keyNo' = 1
    BY DEF Writers
  <2> QED
    BY <1>3, <2>1 DEF ValuesInv, SavesInv
<1> QED
  BY <1>1, <1>2, <1>3

(* ... and the end of a call, with its key saved or skipped: what it does  *)
(* to the control of its writer, ...                                       *)
LEMMA CallEndsTyped ==
  ASSUME RecTypeOK, NEW w \in Writers, callEnds(w)
  PROVE  /\ keyNo' \in 1 .. 3 /\ saved' \in BOOLEAN
         /\ recPc' \in [Writers -> {"boot", "idle", "read", "write", "done", "lost"}]
         /\ recPc'["display"] # "idle" /\ recPc'["timer"] # "done"
<1>1. CASE w = "timer" /\ keyNo < 3
  BY <1>1 DEF callEnds, RecTypeOK, Writers
<1>2. CASE w = "timer" /\ keyNo = 3
  <2>1. /\ recPc' = [recPc EXCEPT !["timer"] = "idle"]
        /\ keyNo' = 1 /\ saved' = TRUE
    BY <1>2 DEF callEnds
  <2> QED
    BY <2>1 DEF RecTypeOK, Writers
<1>3. CASE w = "display"
  BY <1>3 DEF callEnds, RecTypeOK, Writers
<1>4. keyNo < 3 \/ keyNo = 3
  BY DEF RecTypeOK
<1> QED
  BY <1>1, <1>2, <1>3, <1>4 DEF Writers

(* ... and to what is known of the reports saved.                          *)
LEMMA CallEndsKept ==
  ASSUME RecTypeOK, SavesInv, NEW w \in Writers, recPc[w] \in {"read", "write"}, callEnds(w),
         saves' = saves, RecTypeOK',
         \A key \in Keys \ {KeyOf(w)} :
           last'[key] = last[key] /\ (key \in skipped' <=> key \in skipped),
         \/ last'[KeyOf(w)] = OwnValue(w)
         \/ last'[KeyOf(w)] = last[KeyOf(w)] /\ KeyOf(w) \in skipped'
  PROVE  SavesInv'
<1> DEFINE old(k) == last[SavedKeys[k]]
           latest(k) == last'[SavedKeys[k]]
           missed(k) == SavedKeys[k] \in skipped
           misses(k) == SavedKeys[k] \in skipped'
<1>1. /\ keyNo \in 1 .. 3 /\ saves \in Nat
      /\ \A k \in 1 .. 3 : SavedKeys[k] \in Keys
      /\ \A k \in 1 .. 3 : old(k) \in Nat /\ latest(k) \in Nat
  <2>1. \A k \in 1 .. 3 : SavedKeys[k] \in Keys
    BY DEF SavedKeys, Keys
  <2> QED
    BY <2>1 DEF RecTypeOK
<1>2. /\ \A k \in 1 .. 3 : old(k) <= saves
      /\ \A k \in 1 .. 2 : missed(k) \/ old(k) >= old(k + 1)
  BY DEF SavesInv
<1>3. CASE w = "display"
  <2>1. KeyOf(w) = "is1thBoot" /\ \A k \in 1 .. 3 : SavedKeys[k] # "is1thBoot"
    BY <1>3 DEF KeyOf, SavedKeys
  <2>2. \A k \in 1 .. 3 : latest(k) = old(k) /\ (misses(k) <=> missed(k))
    BY <1>1, <2>1
  <2>3. recPc'["timer"] = recPc["timer"] /\ keyNo' = keyNo /\ saved' = saved
    BY <1>3 DEF callEnds, RecTypeOK, Writers
  <2>4. /\ \A k \in 1 .. 3 : latest(k) <= saves'
        /\ \A k \in 1 .. 2 : misses(k) \/ latest(k) >= latest(k + 1)
    BY <1>2, <2>2
  <2>5. saved' => \A k \in 1 .. 3 : misses(k) \/ latest(k) = saves'
    BY <2>2, <2>3 DEF SavesInv
  <2>6. recPc'["timer"] \in {"read", "write"} =>
          ~saved' /\ \A k \in 1 .. keyNo' - 1 : misses(k) \/ latest(k) = saves'
    BY <1>1, <2>2, <2>3 DEF SavesInv
  <2>7. recPc'["timer"] \in {"boot", "idle"} => keyNo' = 1
    BY <2>3 DEF SavesInv
  <2> QED
    BY <2>4, <2>5, <2>6, <2>7 DEF SavesInv
<1>4. CASE w = "timer"
  <2>1. KeyOf(w) = SavedKeys[keyNo] /\ OwnValue(w) = saves
    BY <1>4 DEF KeyOf, OwnValue
  <2>2. latest(keyNo) = saves \/ (latest(keyNo) = old(keyNo) /\ misses(keyNo))
    <3>1. CASE last'[KeyOf(w)] = OwnValue(w)
      BY <2>1, <3>1
    <3>2. CASE last'[KeyOf(w)] = last[KeyOf(w)] /\ KeyOf(w) \in skipped'
      BY <2>1, <3>2
    <3> QED
      BY <3>1, <3>2
  <2>3. \A k \in 1 .. 3 : k # keyNo => latest(k) = old(k) /\ (misses(k) <=> missed(k))
    <3>1. \A k \in 1 .. 3 : k # keyNo => SavedKeys[k] # SavedKeys[keyNo]
      BY <1>1 DEF SavedKeys
    <3> QED
      BY <1>1, <2>1, <3>1
  <2>4. ~saved /\ \A k \in 1 .. keyNo - 1 : missed(k) \/ old(k) = saves
    BY <1>4 DEF SavesInv
  <2>5. \/ keyNo < 3 /\ keyNo' = keyNo + 1 /\ saved' = saved
           /\ recPc'["timer"] = "read"
        \/ keyNo = 3 /\ recPc'["timer"] = "idle" /\ keyNo' = 1
    BY <1>4 DEF callEnds, RecTypeOK, Writers
  <2> HIDE DEF old, latest, missed, misses
  <2>6. /\ \A k \in 1 .. 3 : latest(k) <= saves
        /\ \A k \in 1 .. 2 : misses(k) \/ latest(k) >= latest(k + 1)
        /\ \A k \in 1 .. keyNo : misses(k) \/ latest(k) = saves
    <3>1. CASE keyNo = 1
      BY <1>1, <1>2, <2>2, <2>3, <3>1
    <3>2. CASE keyNo = 2
      BY <1>1, <1>2, <2>2, <2>3, <2>4, <3>2
    <3>3. CASE keyNo = 3
      BY <1>1, <1>2, <2>2, <2>3, <2>4, <3>3
    <3> QED
      BY <1>1, <3>1, <3>2, <3>3
  <2>7. saved' => \A k \in 1 .. 3 : misses(k) \/ latest(k) = saves
    BY <1>1, <2>4, <2>5, <2>6
  <2>8. recPc'["timer"] \in {"read", "write"} =>
          ~saved' /\ \A k \in 1 .. keyNo' - 1 : misses(k) \/ latest(k) = saves
    BY <1>1, <2>4, <2>5, <2>6
  <2> QED
    BY <2>5, <2>6, <2>7, <2>8 DEF SavesInv, latest, misses
<1> QED
  BY <1>3, <1>4 DEF Writers

(* ... because the file could not be opened, ...                           *)
LEMMA OpenFailsKept ==
  ASSUME RecordInv, NEW w \in Writers, openFails(w)
  PROVE  RecordInv'
<1> USE DEF RecordInv
<1>1. KeyOf(w) \in Keys
  BY DEF RecTypeOK, SavedKeys, Keys, KeyOf
<1>2. RecTypeOK'
  <2>1. /\ keyNo' \in 1 .. 3 /\ saved' \in BOOLEAN
        /\ recPc' \in [Writers -> {"boot", "idle", "read", "write", "done", "lost"}]
        /\ recPc'["display"] # "idle" /\ recPc'["timer"] # "done"
    BY CallEndsTyped DEF openFails
  <2> QED
    BY <1>1, <2>1 DEF RecTypeOK, openFails
<1>3. CopyInv'
  BY DEF CopyInv, openFails
<1>4. ASSUME ~overlapped PROVE InOrder(lines)' /\ ValuesInv'
  <2>1. SavesInv'
    BY <1>1, <1>2, <1>4, CallEndsKept DEF openFails, ValuesInv
  <2> QED
    BY <1>4, <2>1 DEF ValuesInv, openFails
<1> QED
  BY <1>2, <1>3, <1>4 DEF openFails

(* ... or with the writing of the file.                                    *)
LEMMA WriteFileKept ==
  ASSUME RecordInv, NEW w \in Writers, writeFile(w)
  PROVE  RecordInv'
<1> USE DEF RecordInv
<1>1. KeyOf(w) \in Keys /\ OwnValue(w) \in Nat
  BY RecordAssumption DEF RecTypeOK, SavedKeys, Keys, KeyOf, OwnValue
<1>2. last' = [last EXCEPT ![KeyOf(w)] = OwnValue(w)] /\ skipped' = skipped \ {KeyOf(w)}
  BY DEF writeFile, OwnValue
<1>3. RecTypeOK'
  <2>1. lines' \in Seq(Rows)
    BY WrittenRows, Joined DEF writeFile
  <2>2. /\ keyNo' \in 1 .. 3 /\ saved' \in BOOLEAN
        /\ recPc' \in [Writers -> {"boot", "idle", "read", "write", "done", "lost"}]
        /\ recPc'["display"] # "idle" /\ recPc'["timer"] # "done"
    BY CallEndsTyped DEF writeFile
  <2>3. last' \in [Keys -> Nat] /\ skipped' \subseteq Keys
    BY <1>1, <1>2 DEF RecTypeOK
  <2>4. lineArray' \in [Writers -> Seq(Rows)]
    <3>1. <<>> \in Seq(Rows)
      OBVIOUS
    <3> QED
      BY <3>1 DEF RecTypeOK, writeFile
  <2> QED
    BY <2>1, <2>2, <2>3, <2>4 DEF RecTypeOK, writeFile
<1>4. CopyInv'
  BY DEF CopyInv, writeFile
<1>5. ASSUME ~overlapped' PROVE InOrder(lines)' /\ ValuesInv'
  <2>1. ~overlapped /\ lineArray[w] = lines /\ InOrder(lines) /\ ValuesInv
    BY <1>5 DEF writeFile, CopyInv, RecTypeOK
  <2>2. /\ InOrder(lines') /\ ValueOf(lines', KeyOf(w)) = OwnValue(w)
        /\ \A k \in Keys \ {KeyOf(w)} : ValueOf(lines', k) = ValueOf(lines, k)
    BY <2>1, WrittenKept
  <2>3. /\ last'[KeyOf(w)] = OwnValue(w)
        /\ \A key \in Keys \ {KeyOf(w)} :
             last'[key] = last[key] /\ (key \in skipped' <=> key \in skipped)
    BY <1>1, <1>2 DEF RecTypeOK
  <2>4. \A key \in Keys : ValueOf(lines', key) = last'[key]
    BY <2>1, <2>2, <2>3 DEF ValuesInv
  <2>5. recPc[w] \in {"read", "write"} /\ callEnds(w) /\ saves' = saves
    BY DEF writeFile
  <2>6. SavesInv'
    BY <1>3, <2>1, <2>3, <2>5, CallEndsKept DEF ValuesInv
  <2> QED
    BY <2>2, <2>4, <2>6 DEF ValuesInv
<1> QED
  BY <1>3, <1>4, <1>5

LEMMA RecordInvHolds == RecSpec => []RecordInv
<1>1. RecordInv /\ [RecNext]_recVars => RecordInv'
  <2> SUFFICES ASSUME RecordInv, [RecNext]_recVars PROVE RecordInv'
    OBVIOUS
  <2>1. CASE UNCHANGED recVars
    BY <2>1 DEF recVars, RecordInv, RecTypeOK, CopyInv, ValuesInv, SavesInv, InOrder, Regular
  <2>2. CASE RecNext
    BY <2>2, BootKept, ShowReportKept, PowerLossKept, OpenFailsKept, ReadFileKept,
       WriteFileKept
       DEF RecNext
  <2> QED
    BY <2>1, <2>2
<1> QED
  BY <1>1, RecInitInv, PTL DEF RecSpec

(* sysCfg.c: every line the program reads, keeps or writes, whatever was   *)
(* written over, fits the sizes it has room for.                           *)
THEOREM RecordTypesHold == RecSpec => []RecTypeOK
<1>1. RecordInv => RecTypeOK
  BY DEF RecordInv
<1> QED
  BY <1>1, RecordInvHolds, PTL

(* SetStringContentValue, showReport: the record survives its rewriting in *)
(* place, values that grow and shrink, the power, and calls that cannot    *)
(* open the file.                                                          *)
THEOREM RecordIsKept == RecSpec => []RecordKept
<1>1. RecordInv => RecordKept
  <2> SUFFICES ASSUME RecordInv, ~overlapped PROVE RecordKept
    BY DEF RecordKept
  <2> DEFINE read == [key \in Keys |-> ValueOf(lines, key)]
  <2>1. ASSUME NEW key \in Keys
        PROVE  Cardinality({i \in DOMAIN lines : lines[i].key = key}) <= 1
    <3> DEFINE S == {i \in DOMAIN lines : lines[i].key = key}
    <3>1. CASE S = {}
      BY <3>1, FS_EmptySet
    <3>2. CASE S # {}
      <4>1. PICK i \in S : TRUE
        BY <3>2
      <4>2. S = {i}
        BY <4>1, KeyNames DEF RecordInv, InOrder
      <4> HIDE DEF S
      <4>3. Cardinality(S) = 1
        BY <4>2, FS_Singleton
      <4> QED
        BY <4>3 DEF S
    <3> QED
      BY <3>1, <3>2
  <2>2. read = last
    BY DEF RecordInv, RecTypeOK, ValuesInv
  <2>3. /\ saved => \A k \in 1 .. 3 : SavedKeys[k] \in skipped \/ last[SavedKeys[k]] = saves
        /\ \A k \in 1 .. 2 :
             SavedKeys[k] \in skipped \/ last[SavedKeys[k]] >= last[SavedKeys[k + 1]]
    BY DEF RecordInv, ValuesInv, SavesInv
  <2> HIDE DEF read
  <2>4. /\ saved => \A k \in 1 .. 3 : SavedKeys[k] \in skipped \/ read[SavedKeys[k]] = saves
        /\ \A k \in 1 .. 2 :
             SavedKeys[k] \in skipped \/ read[SavedKeys[k]] >= read[SavedKeys[k + 1]]
    BY <2>2, <2>3
  <2> QED
    BY <2>1, <2>2, <2>4 DEF RecordKept, read
<1> QED
  BY <1>1, RecordInvHolds, PTL

-----------------------------------------------------------------------------
(* Every variable of timerThr.c, the upload and the file keeps its type:   *)
(* MCTimer runs each part by its own steps, so each keeps what it keeps    *)
(* alone.                                                                  *)
THEOREM TogetherTyped == MCSpec => []TypesOK
<1>1. MCInit => Init /\ ListInit /\ UploadInit /\ RecInit
  BY DEF MCInit
<1>2. [MCNext]_mcVars => /\ [Next]_vars /\ [ListNext]_listVars
                         /\ [TaskNext]_taskVars /\ [RecNext]_recVars
  BY Zenon DEF MCNext, mcVars, vars, listVars, taskVars, recVars
<1>3. MCSpec => Spec /\ ListSpec /\ TaskSpec /\ RecSpec
  BY <1>1, <1>2, PTL DEF MCSpec, Spec, ListSpec, TaskSpec, RecSpec
<1>4. IInv => TypeOK
  BY DEF IInv
<1>5. TypeOK /\ ListTypeOK /\ UploadTypeOK /\ RecTypeOK => TypesOK
  BY DEF TypesOK
<1> QED
  BY <1>3, <1>4, <1>5, Invariance, ListTypesHold, UploadTypesHold, RecordTypesHold, PTL
=============================================================================
