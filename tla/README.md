# A verification model of the MT7688 slide-photography device

The repository holds the software of a small Linux device (MediaTek MT7688): it
heats a slide, photographs it, uploads the photograph to a server, and shows the
report that comes back on an LCD. Two keys start and stop everything; the wifi is
configured from a phone by *airkiss*. This directory holds TLA+ modules that model
the concurrent core of that software, TLC configurations that check them on small
instances, and TLAPS proofs for every size.

Paths below are relative to `src/ipnc_rdk/`. Line numbers are those of the commit
the modules were written from; `PROJECT.json` maps every definition to its lines.

- [The system](#the-system)
- [The modules](#the-modules)
- [The runs](#the-runs)
- [What the runs found](#what-the-runs-found)
- [The proofs](#the-proofs)
- [What is not modelled](#what-is-not-modelled)
- [Plan](#plan)

## The system

`ipnc_app/main.c` reads the configuration, starts the camera and then the threads:
LED, timer, display, network check, key. A sixth thread, airkiss, exists only
while the wifi is configured. The threads know of each other through

- **`gSysState`** (`framework/system/sysCfg.c`): one structure under one mutex,
  with a call to read a field and a call to write one. Nothing holds the mutex over
  a read *and* a write, so every decision on a field is stale by the time it is
  acted on;
- plain globals and statics without any lock: `state` and the countdowns of
  `execTaskStateMachine`, `isExit` of the airkiss thread, `frq`/`times` of the LED
  thread, `gSYS_cfg_para.report`;
- the timer's list, under a mutex that the timer thread does not hold while it
  runs a callback (with one task on the list);
- `pthread_create`, `pthread_join`, `pthread_cancel`.

`framework/osa` is a second, independent part: a library of blocking queues, buffer
exchange, events, mailboxes and tasks, as a video application would use them. The
application uses its types and status codes; the queues themselves are complete
components whose promises their headers state.

| Component | State | Operations | Hard about it | Correct when |
|---|---|---|---|---|
| System status (`sysCfg.c`) | `gSysState` | `setSysState`, `getSysState`, `initSysState` | check-then-set by three threads | a mode is entered from IDLE and left for IDLE |
| Key thread (`keyChkThr.c`) | place in its code | short and long press of two keys | it waits (seconds of sleep, `pthread_join`) while the others go on | no two modes at once; it comes back to its keys |
| Task (`sys_ctrl.c`) | `state`, two countdowns, heater, flash, report | one timer callback a second; `execTask`, `ExitTask` from the key thread | the key thread rewrites `state` under a running callback | photograph only after heating, with the heater off; the task ends |
| Airkiss thread (`airkissThr.c`) | `isExit`, radio mode, `timeout` | receive, connect, four early returns | stopped by a flag it clears itself | the radio is given back; an exit is obeyed |
| Timer thread (`timerThr.c`) | list of tasks, due times, the pointer it walks it with | register, unregister, visit | signed and unsigned times; callback without the mutex; a mutex released twice | called on time, at most once a period; the list is the tasks registered |
| Network check (`netLinkChkThr.c`, `pinghost.c`) | last server answer | read signal, ping up to three times, publish | lost pings; a stale answer | given up after three silences; published what is so |
| Display thread (`UIDispalyThr.c`, `showSysNet`) | last copy of the status, icons | copy, compare, draw, remember | draws from two reads at different times | the icons come to show the state that stays |
| LED (`sys_misc.c`) | `times`, the pin | `start_led` from two threads, one blink | counts down what others store | the LED comes to do what was asked last |
| HTTP upload (`httpThread.c`) | place in the loop, `gSYS_cfg_para.report` | upload, reply callback | a loop without a time-out, and a key thread that goes on meanwhile | the report shown is that of the task's own photograph |
| Camera (`carmera_v4l2.c`) | capture queue of the driver | start-up, `save_Picture` | buffer used after it is queued again; old frames in the queue | the photograph was begun after it was asked for |
| Configuration file (`sysCfg.c`) | `/root/record.ini` | read a key, set a key | rewritten in place by two threads; the power may go; a call that cannot open the file is skipped without a word | each key reads as the last call that opened the file saved it |
| OSA queue (`osa_que.c`) | ring, mutex, two conditions | put, get, peek, count | wake-ups | a bounded FIFO that loses no wake-up |
| OSA buffers (`osa_buf.c`) | two queues | get, put, switch | a switch holds two buffers | each buffer in one place; no put waits |
| OSA event (`osa_event.c`) | flags, mutex, condition | set, clear, retrieve | one signal for many waiters | nobody sleeps on flags that are set; no flag vanishes |
| OSA mailbox, task (`osa_mbx.c`, `osa_msgq.c`, `osa_tsk.c`) | handles, two queues a task | send, broadcast, wait, answer, flush, wait for a command | who frees what, and when | each handle freed once; calls return with the right status |
| OSA semaphore (`osa_sem.c`) | count, mutex, condition | wait, signal | one signal a unit | no lost wake-up |
| OSA shared fifo (`osa_shm.c`) | header and bytes in shared memory | create, write, read | processes that die inside a call; a header filled in late; a failed `semop` that no caller looks at | holds what was written and not read |
| OSA pipe, LCD, SPI, GPIO, UART, ADV7842, cJSON, wifi commands | registers, bytes | | none of this kind | not modelled, see below |

What makes this code hard to test is listed in `PROJECT.json` under `hazards`, each
at its line, with the properties that would notice it going wrong, or why none does.

## The modules

| Module | Models | Uses |
|---|---|---|
| `SysState` | the fields of `gSysState` the threads share, one step a call | |
| `AirkissThr` | the airkiss thread: every call and every early return | `SysState` |
| `SysCtrl` | the timer callback of a task, cut at every slow call and at every read that is acted on later | `SysState` |
| `KeyChkThr` | the key thread and, composed with it, the two above and the publications of the network thread | `AirkissThr`, `SysCtrl` |
| `Modes` | **abstract**: what the device promises about its mode | refined by `KeyChkThr` |
| `NetLinkChkThr` | a round of the network thread, with its pings | `SysState` |
| `NetDisplay` | network and display threads together; the run state moves as `Modes` says | `NetLinkChkThr`, `Modes` |
| `TimerThr` | when a task is due and called: seconds, dropped milliseconds, `int32_t` against `uint32_t` | |
| `TimerList` | the list of tasks node by node: registration and removal in their steps, the visit with and without the mutex, freed nodes that `malloc` hands out again | |
| `HttpUpload` | the task again, with the upload loop and the reply callback in place of `saveJpeg`, and a key thread that ends it and starts the next | `SysCtrl` |
| `RecordIni` | the lines of the configuration file, their sizes, the two writers, losses of power, calls that cannot open it | |
| `LedMng` | the LED thread and `start_led` | |
| `Camera` | the capture buffers: start-up, `save_Picture`, a driver that fills them | |
| `OsaQue` | the ring, the mutex and the two conditions, any number of callers | |
| `Fifo` | **abstract**: a bounded queue, one step an operation | refined by `OsaQue` |
| `OsaBuf` | buffers between producers and consumers, over two bounded queues | |
| `OsaEvent` | event flags, all operations and time-outs | |
| `OsaSem` | the counting semaphore, any number of users | |
| `OsaShm` | the byte fifo in shared memory, from its creation by several processes to their death at any step, with calls of `semop` that fail | |
| `OsaMbx` | mailboxes and tasks: handles, parameters, acknowledgements, flush, wait for a command | |
| `Rpc` | **abstract**: a call to several, answered by each once | refined by `OsaMbx` |
| `MCMbx` | the instance of `OsaMbx` that TLC runs | `OsaMbx` |
| `MCTimer` | `TimerThr`, `TimerList`, `HttpUpload` and `RecordIni` side by side | the four |
| `MCDevice` | `NetDisplay`, `LedMng` and `Camera` side by side | the three |
| `MCOsa` | `OsaEvent`, `OsaSem` and `OsaShm` side by side | the three |
| `KeyChkThrProofs`, `OsaQueProofs`, `OsaMbxProofs`, `OsaBufProofs` | the proofs | the module they are named for |
| `TimerProofs`, `DeviceProofs`, `OsaSyncProofs` | the proofs about what `MCTimer`, `MCDevice` and `MCOsa` put side by side | `MCTimer`, `MCDevice`, `MCOsa` |
| `SeqLemmas` | lemmas about sequences as queues: what is on one, once, after a put or a get | |

The layers rest on each other by refinement. `NetDisplay` lets the run state do
whatever `Modes` allows, and `KeyChkThr` is checked and proved to do nothing else.
`OsaBuf` and `OsaMbx` take a queue as a sequence whose put and get are one step
each, and `OsaQue` is checked and proved to be that (`Fifo`); `osa_msgq.c` is the
same ring with pointers in it.

`MCTimer`, `MCDevice` and `MCOsa` compose nothing: their components share no
variable. A variable `part` chooses one of them in the initial state, and it runs by
itself while the others stay in an initial state of theirs. One run so checks
several small components, each property about the one its variables belong to, and
the states of the run are the sum of theirs and not the product.

**State.** A variable with a name of the source is that variable (`state`,
`heatCount`, `isExit`, `curRd`, `eFlags`, ...). A `...pc` says where a thread is in its code: one
value for each place between two accesses to something shared, or at a call that
takes time. Variables marked *history* in their comments exist for the properties
and no guard reads them but the two that bound the environment (`published` of
`NetDisplay`, and `registeredAt` in the `MaxGap` of `TimerThr`).

**Grain.** A section under a mutex is one step, because nobody else sees inside it.
Code without a mutex is cut at every access to shared state: `execTask` is three
steps (`execReset`, `execRegister`, `execMode`), `ExitTask` three, the callback up
to five (`tick` to the last store).

**Outside calls.** What the wifi driver, the airkiss library, libcurl, `malloc`,
GPIO reads or a server answer is chosen freely among the outcomes the code tells
apart.

**Mutants.** Definitions with an underscore in their name after the name of a
mapped one (`execReset_keepsState`) are that definition with one plausible slip; they are
used nowhere in the specification. Each property of a passing run is violated when
one of them takes the original's place, which shows that the property depends on the code.

### Correspondence, where it is not obvious

- `SysCtrl!tick` is the timer finding the task on its list, and `enterCase` the
  `switch` of the callback. Between the two the task may be unregistered and another
  begun: the timer has the node in its hand and calls it all the same. The second between two
  callbacks is not there: a callback may follow at once or late, which includes
  what the timer does. Case 6 of the callback does nothing and is not a step.
- `KeyChkThr!exitWait`: after `ExitTask` the key thread sleeps a second "for the
  exit". Nothing makes the callback finish in that second, and nothing in the model
  does.
- `AirkissThr!akRecv` is the receive loop's last turn; turns that receive nothing
  are stutters. A signal handler that hops channels changes nothing the thread or
  another one decides on, and is left out.
- `NetLinkChkThr!isLive`: the three calls of lines 44 to 51 are three tries, each an
  answer or a silence.
- `TimerThr!Due` is line 43 as the compiler reads it: the time left, negative once
  it has passed, is converted to `uint32_t` and compared with the period. `NextCheck`
  takes the second of the current time and not its milliseconds, because `tv_nsec`
  is set from `tv_sec` (line 57 and the same in `RegisterProc`).
- `OsaQue!signalAndReturn`: a signal wakes one sleeper if there is one. `spurious`
  lets any sleeper return from `pthread_cond_wait` without a signal.
- `OsaQue!quePeek` always returns `OSA_EFAIL`, and so does its abstract counterpart in `Fifo`.
- `OsaBuf!put` waits for ever, as the code does. That it never has to is a property.
- `OsaMbx!recvAck` frees what is none of the call's, parameters included, as the
  search of the sent list does. That it never meets one is a property.

- `HttpUpload` has `SysCtrl!saveJpeg` in its steps and takes every other case of the
  callback from `SysCtrl` as it is. In `KeyChkThr` the upload is one step with any
  outcome, which is what the steps of `HttpUpload` can do to `isValid`.
- `TimerList!wrap` and `advance` are lines 27 to 38 and 60 to 62: a visit that began
  with `wrap` holds no mutex, and its `advance` releases the mutex nevertheless.
  `unlink`, shared by both removals, is the end of `delNode`, its search the step before.
  The nodes the search comes to (`Passed`), like the nodes of the list (`Listed`), are
  defined as what is in every set the pointers do not lead out of: on a list that has become a
  ring the search may never end (`Endless`), and no definition by recursion is needed.
- `RecordIni`: a line is a key, a value and a length. The length matters because the
  file is written over and never truncated; `Behind` is what is left of the old one.
  `Bytes` counts the bytes of the first lines as the members of a set, each byte known by its
  line and its place in it, which is the sum of the sizes without a sum. Each call of
  `SetConfigFileStringValue` opens the file anew; `openFails` is the `fopen` of line 412
  that fails, whereupon the call returns and its caller goes on with its next key. `boot`
  reads through line 265, and takes the default (`False`) when that one fails. That the file
  is written (lines 374 to 395) is one step.
- `Camera!save_Picture` marks what is in the buffers as old. `fill` is the driver,
  which fills a frame in two halves so that a reader can meet it between them.
- `OsaShm`: a byte is its number among all that were written. `fifoRead` and
  `fifoWrite` compute the length under the semaphore; copying, moving `curRd` or
  `curWr`, and the two stores after it are steps between which the process may die.
  `semop` is `semaphore_p` and `semaphore_v`, taking or giving one, or nothing where the
  call fails: a `semop` that waits is interrupted by the handlers of `main.c:50-55`, and is never
  restarted. Both return 0 then, and `OSA_fifoWrite` and `OSA_fifoRead` look at neither result.
  `undo` is the `SEM_UNDO` value the kernel keeps for each process and applies when it ends (`gone`),
  down to 0: after a `semaphore_p` that failed it is negative.
  A creator that died and comes again finds the block there and leaves its header as it is;
  `creator` is -1 from its death on. The block has room for `size` bytes and a header
  (`osa_shm.c:63` asks for `size` alone; the kernel rounds up to a page), so `Capacity` bytes lie behind the header.
- `LedMng`: the delays, and with them `frq`, are left out; every caller passes 1 for
  `isHighstop`.

## The runs

Bounds are the constants of each `.cfg`. Those that appear in a guard are
`MaxPublish`, `MaxGap`, `Horizon`, `Reserve`, `MaxIds`, `MaxTasks`, `MaxSaves`,
`MaxCalls`, `MaxBytes` and `MaxFails`, each explained below.

| Run | Instance | Distinct states | What it shows |
|---|---|---|---|
| `KeyChkThr` | heating of 2 ticks, flash at 1, 2 retries, 2 seconds for each connection | 615,438 | modes exclude each other, radio and heater are given back, photographs follow heating, only an exit leaves heater or flash on, `Modes` is implemented; under fairness a task ends and an exit is obeyed |
| `KeyShortPress` | the same | | *violation*: a short press is lost |
| `NetDisplay` (`MCDevice`) | 2 signal levels, modes task and airkiss; 4 calls of `start_led`; one capture buffer, 2 frames a call | 360,993 | the server is given up only after three silences; the icons come to show what stays; the LED comes to do what was asked last; photographs are of their slide |
| `NetStale` | the network part of it | | *violation*: the server stays linked without a network |
| `TimerThr` (`MCTimer`) | times: one task, a second of 3 ticks, periods of 1 and 2 seconds, up to 4 ticks between visits, 15 ticks; list: one thread that registers and unregisters, one that registers, 3 cells, 3 registrations; upload: 3 tasks; file: 3 reports of 1 or 3 digits, 10 lines, any call may fail to open it | 899,126 | calls are on time and keep their period; the list is the registered tasks but for two races; a report is its task's own; the record is kept |
| `OsaQue` | 3 callers, 2 values, 2 places; deadlock checked | 268,736 | no lost wake-up, `Fifo` is implemented |
| `OsaBuf` | a producer that switches, a consumer that switches, one that gets and puts, 5 buffers | 2,722 | every buffer in one place, no put waits, every buffer comes round for ever |
| `OsaEvent` (`MCOsa`) | 1 waiter, 2 flags, all operations and time-outs; 3 users of a semaphore up to 2; 2 processes, a fifo of 2 bytes, reads and writes of 1 and 2, 3 bytes written, 1 failed `semop`; symmetric processes; deadlock checked | 2,085,368 | the waiter never sleeps through its flags; what calls without a time consume they report; no wake-up of the semaphore is lost; the fifo holds what is unread until a call goes on without the semaphore |
| `EventTwoWaiters` | 2 waiters | | *violation*: the wrong one is woken |
| `EventTimed` | 1 waiter | | *violation*: flags consumed and not reported |
| `MbxSafety` | client, two tasks, 4 handles, 1 parameter, 1 command, queues of 2; symmetric handles; deadlock checked | 112,169 | handles and parameters freed once and in time, acknowledgements reach their calls and have room, `Rpc` is implemented |
| `MbxLiveness` | 3 handles, no parameters, 2 commands; no symmetry | 270,273 | calls return |

Only the two runs of `KeyChkThr` switch the deadlock check off: `power_Off` cuts the
supply and everything stops.

### Why the bounds are enough

- **`KeyChkThr`.** A countdown is started, decremented and tested for 0; 2 ticks have
  a first, a middle (where the flash goes on) and a last. The proofs hold for every number of
  ticks.
- **`NetDisplay`, `MaxPublish` = 1.** A round of the network thread takes more than a
  second, one of the display half a second, so at most one server state is
  published between two copies. It matters: with 2 a
  state can change and change back between the copy and the second read, the icon is
  drawn in between, and the remembered copy equals the next one, so that
  `IconsFollow` fails. The display is right *because* it is the faster thread.
- **`TimerThr`, `MaxGap` and `Horizon`.** `MaxGap` is how long callbacks can keep
  the thread from a node; 4 ticks, more than a second, lets it miss a whole second. The clock stops at 15 ticks, five seconds, enough for two
  periods of the longest task. `Uint32` only has to be larger than what the clock
  and the periods add up to; that is the code's range of about 24 days of an `int32_t` of milliseconds.
  The proofs hold for every clock that respects that.
- **`OsaQue`.** Three callers are the fewest with two sleepers and one who comes first.
- **`OsaBuf`.** More buffers than callers can hold. With as many buffers as
  callers hold, `Switch` calls can fail for ever, and with two producers that switch
  one of them can fail for ever although both keep trying: `BuffersCirculate` is stated
  for what the interface can give.
- **`TimerList`.** The program has one thread that registers and removes a continuing
  task (the key thread) and one that registers a single task (main, at start-up); a
  list of at most three, with a node freed and handed out again, is more than the
  program ever has. `MaxIds` ends the registrations.
- **`HttpUpload`, `MaxTasks`.** Three tasks: one whose upload goes on, one under it, and one
  after it.
- **`RecordIni`, `MaxSaves`, `MaxLines`.** A percentage of three digits after one of one and
  before one of one leaves and meets a tail; the next report saved meets it again. Ten
  lines stand for 128: no file of the model reaches them unless two writers overlap.
- **`LedMng`, `MaxCalls`.** The last call asks for what the LED must come to do, the one before it
  for something else, and one before that sets `times` going.
- **`Camera`.** One buffer and two frames a call are the constants of the code. With two
  buffers `PhotoIsFresh` fails: the call throws away one old frame, and there would be two.
- **`OsaSem`.** Three users: two asleep and one who comes first. **`OsaShm`, `MaxBytes`, `MaxFails`.** A fifo of two bytes is
  filled, overshot at its end by a length of 2, emptied and written again with the third byte. One
  failed `semop` is one process that goes on without the semaphore, or one that never gives it back;
  the deaths are not bounded. The processes differ in nothing but who creates the block, so their
  symmetry is sound for these invariants.
- **`OsaEvent`.** Two flags distinguish "all" from "any" and a mask from the rest. Two waiters are a run of their own.
- **`MbxSafety`.** Four handles fill a mailbox while a handler sends. `MaxLen` at
  least the number of tasks is an assumption of the module: a call has at most one
  message at each task, which is why acknowledgements always have room; the code's
  `OSA_MSGQ_LEN_MAX` is 32, so this holds of applications with up to 32 tasks.
  `Reserve`: clients leave one handle to the handlers, because a heap of four cells is
  exhausted in ways the real one is not. `MaySend` is a pipeline (client to A and B, A to B):
  handlers that wait for each other in a circle wait for ever, which is in the
  interface and not in the module.

### Fairness

Weak fairness of threads, never strong. `KeyChkThr`: the key thread's own steps, the
callback and the airkiss thread go on when they can, since they loop, sleep for a
time, or make calls that return. For pings that is so; for the upload it is an
assumption about the network, because the loop of `httpThread.c:151-218` has no time-out
and a server that stays silent would keep the callback, and the timer thread, waiting. Nothing is assumed of the
user, of the server, or of the phone an exchange waits for: `akRecv` is not fair.
`NetDisplay`: both threads loop for ever. `LedMng`: the LED thread loops, and its sleeps end. `OsaBuf`: every caller keeps calling.
`OsaMbx`: threads run on and handlers return, but whether a client ever sends is its own affair.

## What the runs found

Four runs end in a counterexample to something the repository says of itself.

1. **A short press can be lost, and the keys with it** (`KeyShortPress`). `README.md:5`
   of the repository says that in airkiss mode a short press leaves the mode. `airkissThr.c:163` clears
   `isExit` after the library is initialised and the radio switched; a press
   during that time sets the flag first. The thread then receives for ever, and the
   key thread sits in `pthread_join`. `ExitObeyed` states what does hold: an
   exit asked for from then on is obeyed.
2. **The server stays linked without a network** (`NetStale`). `netLinkChkThr.c:41`: with no
   signal there is no ping, and the answer of the last round is published again. The task reads it as
   "network link ok" (`sys_ctrl.c:332`) and skips the wait for the network.
3. **One signal for several waiters** (`EventTwoWaiters`). `osa_event.h:77-78` says that
   the tasks waiting will wake up; `osa_event.c:145` signals one.
4. **A timed wait that succeeds says it failed** (`EventTimed`). When flags end a wait
   with a time, `osa_event.c:278-309` consumes them and returns `OSA_EFAIL` with nothing
   in `*pRetrievedEvents`.

Other behaviour the models contain, stated as exceptions in the properties or by none:
a callback that is still running may draw, upload and switch the flash on after `ExitTask`
(`keyChkThr.c:98`), and nothing switches it off again until the next report (`LeftOnOnlyByExit`
says that this and an exit before the end of the heating are the only ways to leave
flash or heater on); a failed check calls `showReport` too (`sys_ctrl.c:377`) and so saves
the numbers of the last report with a new date; a reply without one of the numbers keeps the old one under `isValid`, and a task
whose case 0 was skipped can show the report of the task before (`ReportIsOwn` names
both; an upload that outlives its task does no harm, because it holds the timer
thread until it ends and the next task's case 0 comes after it); a reply without `code` ends the process
(`httpThread.c:69`); a registration can be lost when the timer thread releases a
mutex it does not hold, or takes a single task off without it (`ListIsTasks`); a
call of `start_led` between the load and the store of `times--` is undone
(`LedObeysLast`); two writers of the configuration file can undo each other
(`RecordKept`), and a save whose `fopen` failed leaves the old value of that key beside the new ones
of the others; a shared fifo is in disorder after a process died between moving
`curRd` and its last store, or wrote before its header was filled in
(`ShmHoldsUnread`); a read or write whose `semaphore_p` failed goes on without the semaphore, and its
`semaphore_v` raises it to 2, so that from then on two processes may be inside at once and nothing is
promised of the fifo (`unguarded`); a `semaphore_v` that fails leaves the others waiting until that process ends; the idle power-off counts polls with both keys held, since each key
that is up clears the count (`keyChkThr.c:42`, `:181`, `:214`); the shutdown of
`main.c` stops at the join of the LED thread, whose loop has no end (`sys_misc.c:91`);
a task can skip its heating when it is started under a callback of
the task before, which `HeatSkippedOnlyByOverlap` shows to be the only way; tasks are
called up to a second early, because the milliseconds of the current time are dropped (`timerThr.c:57`);
a call that consumes clears every flag of the event, where `osa_event.h:26-27` and `:40-41` speak of those
in the mask (`osa_event.c:309`); it reports all it has cleared (`UntimedIsReported`).

## The proofs

`tlapm` proves, for all values of the constants under the assumptions of the
modules:

| Theorem | Says | Argument |
|---|---|---|
| `KeyChkThrProofs`: `ModesAreExclusive`, `MonitorIsOwned` | an airkiss thread and a task never coexist; the radio is never left in monitor mode | `RunInv`: at each place of the key thread, which run states are possible. The three threads write `runState` without a lock, and it works because only the key thread leaves IDLE, and because while an airkiss thread runs the key thread can only be polling or leaving |
| `PhotosComeAfterHeating` | photographs with the heater off after a whole countdown, for every number of ticks, and no callback counts down from 0 | `HeatInv`: in a running callback `state` is what its switch read *or the 0 `execTask` stored since*, and both imply what was done before |
| `HeatingIsSkippedOnlyByOverlap` | the one way to skip heating | `SkipInv` |
| `DevicesAreLeftOnOnlyByExit` | what an exit can leave switched on, and how | `LateInv`: once `ExitTask` has switched the flash off, only a callback that is late is still running |
| `TypesAreKept` | every variable stays in its range, countdowns included | `TypeOK` with `RunInv` and `HeatInv` |
| `ImplementsModes` | `KeyChkThr` refines `Modes` | each step is a mode step or keeps `runState` |
| `OsaQueProofs`: `NoWakeupIsLost`, `NeverAllAsleep` | any callers, values, ring size, spurious wake-ups | `NoLostWakeup` counts: while readers sleep, each value in the ring has a woken reader. It is inductive with `RingInv` because each put adds one value and wakes one reader, and a reader goes to sleep only on an empty ring |
| `ImplementsFifo` | the ring refines the bounded queue | modular arithmetic of `curRd`, `curWr`, `count`: the contents as a sequence grow at the end and shrink at the head |
| `OsaQueProofs`: `TypesHold` | indices and count stay in range | a conjunct of `RingInv` |
| `OsaBufProofs`: `EachBufferOnceHolds`, `PutNeverWaitsHolds`, `TypesHold` | any callers, any number of buffers | `ApartInv`: what is on the two queues and in the callers' hands is disjoint; `NoneLost`: it is all there is; `SwitchInv`: a caller has a second buffer exactly between the get and the put of a switch. A queue has a place for every buffer, and the caller holds one of them |
| `OsaMbxProofs`: `HandleOnceHolds`, `PrmFreedInTimeHolds`, `AcksAwaitedHold`, `AckNeverWaitsHolds`, `TypesHold` | any clients and tasks, handles, parameters, and queues with a place for each task | `PlaceInv`: an allocated handle is in one mailbox or in one hand; `SentInv`: what a call still waits for is exactly the messages it sent that are allocated, one a receiver; `PrmInv`: a parameter belongs to one call and its messages. A mailbox of acknowledgements holds at most one message of each task, and so has room |
| `CallsAnswered` | `OsaMbx` refines `Rpc` | each step maps to a send, an answer, the return, or a stutter; whom the call still waits for (`Asked`) are those it has not sent to and those whose message is not among its acknowledgements |
| `TimerProofs`: `CallsAreOnTime`, `CallsKeepTheirPeriod` | never late by more than a round; at most one call a period | `DueInv`: a due time is a whole second, counted from the second of the last call, and no look has found it past. Lemmas say that the mixed-sign comparison is "past, or still a whole period away", and that the latter is only so on the second itself |
| `ListHoldsTasks`, `ListTypesHold` | any threads and nodes: until the first of the two races the list is the registered tasks, none freed | `LockInv`: who is in the section, and that nobody else is; `HeapInv`: one pointer to each node of the list and no way back to the head. Cutting a node out, linking one in front and handing a freed one out again are lemmas about what is reached (`After`) with the new pointers |
| `CalledLateOnce` | a task that was removed is called at most once more | `IdsInv`: a number is given once; a node whose task was called late is behind the timer's pointer, which no pointer of a freed node leads back from |
| `ReportIsItsOwn`, `UploadTypesHold` | any number of tasks | `OwnInv`: until the task's photograph is taken none of the numbers is from a reply to it and the report is not valid from case 1 on; after that they come from its own reply, in the order the callback stores them (`ToldInv`). Outside the two exceptions, case 0 lies between two tasks |
| `RecordIsKept`, `RecordTypesHold` | any widths, any number of reports, power losses and failed opens anywhere | `RecordInv`: `SavesInv` says which keys a save has behind it, saved or skipped; while no stale copy was written, the file is in order: sizes are those of its keys, no key has two lines, and only keys lie between a key and its section, so that `SetLine` finds each. A new file is at most two bytes shorter than the old one, and every line but junk is longer than that, so what is left behind is junk. The count of the bytes is proved to grow by a line's size (`BytesStep`) from facts on cardinalities, without induction over the file |
| `DeviceProofs`: `PhotoAlwaysFresh` | any number of frames a call takes, and fewer buffers than that | `OrderInv`: the driver hands out frames in the order it began them, stale ones first; `CountInv`: there are fewer stale frames than the call has still to take |
| `ServerGivenUpLate` | any signal levels | `NetInv`: what the thread knows of its pings at each place of its round |
| `OsaSyncProofs`: `SemaphoreLosesNoWakeup`, `SemTypesHold` | any users, any maximum, any order of waking | the units never outnumber the woken while somebody sleeps: a signal adds one unit and wakes one sleeper, a take by a woken user lowers both, a take by one who came first lowers the units alone, and a user goes to sleep only at zero |
| `OneWaiterMissesNothing`, `TypeCorrect` | with one waiter, any flags | it sleeps only after a look at the flags that found them missing, and every change of the flags by others signals. The assumption that all waiters are equal is needed: `EventTwoWaiters` |
| `UntimedCallsReport` | any waiters: calls without a time report what they consume | |
| `UnreadIsHeld`, `CopiesStayInside`, `ShmTypesHold` | any processes, lengths and capacity, deaths, restarts and failed calls of `semop` at every step, until a call goes on without the semaphore | `ShmMutex`: at most one process holds the semaphore, and `undo` says which: one inside, or one whose `semaphore_v` failed; `ShmRoom`: a write is inside whatever the header holds; `ShmHeader`: only the creator fills the header in, once; `ShmFilled`: the bytes from `curRd` to `curWr` are the unread ones, but while a reader is between moving `curRd` and its last store. A write that would pass the end is cut to the room there is; a read that passes the end copies the room left to write, and that is inside because `curRd` never passes `curWr` |
| `TogetherTyped` of `TimerProofs`, `DeviceProofs`, `OsaSyncProofs` | every variable of the compositions keeps its type | a step of the composition is a step of one part and a stutter of the others |

Each proof follows one pattern: a lemma that the initial states satisfy the
invariant, one lemma (or step) an action that it is preserved, the temporal step by
PTL. The invariants were checked as properties of the runs before they were proved.
The constants' assumptions (`TickAssumption`, `ConnectTriesAssumption`,
`QueAssumption`, `BufAssumption`, `MbxAssumption`, `EventAssumption`, `SemAssumption`,
`ShmAssumption`, `TimerAssumption`, `ListAssumption`, `MaxTasksAssumption`,
`RecordAssumption`, `StrengthsAssumption`, `BusyAssumption`, `MaxPublishAssumption`,
`MaxCallsAssumption`, `CameraAssumption`) are evaluated by TLC in the runs of the same modules.
`TimerAssumption` asks for periods of whole seconds; the program registers 1000
and 2000 milliseconds. Two theorems have a hypothesis of their own: that all waiters are one
(`OneWaiterMissesNothing`), and that there are fewer capture buffers than frames
a call takes (`PhotoAlwaysFresh`, and `TogetherTyped` of `DeviceProofs`, because `CamTypeOK` is proved together with it); the program
has one buffer and takes two frames. Both are needed: TLC finds the counterexample without them.

Only model-checked: liveness (`TaskEnds`, `ExitObeyed`, `IconsFollow`, `LedObeysLast`,
`BuffersCirculate`, `CallReturns`), which the prover does not reach. Every invariant, every
action property and every refinement that a run checks is a theorem; `CopiesStayInside` is one
that no run lists. No module declares a recursive
operator.

## What is not modelled

- **Key scanning**: the debouncing counters and the idle power-off. The model starts where a press
  has been recognised; a model of the counters would restate their thresholds.
- **`OSA_queIsEmpty`**, which returns 0 in both of its branches; deletion of queues,
  events, mailboxes, tasks, semaphores and shared blocks; `OSA_shmRead` and
  `OSA_shmWrite`, which copy past the fifo. **`osa_pipe.c`**: nothing calls it; it is a kernel
  pipe with a counter that reader and writer change without a lock.
- **`file_mng.c`**: logging is switched off in it (`isLog = 0`, line 150), and the line that
  would clear its flag is part of a comment (208). **The shutdown of `main.c`**: it stops
  for certain at the first endless thread, with nothing to interleave.
- **The rest of `httpThread.c`** (`sendPostData`, `sendGetRequest`, `getResult`), **`ftp.c`**, **the
  heart beat**: called by nothing.
- **Screen, LCD, SPI, GPIO, UART, PWM**: register and pixel writes with no state a
  property could be about. `driver/spi_lcd` is a frame-buffer driver of the same kind.
- **ADV7842**: the chip vendor's driver, not linked into this program. It and its headers
  are 40,000 of the repository's 57,000 lines, register maps for the most part. **cJSON, curl
  headers** (another 5,000 lines): third-party.
- **OSA wrappers** (files, I2C, threads, sockets, profiling): a system call each.
- **Wifi commands, `netconfig.c`, `ap_client.c`**: shell commands and ioctls whose
  outcome is chosen freely where a modelled thread waits for it.

## Plan

The concurrent code is modelled, and what the runs check of its safety is proved. What is left:

1. To prove: what the properties make exceptions of, the other way round, that the
   exceptions happen only as they say (`ListIsTasks` after the second race: which tasks are lost; `RecordKept` after an overlap: that the
   file keeps its sections).
2. To model, if a caller appears: the pipe; the log manager; the second HTTP request.

## Running

    tlc -workers 2 -config KeyChkThr.cfg KeyChkThr.tla
    tlc -workers 2 -config MbxSafety.cfg MCMbx.tla
    tlc -workers 2 -config TimerThr.cfg MCTimer.tla
    tlapm OsaQueProofs.tla
    tlapm TimerProofs.tla

The configuration of a run has the run's name; `KeyShortPress`, `NetStale`,
`EventTwoWaiters` and `EventTimed` are meant to end in a violation. Every passing run
ends within three minutes, every proof module within ten.
