------------------------------ MODULE TimerList ------------------------------
(***************************************************************************)
(* The list of tasks of timerThr.c, pointer by pointer.  Threads register  *)
(* and unregister tasks under the mutex; the timer thread walks the list   *)
(* with a pointer of its own, which it keeps while it sleeps, and visits   *)
(* the first node without the mutex: line 32 releases it, line 61 releases *)
(* it once more, whoever holds it then.  When a task is due is the matter  *)
(* of TimerThr; here it may be at any visit.                               *)
(*                                                                         *)
(* Releasing a mutex one does not hold makes it free: the C library does   *)
(* not ask who releases a mutex of the default kind.  A freed node keeps   *)
(* its contents until malloc hands it out again, which is the mildest of   *)
(* what may become of them.                                                *)
(***************************************************************************)
EXTENDS Integers, FiniteSets

CONSTANTS
  Cells,     \* heap cells malloc may return for a node
  Keepers,   \* threads that register a continuing task and unregister it: key
  Starters,  \* threads that register one single task: main
  ListHead,  \* *pTaskHead, which is never freed
  Null,
  MaxIds     \* bound on the number of registrations

ASSUME ListAssumption ==
  /\ ListHead \notin Cells /\ Null \notin Cells \cup {ListHead}
  /\ Keepers \cap Starters = {}
  /\ IsFiniteSet(Keepers \cup Starters) /\ "timer" \notin Keepers \cup Starters
  /\ MaxIds \in Nat

Clients == Keepers \cup Starters

VARIABLES
  next,       \* the next pointers
  procId,     \* task.procId of each node, 0 when it was never set
  taskMode,   \* task.mode of each node, "none" when it was never set
  allocated,  \* nodes malloc has returned and nobody has freed
  lastId,     \* pTaskHead->task.procId, the number of registrations
  locked,     \* the mutex
  tpc,        \* where the timer thread is
  cur,        \* pCurTaskNode
  guarded,    \* the visit is one that line 27 has locked
  lpc,        \* where each client is
  node,       \* its pNewTaskNode, or pTmpNode of its delNode
  prev,       \* pLastTaskNode of a delNode, the timer's under "timer"
  cut,        \* pTmpNode of the timer's delNode
  id,         \* what RegisterProc returned to each client
  stolen,     \* history: line 61 released a mutex a client held
  bare,       \* history: a delNode without the mutex overlapped a client's section
  gone,       \* history: the tasks that were taken off
  called,     \* history: those of them whose procedure was called after that
  again,      \* history: one was called a second time
  torn        \* history: a node was called that nobody had filled in yet

listVars == <<next, procId, taskMode, allocated, lastId, locked, tpc, cur, guarded,
              lpc, node, prev, cut, id, stolen, bare, gone, called, again, torn>>

Nodes == Cells \cup {ListHead}

ListTypeOK ==
  /\ next \in [Nodes -> Cells \cup {Null}]
  /\ procId \in [Cells -> 0 .. MaxIds]
  /\ taskMode \in [Cells -> {"none", "SINGLE", "CONTINUE"}]
  /\ allocated \subseteq Cells
  /\ lastId \in 0 .. MaxIds
  /\ locked \in BOOLEAN
  /\ tpc \in {"lock", "look", "call", "after", "cut", "next", "lost"}
  /\ cur \in Cells \cup {Null}
  /\ tpc # "lock" => cur # Null
  /\ guarded \in BOOLEAN
  /\ lpc \in [Clients -> {"idle", "lock", "link", "fill", "has", "cut", "lost"}]
  /\ node \in [Clients -> Cells \cup {Null}]
  /\ prev \in [Clients \cup {"timer"} -> Nodes \cup {Null}]
  /\ cut \in Cells \cup {Null}
  /\ id \in [Clients -> 0 .. MaxIds]
  /\ gone \subseteq 1 .. MaxIds
  /\ called \subseteq gone
  /\ stolen \in BOOLEAN /\ bare \in BOOLEAN /\ again \in BOOLEAN /\ torn \in BOOLEAN

ListInit ==
  /\ next = [n \in Nodes |-> Null]
  /\ procId = [c \in Cells |-> 0]
  /\ taskMode = [c \in Cells |-> "none"]
  /\ allocated = {}
  /\ lastId = 0
  /\ locked = FALSE
  /\ tpc = "lock"
  /\ cur = Null
  /\ guarded = FALSE
  /\ lpc = [c \in Clients |-> "idle"]
  /\ node = [c \in Clients |-> Null]
  /\ prev = [c \in Clients \cup {"timer"} |-> Null]
  /\ cut = Null
  /\ id = [c \in Clients |-> 0]
  /\ stolen = FALSE
  /\ bare = FALSE
  /\ gone = {}
  /\ called = {}
  /\ again = FALSE
  /\ torn = FALSE
-----------------------------------------------------------------------------
timerVars == <<tpc, cur, guarded, cut>>
heapVars == <<next, procId, taskMode, allocated, lastId>>
clientVars == <<lpc, node, id>>
pastVars == <<stolen, bare, gone, called, again, torn>>

(* The nodes a node leads to, over one pointer or more: those in every set *)
(* the pointers do not lead out of again.                                  *)
Closed(nxt, S) == \A n \in S : nxt[n] \in S \cup {Null}

After(nxt, n) ==
  {m \in Cells :
     \A S \in SUBSET Cells : nxt[n] \in S \cup {Null} /\ Closed(nxt, S) => m \in S}

Listed == After(next, ListHead)

(* delNode: the nodes pLastTaskNode comes to in the search of a task, and  *)
(* the one it has when the task is found.  On a list that has become a     *)
(* ring the search may never end.                                          *)
Passes(S, task) == \A n \in S : next[n] \in S \cup {Null} \/ procId[next[n]] = task

Passed(task) ==
  {n \in Nodes : \A S \in SUBSET Nodes : ListHead \in S /\ Passes(S, task) => n \in S}

Searched(task) == {n \in Passed(task) : next[n] # Null /\ procId[next[n]] = task}

Endless(task) == \A n \in Passed(task) : next[n] # Null

(* The end of delNode: unlinked and freed. *)
unlink(last, tmp) ==
  /\ next' = [next EXCEPT ![last] = next[tmp]]
  /\ allocated' = allocated \ {tmp}
  /\ UNCHANGED <<procId, taskMode, lastId>>

(* The clients in RegisterProc, behind its malloc. *)
Registering == {c \in Clients : lpc[c] \in {"lock", "link", "fill"}}

(* A client is between its lock and its unlock. *)
InSection(c) == lpc[c] \in {"link", "fill", "cut"}
-----------------------------------------------------------------------------
(* RegisterProc: malloc, which may also fail and change nothing, ... *)
regMalloc(c) ==
  /\ lpc[c] = "idle"
  /\ c \in Starters => id[c] = 0
  /\ lastId + Cardinality(Registering) < MaxIds
  /\ \E cell \in Cells \ allocated :
       /\ allocated' = allocated \cup {cell}
       /\ node' = [node EXCEPT ![c] = cell]
  /\ lpc' = [lpc EXCEPT ![c] = "lock"]
  /\ UNCHANGED <<next, procId, taskMode, lastId, locked, timerVars, prev, id, pastVars>>

(* ... the mutex, the new node in front of the first one, ... *)
regLock(c) ==
  /\ lpc[c] = "lock"
  /\ ~locked
  /\ locked' = TRUE
  /\ next' = [next EXCEPT ![node[c]] = next[ListHead]]
  /\ lpc' = [lpc EXCEPT ![c] = "link"]
  /\ bare' = (bare \/ tpc = "cut")
  /\ UNCHANGED <<procId, taskMode, allocated, lastId, timerVars, prev, node, id,
                 stolen, gone, called, again, torn>>

(* Mutant: the head is read again when the node is linked to it, too late. *)
regLink_dropsRest(c) ==
  /\ lpc[c] = "link"
  /\ next' = [next EXCEPT ![ListHead] = node[c], ![node[c]] = Null]
  /\ lpc' = [lpc EXCEPT ![c] = "fill"]
  /\ UNCHANGED <<procId, taskMode, allocated, lastId, locked, timerVars, prev, node, id,
                 pastVars>>

(* ... the head at the new node, ... *)
regLink(c) ==
  /\ lpc[c] = "link"
  /\ next' = [next EXCEPT ![ListHead] = node[c]]
  /\ lpc' = [lpc EXCEPT ![c] = "fill"]
  /\ UNCHANGED <<procId, taskMode, allocated, lastId, locked, timerVars, prev, node, id,
                 pastVars>>

(* ... and only now its contents; the mutex is released. *)
regFill(c) ==
  /\ lpc[c] = "fill"
  /\ lastId' = lastId + 1
  /\ procId' = [procId EXCEPT ![node[c]] = lastId']
  /\ taskMode' = [taskMode EXCEPT ![node[c]] = IF c \in Keepers THEN "CONTINUE" ELSE "SINGLE"]
  /\ id' = [id EXCEPT ![c] = lastId']
  /\ locked' = FALSE
  /\ lpc' = [lpc EXCEPT ![c] = IF c \in Keepers THEN "has" ELSE "idle"]
  /\ UNCHANGED <<next, allocated, timerVars, prev, node, pastVars>>

(* UnRegisterProc: the mutex, delNode's search, ... *)
unregLock(c) ==
  /\ lpc[c] = "has"
  /\ ~locked
  /\ \/ \E n \in Searched(id[c]) :
          /\ prev' = [prev EXCEPT ![c] = n]
          /\ node' = [node EXCEPT ![c] = next[n]]
          /\ lpc' = [lpc EXCEPT ![c] = "cut"]
          /\ locked' = TRUE
     \/ /\ Searched(id[c]) = {}
        /\ locked' = Endless(id[c])
        /\ lpc' = [lpc EXCEPT ![c] = IF Endless(id[c]) THEN "lost" ELSE "idle"]
        /\ UNCHANGED <<prev, node>>
  /\ bare' = (bare \/ tpc = "cut")
  /\ UNCHANGED <<heapVars, timerVars, id, stolen, gone, called, again, torn>>

(* ... and its end; the mutex is released. *)
unregCut(c) ==
  /\ lpc[c] = "cut"
  /\ unlink(prev[c], node[c])
  /\ gone' = gone \cup {id[c]}
  /\ locked' = FALSE
  /\ lpc' = [lpc EXCEPT ![c] = "idle"]
  /\ UNCHANGED <<timerVars, prev, node, id, stolen, bare, called, again, torn>>

client(c) ==
  regMalloc(c) \/ regLock(c) \/ regLink(c) \/ regFill(c) \/ unregLock(c) \/ unregCut(c)
-----------------------------------------------------------------------------
(* The timer thread: at the end of the list it starts again at the head,   *)
(* without the mutex; an empty list it finds again after a sleep.          *)
wrap ==
  /\ tpc = "lock"
  /\ ~locked
  /\ cur = Null
  /\ cur' = next[ListHead]
  /\ guarded' = FALSE
  /\ tpc' = IF cur' = Null THEN "lock" ELSE "look"
  /\ UNCHANGED <<heapVars, locked, cut, prev, clientVars, pastVars>>

(* Otherwise it goes on to the node it kept while it slept. *)
goOn ==
  /\ tpc = "lock"
  /\ ~locked
  /\ cur # Null
  /\ locked' = TRUE
  /\ guarded' = TRUE
  /\ tpc' = "look"
  /\ UNCHANGED <<heapVars, cur, cut, prev, clientVars, pastVars>>

(* Due or not. *)
look ==
  /\ tpc = "look"
  /\ tpc' \in {"call", "next"}
  /\ UNCHANGED <<heapVars, locked, cur, guarded, cut, prev, clientVars, pastVars>>

(* pfnProc begins. *)
call ==
  /\ tpc = "call"
  /\ tpc' = "after"
  /\ called' = called \cup ({procId[cur]} \cap gone)
  /\ again' = (again \/ procId[cur] \in called)
  /\ torn' = (torn \/ procId[cur] = 0)
  /\ UNCHANGED <<heapVars, locked, cur, guarded, cut, prev, clientVars, stolen, bare, gone>>

(* It has returned.  A single task is searched for; stCheckTime of a       *)
(* continuing one is stored in the node.                                   *)
after ==
  /\ tpc = "after"
  /\ \/ /\ taskMode[cur] = "SINGLE"
        /\ \E n \in Searched(procId[cur]) :
             /\ prev' = [prev EXCEPT !["timer"] = n]
             /\ cut' = next[n]
             /\ tpc' = "cut"
        /\ bare' = (bare \/ \E c \in Clients : InSection(c))
     \/ /\ taskMode[cur] = "SINGLE" => Searched(procId[cur]) = {}
        /\ tpc' = IF taskMode[cur] = "SINGLE" /\ Endless(procId[cur]) THEN "lost" ELSE "next"
        /\ UNCHANGED <<prev, cut, bare>>
  /\ UNCHANGED <<heapVars, locked, cur, guarded, clientVars, stolen, gone, called,
                 again, torn>>

delSingle ==
  /\ tpc = "cut"
  /\ unlink(prev["timer"], cut)
  /\ gone' = gone \cup ({procId[cut]} \ {0})
  /\ tpc' = "next"
  /\ UNCHANGED <<locked, cur, guarded, cut, prev, clientVars, stolen, bare, called,
                 again, torn>>

(* Mutant: the thread looks at the node once more. *)
advance_stays ==
  /\ tpc = "next"
  /\ locked' = FALSE
  /\ stolen' = (stolen \/ (~guarded /\ \E c \in Clients : InSection(c)))
  /\ tpc' = "lock"
  /\ UNCHANGED <<heapVars, cur, guarded, cut, prev, clientVars, bare, gone, called,
                 again, torn>>

(* The next node, the unlock, and a sleep. *)
advance ==
  /\ tpc = "next"
  /\ cur' = next[cur]
  /\ locked' = FALSE
  /\ stolen' = (stolen \/ (~guarded /\ \E c \in Clients : InSection(c)))
  /\ tpc' = "lock"
  /\ UNCHANGED <<heapVars, guarded, cut, prev, clientVars, bare, gone, called,
                 again, torn>>

timerTaskChkThr == wrap \/ goOn \/ look \/ call \/ after \/ delSingle \/ advance

ListNext == timerTaskChkThr \/ \E c \in Clients : client(c)

ListSpec == ListInit /\ [][ListNext]_listVars
-----------------------------------------------------------------------------
(* The nodes of tasks: handed out, and linked. *)
TaskNodes ==
  {n \in allocated : \A c \in Clients : node[c] = n => lpc[c] \notin {"lock", "link"}}

(* The list is the set of registered tasks, no more and no less, as long   *)
(* as the timer has not released a client's mutex (line 61 after 32) and   *)
(* has not taken a single task off beside a client's section (line 52):    *)
(* a lost registration or a freed node on the list has one of these causes.*)
ListIsTasks == Listed # TaskNodes => stolen \/ bare

(* A procedure is called at most once after its task was taken off, and    *)
(* never before its node is filled in, with the same two exceptions,       *)
(* although the thread keeps a pointer to a node while it sleeps and while *)
(* it calls, and the node may be freed and handed out again meanwhile.     *)
LateCallOnce ==
  /\ again => stolen \/ bare
  /\ torn => stolen
-----------------------------------------------------------------------------
(* Why they hold.  Where a client, or the timer, has a node to work on, it *)
(* has one, and a task to take off has a number.                           *)
HandsInv ==
  /\ \A c \in Clients : lpc[c] \in {"lock", "link", "fill", "cut"} => node[c] \in Cells
  /\ \A c \in Clients : lpc[c] = "cut" => prev[c] \in Nodes
  /\ \A c \in Clients : lpc[c] \in {"has", "cut"} => id[c] \in 1 .. lastId
  /\ tpc = "cut" => prev["timer"] \in Nodes /\ cut \in Cells
  /\ lastId + Cardinality(Registering) <= MaxIds

(* One thread at a time is between its lock and its unlock, but for the    *)
(* visits line 32 leaves unguarded; ...                                    *)
LockInv ==
  /\ \A c \in Clients : InSection(c) => locked = TRUE
  /\ \A c, d \in Clients : InSection(c) /\ InSection(d) => c = d
  /\ tpc # "lock" /\ guarded = TRUE => locked = TRUE /\ \A c \in Clients : ~InSection(c)

(* ... so a node nobody has filled in yet is only seen from the head.      *)
FilledInv ==
  /\ \A n \in Nodes : next[n] # Null /\ procId[next[n]] = 0 =>
       n = ListHead /\ \E c \in Clients : lpc[c] = "fill" /\ node[c] = next[n]
  /\ cur # Null => procId[cur] # 0

(* No pointer leads back: not on the list, where each node has one pointer *)
(* to it, and not from the nodes that were freed.                          *)
OnePointer(nxt) ==
  \A m, n \in After(nxt, ListHead) \cup {ListHead} :
    nxt[m] = nxt[n] /\ nxt[m] # Null => m = n
NoRing(nxt) == \A S \in SUBSET Cells : S # {} => \E n \in S : nxt[n] \notin S

(* A node is in the hands of one client until it is on the list. *)
NewInv ==
  /\ \A c \in Clients : lpc[c] \in {"lock", "link"} => node[c] \in allocated \ Listed
  /\ \A c \in Clients : lpc[c] = "fill" => node[c] \in Listed
  /\ \A c \in Registering, d \in Registering : node[c] = node[d] => c = d
  /\ \A c \in Clients : lpc[c] = "link" => next[node[c]] = next[ListHead]

(* What is to be cut is where the search has found it. *)
Between(last, tmp) ==
  last \in Listed \cup {ListHead} /\ next[last] = tmp /\ tmp \in Listed

CutInv ==
  /\ \A c \in Clients : lpc[c] = "cut" => Between(prev[c], node[c]) /\ procId[node[c]] = id[c]
  /\ tpc = "cut" => Between(prev["timer"], cut) /\ \A c \in Clients : ~InSection(c)

HeapInv ==
  Listed = TaskNodes /\ OnePointer(next) /\ NoRing(next) /\ NewInv /\ CutInv

(* A number is given once, and the tasks on the list have not been taken   *)
(* off.  A task that was called late is behind the timer: no pointer leads *)
(* from its node to that one again.                                        *)
Full(n) == \A c \in Clients : lpc[c] = "fill" => node[c] # n

IdsInv ==
  /\ \A m, n \in Cells : procId[m] = procId[n] /\ procId[m] # 0 => m = n
  /\ \A n \in Cells : procId[n] <= lastId
  /\ gone \subseteq 1 .. lastId
  /\ \A n \in Listed : Full(n) => procId[n] \notin gone
  /\ cur # Null => \A n \in Cells : procId[n] \in called =>
                     n \notin After(next, cur) /\ (tpc \in {"lock", "look", "call"} => n # cur)

ListInv ==
  /\ ListTypeOK /\ HandsInv
  /\ stolen = FALSE => LockInv /\ FilledInv /\ torn = FALSE
  /\ stolen = FALSE /\ bare = FALSE => HeapInv /\ IdsInv /\ again = FALSE
=============================================================================
