----------------------------- MODULE RecordIni ------------------------------
(***************************************************************************)
(* The configuration file /root/record.ini and its two writers: the        *)
(* display thread, which clears is1thBoot once, and the timer thread,      *)
(* which saves the result, the percentage and the date of a report with    *)
(* three calls.  Each call of SetConfigFileStringValue (sysCfg.c) reads    *)
(* the whole file, changes or adds one line, and writes all lines back     *)
(* over the old ones.  Nothing truncates the file: what was longer stays   *)
(* behind what is shorter, as lines of its own.  No lock keeps two calls   *)
(* apart, and the power may go at any time; a completed write survives (to *)
(* write the file is one step: that the power goes, or the flash is full,  *)
(* within it is left out).  A file that cannot be opened is passed over:   *)
(* a call of SetConfig... is then skipped and its caller goes on with the  *)
(* next key, a call of GetConfig... yields the default.                    *)
(*                                                                         *)
(* A line is its key, its value (the number of the report it was saved     *)
(* with) and its size in bytes, on which the rest of an old file depends.  *)
(***************************************************************************)
EXTENDS Integers, SequencesExt, FiniteSetsExt

CONSTANTS
  Widths,     \* digits of a percentage
  MaxLines,   \* rows of lineArray: 128
  MaxSaves    \* bound on the reports saved

ASSUME RecordAssumption == Widths \subseteq 1 .. 3 /\ MaxLines \in Nat /\ MaxSaves \in Nat

VARIABLES
  lines,      \* the file
  recPc,      \* where each writer is
  keyNo,      \* which of its keys the timer thread saves, 1 outside a save
  lineArray,  \* each writer's copy of the file, empty outside a call
  fresh,      \* history: nobody else has written the file since it was copied
  saves,      \* history: calls of showReport
  saved,      \* history: the last of them ended
  last,       \* history: what the last call that opened the file saved for each key
  skipped,    \* history: keys of which a later call than that could not open it
  overlapped, \* history: a file was written over with a copy that was not fresh
  overrun     \* history: a file with more lines than lineArray has rows was read

recVars == <<lines, recPc, keyNo, lineArray, fresh, saves, saved, last, skipped,
             overlapped, overrun>>

Writers == {"display", "timer"}
SavedKeys == <<"result", "Percent", "date">>
Keys == {"result", "Percent", "date", "is1thBoot"}
SectionOf(key) == IF key = "is1thBoot" THEN "[sys]" ELSE "[report]"

(* The line of a key: "result=1", "Percent=..", "date=03#04@ 12:30" and    *)
(* "is1thBoot=0", each with its CR and LF.                                 *)
Line(key, val, digits) ==
  [key |-> key, val |-> val,
   size |-> CASE key = "result" -> 10 [] key = "Percent" -> 10 + digits
              [] key = "date" -> 19 [] key = "is1thBoot" -> 13]

Section(name) == [key |-> name, val |-> 0, size |-> IF name = "[sys]" THEN 7 ELSE 10]
Junk(n) == [key |-> "junk", val |-> 0, size |-> n]

MaxSize == 19

(* What a line can be: the rest of a line that was written over is junk. *)
Rows == [key : Keys \cup {"[sys]", "[report]", "junk"}, val : Nat, size : 1 .. MaxSize]

(* Files the device may be shipped with, and may first be started with. *)
FirstFiles ==
  {<<Section("[sys]"), Line("is1thBoot", 1, 1), Section("[report]")>>,
   <<Section("[sys]"), Line("is1thBoot", 1, 1), Section("[report]"),
     Line("result", 0, 1), Line("Percent", 0, 1), Line("date", 0, 1)>>,
   <<Section("[report]"), Line("result", 0, 1), Line("Percent", 0, 1), Line("date", 0, 1),
     Section("[sys]"), Line("is1thBoot", 1, 1)>>,
   <<Section("[report]"), Section("[sys]"), Line("is1thBoot", 1, 1)>>}

RecTypeOK ==
  /\ lines \in Seq(Rows)
  /\ recPc \in [Writers -> {"boot", "idle", "read", "write", "done", "lost"}]
  /\ recPc["display"] # "idle" /\ recPc["timer"] # "done"
  /\ keyNo \in 1 .. 3
  /\ lineArray \in [Writers -> Seq(Rows)]
  /\ fresh \in [Writers -> BOOLEAN]
  /\ saves \in 0 .. MaxSaves
  /\ last \in [Keys -> Nat]
  /\ skipped \subseteq Keys
  /\ saved \in BOOLEAN /\ overlapped \in BOOLEAN /\ overrun \in BOOLEAN

RecInit ==
  /\ lines \in FirstFiles
  /\ recPc = [w \in Writers |-> "boot"]
  /\ keyNo = 1
  /\ lineArray = [w \in Writers |-> <<>>]
  /\ fresh = [w \in Writers |-> FALSE]
  /\ saves = 0
  /\ last = [key \in Keys |-> IF key = "is1thBoot" THEN 1 ELSE 0]
  /\ skipped = {}
  /\ saved = TRUE /\ overlapped = FALSE /\ overrun = FALSE
-----------------------------------------------------------------------------
(* The line of a key's section; 0 when there is none. *)
SectionAt(file, key) == SelectInSeq(file, LAMBDA l : l.key = SectionOf(key))

(* The line GetStringContentValue takes a key from: the first of its       *)
(* section that begins with it; 0 when there is none.                      *)
PlaceOf(file, key) ==
  LET sec == SectionAt(file, key)
      next == {i \in DOMAIN file : i > sec /\ file[i].key \in {"[sys]", "[report]"}}
      found == {i \in DOMAIN file : i > sec /\ file[i].key = key /\ \A j \in next : i < j}
  IN  IF found = {} THEN 0 ELSE Min(found)

(* GetConfigFileIntValue, with 0 for its default. *)
ValueOf(file, key) == LET i == PlaceOf(file, key) IN IF i = 0 THEN 0 ELSE file[i].val

(* Mutant: the line is added even when there is one. *)
SetLine_adds(file, line) ==
  InsertAt(file, SectionAt(file, line.key) + 1, line)

(* What SetStringContentValue makes of its copy: from the section on, the  *)
(* line of the key is replaced, or a new one put in front of the first     *)
(* line that does not begin with a letter, the end of the file included.   *)
SetLine(file, line) ==
  LET sec == SectionAt(file, line.key)
      i == Min({j \in sec + 1 .. Len(file) : file[j].key \notin Keys \ {line.key}}
               \cup {Len(file) + 1})
  IN  IF i <= Len(file) /\ file[i].key = line.key
        THEN [file EXCEPT ![i] = line] ELSE InsertAt(file, i, line)

(* The bytes of the first n lines, each known by its line and its place    *)
(* in it.                                                                  *)
Bytes(file, n) ==
  Cardinality({byte \in (1 .. n) \X (1 .. MaxSize) : byte[2] <= file[byte[1]].size})

(* What is left of a file behind its first n bytes. *)
Behind(file, n) ==
  LET whole == {i \in 0 .. Len(file) : Bytes(file, i) <= n}
      rest == SubSeq(file, Max(whole) + 1, Len(file))
      cut == n - Bytes(file, Max(whole))
  IN  IF cut = 0 \/ rest = <<>> THEN rest
      ELSE <<Junk(rest[1].size - cut)>> \o Tail(rest)
-----------------------------------------------------------------------------
(* main: SYS_initALLCfgPara, and then the threads.  The default of         *)
(* is1thBoot, when the file cannot be opened, is False.                    *)
boot ==
  /\ \A w \in Writers : recPc[w] = "boot"
  /\ \E opened \in BOOLEAN :
       recPc' = [w \in Writers |->
                   IF w = "timer" THEN "idle"
                   ELSE IF opened /\ ValueOf(lines, "is1thBoot") = 1 THEN "read" ELSE "done"]
  /\ UNCHANGED <<lines, keyNo, lineArray, fresh, saves, saved, last, skipped,
                 overlapped, overrun>>

(* showReport(True) has drawn the report. *)
showReport ==
  /\ recPc["timer"] = "idle"
  /\ saves < MaxSaves
  /\ saves' = saves + 1
  /\ saved' = FALSE
  /\ recPc' = [recPc EXCEPT !["timer"] = "read"]
  /\ UNCHANGED <<lines, keyNo, lineArray, fresh, last, skipped, overlapped, overrun>>

(* The key a writer is at, and what it saves for it, in how many digits. *)
KeyOf(w) == IF w = "display" THEN "is1thBoot" ELSE SavedKeys[keyNo]
Digits(w) == IF KeyOf(w) = "Percent" THEN Widths ELSE {1}
NewLine(w, digits) == Line(KeyOf(w), IF w = "display" THEN 0 ELSE saves, digits)

(* Its call ends, and the next begins, if there is one. *)
callEnds(w) ==
  \/ /\ w = "timer" /\ keyNo < 3
     /\ keyNo' = keyNo + 1
     /\ recPc' = [recPc EXCEPT ![w] = "read"]
     /\ UNCHANGED saved
  \/ /\ w = "timer" /\ keyNo = 3
     /\ recPc' = [recPc EXCEPT ![w] = "idle"]
     /\ keyNo' = 1
     /\ saved' = TRUE
  \/ /\ w = "display"
     /\ recPc' = [recPc EXCEPT ![w] = "done"]
     /\ UNCHANGED <<keyNo, saved>>

(* SetConfigFileStringValue: the file cannot be opened, ... *)
openFails(w) ==
  /\ recPc[w] = "read"
  /\ skipped' = skipped \cup {KeyOf(w)}
  /\ callEnds(w)
  /\ UNCHANGED <<lines, lineArray, fresh, saves, last, overlapped, overrun>>

(* ... or it is, and the copy made, and behind it one empty line; ...      *)
readFile(w) ==
  /\ recPc[w] = "read"
  /\ lineArray' = [lineArray EXCEPT ![w] = lines]
  /\ fresh' = [fresh EXCEPT ![w] = TRUE]
  /\ overrun' = (overrun \/ Len(lines) + 1 > MaxLines)
  /\ recPc' = [recPc EXCEPT ![w] = IF Len(lines) + 1 > MaxLines THEN "lost" ELSE "write"]
  /\ UNCHANGED <<lines, keyNo, saves, saved, last, skipped, overlapped>>

(* ... and the file, rewritten. *)
Changed(w, digits) == SetLine(lineArray[w], NewLine(w, digits))

writeFile(w) ==
  /\ recPc[w] = "write"
  /\ \E digits \in Digits(w) :
       LET file == Changed(w, digits)
       IN  lines' = file \o Behind(lines, Bytes(file, Len(file)))
  /\ last' = [last EXCEPT ![KeyOf(w)] = IF w = "display" THEN 0 ELSE saves]
  /\ skipped' = skipped \ {KeyOf(w)}
  /\ overlapped' = (overlapped \/ ~fresh[w])
  /\ lineArray' = [lineArray EXCEPT ![w] = <<>>]
  /\ fresh' = [v \in Writers |-> FALSE]
  /\ callEnds(w)
  /\ UNCHANGED <<saves, overrun>>

(* The power goes, and comes again. *)
powerLoss ==
  /\ \E w \in Writers : recPc[w] # "boot"
  /\ recPc' = [w \in Writers |-> "boot"]
  /\ keyNo' = 1
  /\ lineArray' = [w \in Writers |-> <<>>]
  /\ fresh' = [w \in Writers |-> FALSE]
  /\ UNCHANGED <<lines, saves, saved, last, skipped, overlapped, overrun>>

RecNext ==
  \/ boot \/ showReport \/ powerLoss
  \/ \E w \in Writers : openFails(w) \/ readFile(w) \/ writeFile(w)

RecSpec == RecInit /\ [][RecNext]_recVars
-----------------------------------------------------------------------------
(* The record survives its rewriting: whatever the lengths of its values   *)
(* were, whatever is left of older and longer files, whenever the power    *)
(* went and whichever calls could not open the file, each key has at most  *)
(* one line, and the next start that can open it reads what the last call  *)
(* for the key that could had saved: an is1thBoot once cleared stays       *)
(* cleared.  A report whose three calls have ended is read back, but for   *)
(* the keys whose call was skipped, and of a mixture, after a power loss   *)
(* during a save, no value is older than one saved behind it, unless a     *)
(* call for it was skipped.  It takes a call of the other thread between   *)
(* the reading and the writing of the file to break this.                  *)
RecordKept ==
  ~overlapped =>
    LET read == [key \in Keys |-> ValueOf(lines, key)] IN
    /\ \A key \in Keys : Cardinality({i \in DOMAIN lines : lines[i].key = key}) <= 1
    /\ read = last
    /\ saved => \A k \in 1 .. 3 : SavedKeys[k] \in skipped \/ read[SavedKeys[k]] = saves
    /\ \A k \in 1 .. 2 : \/ SavedKeys[k] \in skipped
                         \/ read[SavedKeys[k]] >= read[SavedKeys[k + 1]]
-----------------------------------------------------------------------------
(* Why it is kept: a file that no stale copy was written over is in order. *)
(* Its lines have the sizes the program gives them; but for junk there are *)
(* no two of a kind; both sections are there, and nothing but keys lies    *)
(* between a key and its section, so that SetLine finds every key.  A new  *)
(* line is at most two bytes shorter than the old one, and what is then    *)
(* left of the old file behind the new one is junk.                        *)
Regular(row) ==
  \/ row.key = "junk"
  \/ row.key \in {"[sys]", "[report]"} /\ row.size >= 7
  \/ row.key \in Keys /\ \E digits \in 1 .. 3 : row.size = Line(row.key, 0, digits).size

InOrder(file) ==
  /\ \A i \in DOMAIN file : Regular(file[i])
  /\ \A i, j \in DOMAIN file : file[i].key = file[j].key /\ i # j => file[i].key = "junk"
  /\ \A name \in {"[sys]", "[report]"} : \E i \in DOMAIN file : file[i].key = name
  /\ \A j \in DOMAIN file :
       file[j].key \in Keys =>
         \E i \in 1 .. j - 1 : /\ file[i].key = SectionOf(file[j].key)
                              /\ \A m \in i + 1 .. j - 1 : file[m].key \in Keys

CopyInv == \A w \in Writers : fresh[w] => lineArray[w] = lines

(* What was saved, key by key: of the keys the timer thread is past, and   *)
(* of all when its last save has ended, the value of the last report,      *)
(* unless the call was skipped.                                            *)
SavesInv ==
  /\ \A k \in 1 .. 3 : last[SavedKeys[k]] <= saves
  /\ \A k \in 1 .. 2 : SavedKeys[k] \in skipped \/ last[SavedKeys[k]] >= last[SavedKeys[k + 1]]
  /\ saved => \A k \in 1 .. 3 : SavedKeys[k] \in skipped \/ last[SavedKeys[k]] = saves
  /\ recPc["timer"] \in {"read", "write"} =>
       ~saved /\ \A k \in 1 .. keyNo - 1 : SavedKeys[k] \in skipped \/ last[SavedKeys[k]] = saves
  /\ recPc["timer"] \in {"boot", "idle"} => keyNo = 1

ValuesInv == SavesInv /\ \A key \in Keys : ValueOf(lines, key) = last[key]

RecordInv == RecTypeOK /\ CopyInv /\ (~overlapped => InOrder(lines) /\ ValuesInv)
=============================================================================
