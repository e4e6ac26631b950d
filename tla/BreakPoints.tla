---------------------------- MODULE BreakPoints ----------------------------
(***************************************************************************)
(* The breakpoints of a program: file.cpp, breakpoint.cpp and the parts of *)
(* debug_bridge.cpp that use them.  A client sends, for one script at a    *)
(* time, the whole list of its breakpoints; the answer comes at once, and  *)
(* the list is applied by the Lua thread at its next interrupt.  Applying  *)
(* it marks lines inside every copy of the script that has been loaded, or *)
(* that is loaded later.  A line without code is marked at the next line   *)
(* that has some.  The program stops at marked lines, if the condition     *)
(* that is found there allows it.                                          *)
(*                                                                         *)
(* What happens inside a stop, and the races of a session that goes away   *)
(* while a break is being handled, are RunControl's.                       *)
(***************************************************************************)
EXTENDS Integers, Sequences, FiniteSets

CONSTANTS
  Paths,        \* the normalised paths of the scripts
  VMs,          \* the VMs of the host
  Lines,        \* the lines of a script
  Copies,       \* what luau_load can return: a copy of a script in a VM,
                \* and the lines of that copy that have code
  Lists,        \* the lists a client sends: a condition for each line
  EntryScript,  \* the script the host loads as entry
  StopOnEntry,  \* the argument of Debugger's constructor
  MaxTasks      \* bound on the length of interrupt_tasks_

NoLine == -1

(* A condition that cannot be evaluated counts as one that holds.          *)
Conditions == {"none", "holds", "fails"}

ListsOver(lines) == UNION {[s -> Conditions] : s \in SUBSET lines}
NoBreakPoints == [l \in {} |-> "none"]

ASSUME LinesAssumption  == Lines \subseteq Nat \ {0} /\ 1 \in Lines
ASSUME CopiesAssumption ==
  Copies \subseteq [path : Paths, vm : VMs, code : SUBSET Lines]
ASSUME ListsAssumption  == Lists \subseteq ListsOver(Lines)
ASSUME EntryAssumption  == EntryScript \in Paths /\ "" \notin Paths
ASSUME SwitchAssumption == StopOnEntry \in BOOLEAN
ASSUME TasksAssumption  == MaxTasks \in Nat

VARIABLES
  breakpoints_,  \* of each File: line |-> condition and targetLine
  loads,         \* every copy that was loaded, in the order of the loads
  released,      \* the VMs that were released
  entry_path_,
  marks,         \* the lines of a copy at which the VM calls debugbreak
  tasks,         \* interrupt_tasks_, after those process() has taken
  taken,         \* the number of tasks process() has taken and not yet run
  session_,      \* session_ # nullptr
  lua,           \* where the Lua thread is
  at,            \* the copy and the line of the break it handles
  condition_,    \* the condition hitBreakPoint has found there
  asked,         \* history: the breakpoints that marked the line of the
                 \* break when it was reached, and their conditions
  requested      \* the last list of each script that a client was answered
                 \* for; a disconnect takes them all back

files == <<breakpoints_, loads, released, entry_path_, marks>>
queue == <<tasks, taken>>
stop  == <<lua, at, condition_, asked>>
vars  == <<files, queue, stop, session_, requested>>

Nowhere == <<>>

BreakPoint == [condition : Conditions, target : Lines \cup {NoLine}]
File       == UNION {[s -> BreakPoint] : s \in SUBSET Lines}
Task       == [paths : SUBSET Paths, list : ListsOver(Lines)]

TypeOK ==
  /\ breakpoints_ \in [Paths -> File]
  /\ loads \in Seq(Copies)
  /\ released \subseteq VMs
  /\ entry_path_ \in Paths \cup {""}
  /\ marks \in [Copies -> SUBSET Lines]
  /\ tasks \in Seq(Task)
  /\ taken \in 0..Len(tasks)
  /\ session_ \in BOOLEAN
  /\ lua \in {"run", "hit", "stopped", "entryWait"}
  /\ at \in {Nowhere} \cup (Copies \X Lines)
  /\ condition_ \in Conditions /\ asked \in ListsOver(Lines)
  /\ requested \in [Paths -> ListsOver(Lines)]

Init ==
  /\ breakpoints_ = [p \in Paths |-> NoBreakPoints]
  /\ loads = <<>> /\ released = {} /\ entry_path_ = ""
  /\ marks = [c \in Copies |-> {}]
  /\ tasks = <<>> /\ taken = 0
  /\ session_ = FALSE
  /\ lua = "run" /\ at = Nowhere /\ condition_ = "none" /\ asked = NoBreakPoints
  /\ requested = [p \in Paths |-> NoBreakPoints]

-----------------------------------------------------------------------------
(* The VM's functions.                                                     *)

(* The line lua_breakpoint marks for a line: the first one at or after it  *)
(* that has code.                                                          *)
NextLine(c, line) ==
  LET after == {l \in c.code : line <= l}
  IN  IF after = {} THEN NoLine
      ELSE CHOOSE l \in after : \A k \in after : l <= k

Targets(c, lines) == {NextLine(c, l) : l \in lines} \ {NoLine}

-----------------------------------------------------------------------------
(* File and BreakPoint.                                                    *)

(* The refs_ of a File, all Files together: removeRef drops those of a VM  *)
(* that is released.                                                       *)
Refs == {c \in {loads[i] : i \in DOMAIN loads} : c.vm \notin released}

(* BreakPoint::enable on one copy after another leaves the last line that  *)
(* was found in target_line_.                                              *)
TargetLine(p, line) ==
  LET found == {i \in DOMAIN loads : /\ loads[i].path = p /\ loads[i] \in Refs
                                     /\ NextLine(loads[i], line) # NoLine}
  IN  IF found = {} THEN NoLine
      ELSE NextLine(loads[CHOOSE i \in found : \A j \in found : j <= i], line)

(* File::addBreakPoint: a line that has a breakpoint gets the new one in   *)
(* its place, which does not know its target_line_, and nothing is marked. *)
BreakPointFor(p, line, condition) ==
  [condition |-> condition,
   target    |-> IF line \in DOMAIN breakpoints_[p] THEN NoLine
                 ELSE TargetLine(p, line)]

(* Mutant: removeBreakPointsIf erases and does not disable.                *)
RemarkForgotten(c, list) ==
  marks[c] \cup Targets(c, DOMAIN list \ DOMAIN breakpoints_[c.path])

(* Mutant: a breakpoint that is new is not enabled.                        *)
RemarkUnarmed(c, list) ==
  marks[c] \ Targets(c, DOMAIN breakpoints_[c.path] \ DOMAIN list)

(* File::enableBreakPoint on one copy: for every line the list adds, then  *)
(* for every line that is not in it.  A mark is one bit of the VM's code,  *)
(* whoever asked for it.                                                   *)
Remark(c, list) ==
  (marks[c] \cup Targets(c, DOMAIN list \ DOMAIN breakpoints_[c.path]))
    \ Targets(c, DOMAIN breakpoints_[c.path] \ DOMAIN list)

(* Mutant: whatever script the list is for, every File is given it.        *)
ApplyListEverywhere(paths, list) ==
  /\ breakpoints_' =
       [p \in Paths |-> [l \in DOMAIN list |-> BreakPointFor(p, l, list[l])]]
  /\ marks' = [c \in Copies |-> IF c \in Refs THEN Remark(c, list) ELSE marks[c]]

(* File::setBreakPoints for each of paths.  With the empty list, this is   *)
(* File::clearBreakPoints.                                                 *)
ApplyList(paths, list) ==
  /\ breakpoints_' =
       [p \in Paths |->
          IF p \in paths
          THEN [l \in DOMAIN list |-> BreakPointFor(p, l, list[l])]
          ELSE breakpoints_[p]]
  /\ marks' = [c \in Copies |-> IF c \in Refs /\ c.path \in paths
                                THEN Remark(c, list) ELSE marks[c]]

-----------------------------------------------------------------------------
(* The Lua thread.                                                         *)

Quiet == taken = 0

(* File::addRef: every breakpoint of the script is enabled in the copy.    *)
AddRef(c) ==
  /\ loads' = Append(loads, c)
  /\ marks' = [marks EXCEPT ![c] = Targets(c, DOMAIN breakpoints_[c.path])]
  /\ breakpoints_' =
       [breakpoints_ EXCEPT ![c.path] =
          [l \in DOMAIN @ |->
             IF NextLine(c, l) = NoLine THEN @[l]
             ELSE [@[l] EXCEPT !.target = NextLine(c, l)]]]

(* addRef, and addBreakPoint(1) for the entry.                             *)
AddEntryRef(c) ==
  LET p == c.path
      others == DOMAIN breakpoints_[p]
      one == [condition |-> "none",
              target |-> IF 1 \in others THEN NoLine
                         ELSE IF NextLine(c, 1) # NoLine THEN NextLine(c, 1)
                         ELSE TargetLine(p, 1)]
  IN
  /\ loads' = Append(loads, c)
  /\ marks' =
       [d \in Copies |->
          IF d = c THEN Targets(c, others \cup {1})
          ELSE IF d \in Refs /\ d.path = p THEN marks[d] \cup Targets(d, {1} \ others)
          ELSE marks[d]]
  /\ breakpoints_' =
       [breakpoints_ EXCEPT ![p] =
          [l \in DOMAIN @ \cup {1} |->
             IF l = 1 THEN one
             ELSE IF NextLine(c, l) = NoLine THEN @[l]
             ELSE [@[l] EXCEPT !.target = NextLine(c, l)]]]

(* onLuaFileLoaded: runFile's for the entry, require's for the others.     *)
OnLuaFileLoaded(c) ==
  /\ lua = "run" /\ Quiet
  /\ c \notin {loads[i] : i \in DOMAIN loads} /\ c.vm \notin released
  /\ IF c.path = EntryScript /\ StopOnEntry
     THEN AddEntryRef(c) /\ entry_path_' = c.path
     ELSE AddRef(c) /\ UNCHANGED entry_path_
  /\ UNCHANGED <<released, queue, stop, session_, requested>>

(* DebugBridge::release, before lua_close.                                 *)
ReleaseVM(vm) ==
  /\ lua = "run" /\ Quiet /\ vm \notin released
  /\ released' = released \cup {vm}
  /\ UNCHANGED <<breakpoints_, loads, entry_path_, marks, queue, stop,
                 session_, requested>>

(* Mutant: process() takes the tasks, and they are gone.                   *)
InterruptDropped ==
  /\ lua \in {"run", "hit", "stopped"} /\ Quiet /\ tasks # <<>>
  /\ tasks' = <<>> /\ UNCHANGED taken
  /\ UNCHANGED <<files, stop, session_, requested>>

(* The VM calls interrupt while it runs code, the program's or the one a   *)
(* condition or an evaluated expression runs; process() takes the tasks.   *)
Interrupt ==
  /\ lua \in {"run", "hit", "stopped"} /\ Quiet /\ tasks # <<>>
  /\ taken' = Len(tasks)
  /\ UNCHANGED <<tasks, files, stop, session_, requested>>

(* Mutant: the newest task first.                                          *)
RunTaskNewest ==
  /\ ~Quiet
  /\ ApplyList(tasks[taken].paths, tasks[taken].list)
  /\ tasks' = [i \in 1..(Len(tasks) - 1) |-> IF i < taken THEN tasks[i] ELSE tasks[i + 1]]
  /\ taken' = taken - 1
  /\ UNCHANGED <<loads, released, entry_path_, stop, session_, requested>>

(* Mutant: a task that has run is still counted.                           *)
RunTaskUncounted ==
  /\ ~Quiet
  /\ ApplyList(Head(tasks).paths, Head(tasks).list)
  /\ tasks' = Tail(tasks) /\ UNCHANGED taken
  /\ UNCHANGED <<loads, released, entry_path_, stop, session_, requested>>

RunTask ==
  /\ ~Quiet
  /\ ApplyList(Head(tasks).paths, Head(tasks).list)
  /\ tasks' = Tail(tasks) /\ taken' = taken - 1
  /\ UNCHANGED <<loads, released, entry_path_, stop, session_, requested>>

IsBreakOnEntry(c, line) ==
  /\ entry_path_ = c.path
  /\ 1 \in DOMAIN breakpoints_[entry_path_]
  /\ breakpoints_[entry_path_][1].target = line

(* findBreakPoint looks the line of the break up among the requested ones; *)
(* if it is not there, the program stops.                                  *)
ConditionAt(c, line) ==
  IF line \in DOMAIN breakpoints_[c.path]
  THEN breakpoints_[c.path][line].condition ELSE "none"

(* The breakpoints of the script that mark a line of a copy.               *)
AskedAt(c, line) ==
  LET bps == breakpoints_[c.path]
  IN  [l \in {l \in DOMAIN bps : NextLine(c, l) = line} |-> bps[l].condition]

(* debugbreak and onDebugBreak.  Without a session a break is ignored, but *)
(* for the one on entry, which waits for a client.                         *)
DebugBreak(c, line) ==
  /\ lua = "run" /\ Quiet
  /\ c \in Refs /\ line \in marks[c]
  /\ session_ \/ IsBreakOnEntry(c, line)
  /\ at' = <<c, line>> /\ asked' = AskedAt(c, line)
  /\ IF IsBreakOnEntry(c, line)
     THEN lua' = (IF session_ THEN "stopped" ELSE "entryWait") /\ UNCHANGED condition_
     ELSE /\ condition_' = ConditionAt(c, line)
          /\ lua' = IF ConditionAt(c, line) = "none" THEN "stopped" ELSE "hit"
  /\ UNCHANGED <<files, queue, session_, requested>>

EntryWake ==
  /\ lua = "entryWait" /\ session_
  /\ lua' = "stopped"
  /\ UNCHANGED <<at, condition_, asked, files, queue, session_, requested>>

GoOn == lua' = "run" /\ at' = Nowhere /\ condition_' = "none" /\ asked' = NoBreakPoints

(* Mutant: whatever the condition's value is, the break is a hit.          *)
HitAnyway ==
  /\ lua = "hit" /\ Quiet
  /\ lua' = "stopped"
  /\ UNCHANGED <<at, condition_, asked, files, queue, session_, requested>>

(* BreakPoint::hit has evaluated the condition, which it read before the   *)
(* code it runs could change the breakpoints.                              *)
Hit ==
  /\ lua = "hit" /\ Quiet
  /\ IF condition_ = "fails" THEN GoOn
     ELSE lua' = "stopped" /\ UNCHANGED <<at, condition_, asked>>
  /\ UNCHANGED <<files, queue, session_, requested>>

-----------------------------------------------------------------------------
(* The dispatch thread.                                                    *)

Post(paths, list) ==
  /\ Len(tasks) < MaxTasks
  /\ tasks' = Append(tasks, [paths |-> paths, list |-> list])
  /\ requested' = [p \in Paths |-> IF p \in paths THEN list ELSE requested[p]]
  /\ UNCHANGED taken

(* DebugBridge::setBreakPoints, with the answer to the client.             *)
SetBreakPoints(p, list) ==
  /\ session_
  /\ Post({p}, list)
  /\ UNCHANGED <<files, stop, session_>>

(* The client lets a stop go.                                              *)
Continue ==
  /\ session_ /\ lua = "stopped" /\ Quiet
  /\ GoOn
  /\ UNCHANGED <<files, queue, session_, requested>>

(* A client whose connection breaks sends no disconnect: what it asked for *)
(* stays in force for the client that takes its place, which is no step.   *)
OnConnect ==
  /\ ~session_
  /\ session_' = TRUE
  /\ UNCHANGED <<files, queue, stop, requested>>

(* onDisconnect: the task it posts is clearBreakPoints.  (That it comes    *)
(* while a break is being handled is RunControl's.)                        *)
OnDisconnect ==
  /\ session_ /\ lua # "hit" /\ Quiet
  /\ Post(Paths, NoBreakPoints)
  /\ session_' = FALSE
  /\ IF lua = "stopped" THEN GoOn ELSE UNCHANGED stop
  /\ UNCHANGED files

-----------------------------------------------------------------------------
LuaStep ==
  \/ \E c \in Copies : OnLuaFileLoaded(c) \/ \E line \in Lines : DebugBreak(c, line)
  \/ \E vm \in VMs : ReleaseVM(vm)
  \/ Interrupt \/ RunTask \/ EntryWake \/ Hit

ClientStep ==
  \/ \E p \in Paths, list \in Lists : SetBreakPoints(p, list)
  \/ Continue \/ OnConnect \/ OnDisconnect

Next == LuaStep \/ ClientStep

Spec == Init /\ [][Next]_vars

(* A program that runs is interrupted again and again, at its calls and    *)
(* back-edges, the tasks process() has taken are run, and a condition      *)
(* comes to its end.  The client need not do anything.                     *)
FairSpec == Spec /\ SF_vars(Interrupt) /\ WF_vars(RunTask) /\ WF_vars(Hit)

-----------------------------------------------------------------------------
(* Safety.                                                                 *)

(* No copy of a script is marked at a line that no breakpoint of the       *)
(* script's File asks for: a breakpoint that was removed stops the program *)
(* in no copy, however often the script was loaded.                        *)
NoStrayMark ==
  \A c \in Refs : marks[c] \subseteq Targets(c, DOMAIN breakpoints_[c.path])

(* And every line that one asks for is marked, in the copies that were     *)
(* loaded before the breakpoint and in those that came after.              *)
Marked(c) == Targets(c, DOMAIN breakpoints_[c.path]) \subseteq marks[c]

EveryMark == \A c \in Refs : Marked(c)

(* A copy all of whose lines have code, up to the last one that has.  In   *)
(* others two breakpoints may share a mark (see the run shared_line).      *)
EveryLineHasCode(c) == \A l \in Lines : NextLine(c, l) \in {l, NoLine}

(* EveryMark, of the copies in which no breakpoint has to move.            *)
PlainMarked == \A c \in Refs : EveryLineHasCode(c) => Marked(c)

(* The breakpoints of p, as the client has set them: line 1 of the entry   *)
(* is also the debugger's own.                                             *)
Own(p) == IF p = EntryScript /\ StopOnEntry THEN {1} ELSE {}

InForce(p) ==
  \A l \in Lines \ Own(p) :
    /\ l \in DOMAIN breakpoints_[p] <=> l \in DOMAIN requested[p]
    /\ l \in DOMAIN requested[p] =>
         breakpoints_[p][l].condition = requested[p][l]

(* What the client was told is in force is in force, or is the last thing  *)
(* still to be done for that script: lists are applied in the order of     *)
(* their requests, a disconnect takes every one back, and a later client's *)
(* requests come after that.                                               *)
LastListWins ==
  \A p \in Paths :
    LET mine == {i \in DOMAIN tasks : p \in tasks[i].paths}
    IN  /\ mine = {} => InForce(p)
        /\ \A i \in mine : (\A j \in mine : j <= i) => tasks[i].list = requested[p]

(* A breakpoint that asks for a stop at a line: its condition is not false,*)
(* or is not looked at, because the breakpoint has moved there from a line *)
(* without code (findBreakPoint knows the lines that were requested).      *)
Asks(l, line) == asked'[l] # "fails" \/ l # line

(* The condition of a breakpoint decides whether the program stops, as it  *)
(* was when the line was reached, whatever lists are applied while it is   *)
(* evaluated: a stop, but for the one on entry, is one that a breakpoint   *)
(* marking the line asks for; and a break lets the program run on only for *)
(* a condition, of the breakpoint at that very line, that is false         *)
(* (onDebugBreak, hitBreakPoint, findBreakPoint).                          *)
ConditionRespected ==
  [][/\ lua \in {"run", "hit"} /\ lua' = "stopped"
        => \/ lua = "run" /\ IsBreakOnEntry(at'[1], at'[2])
           \/ \E l \in DOMAIN asked' : Asks(l, at'[2])
     /\ lua = "hit" /\ lua' = "run"
        => at[2] \in DOMAIN asked /\ asked[at[2]] = "fails"]_vars

-----------------------------------------------------------------------------
(* Liveness, under FairSpec.                                               *)

(* A list the client has sent comes into force, unless another one takes   *)
(* its place or the program sits in a stop.                                *)
TakesEffect ==
  \A p \in Paths, list \in Lists :
    requested[p] = list ~> \/ InForce(p) \/ requested[p] # list
                           \/ lua \in {"stopped", "entryWait"}

=============================================================================
