------------------------ MODULE BreakPoints_proofs -------------------------
(***************************************************************************)
(* Proofs about BreakPoints, for any scripts, copies, lists and bounds.    *)
(***************************************************************************)
EXTENDS BreakPoints, TLAPS, WellFoundedInduction

-----------------------------------------------------------------------------
(* The operators.                                                          *)

(* A set of natural numbers that is not empty has a least element.         *)
LEMMA Least ==
  ASSUME NEW S, S \subseteq Nat, S # {}
  PROVE  \E l \in S : \A k \in S : l <= k
<1>1. IsWellFoundedOn(OpToRel(<, Nat), Nat)
  BY NatLessThanWellFounded
<1>2. PICK x \in S : \A y \in S : ~ (<<y, x>> \in OpToRel(<, Nat))
  BY <1>1, WFMin
<1>3. \A y \in S : ~ (y < x)
  BY <1>2 DEF OpToRel
<1>. QED
  BY <1>3

(* And a set of natural numbers with a bound has a largest one.            *)
LEMMA Largest ==
  ASSUME NEW n \in Nat, NEW S, S \subseteq 1..n, S # {}
  PROVE  \E l \in S : \A k \in S : k <= l
<1> DEFINE T == {n - k : k \in S}
<1>1. \A k \in S : n - k \in Nat
  OBVIOUS
<1>2. T \subseteq Nat /\ T # {}
  BY <1>1
<1>3. PICK m \in T : \A k \in T : m <= k
  BY <1>2, Least
<1>4. PICK l \in S : m = n - l
  BY <1>3
<1>5. \A k \in S : m <= n - k
  BY <1>3
<1>. QED
  BY <1>4, <1>5

(* NextLine names a line of the copy that has code, or none.               *)
LEMMA NextLineType ==
  ASSUME NEW c \in Copies, NEW line \in Lines
  PROVE  NextLine(c, line) \in c.code \cup {NoLine}
<1> DEFINE after == {l \in c.code : line <= l}
<1>1. after \subseteq Nat
  BY CopiesAssumption, LinesAssumption
<1>2. CASE after = {}
  BY <1>2 DEF NextLine
<1>3. CASE after # {}
  <2>1. \E l \in after : \A k \in after : l <= k
    BY <1>1, <1>3, Least
  <2>. QED
    BY <1>3, <2>1 DEF NextLine
<1>. QED
  BY <1>2, <1>3

LEMMA TargetsType ==
  ASSUME NEW c \in Copies, NEW S, S \subseteq Lines
  PROVE  Targets(c, S) \subseteq Lines
<1>1. \A l \in S : NextLine(c, l) \in Lines \cup {NoLine}
  BY NextLineType, CopiesAssumption
<1>. QED
  BY <1>1 DEF Targets

(* A line that has code is its own target.                                 *)
LEMMA CodeLine ==
  ASSUME NEW c \in Copies, NEW line \in c.code
  PROVE  NextLine(c, line) = line
<1> DEFINE after == {l \in c.code : line <= l}
<1>1. c.code \subseteq Nat
  BY CopiesAssumption, LinesAssumption
<1>2. line \in after /\ \A k \in after : line <= k
  BY <1>1
<1>3. \A l \in after : (\A k \in after : l <= k) => l = line
  BY <1>1, <1>2
<1>4. NextLine(c, line) = CHOOSE l \in after : \A k \in after : l <= k
  BY <1>2 DEF NextLine
<1>. QED
  BY <1>2, <1>3, <1>4

LEMMA TargetLineType ==
  ASSUME TypeOK, NEW p \in Paths, NEW line \in Lines
  PROVE  TargetLine(p, line) \in Lines \cup {NoLine}
<1> DEFINE found == {i \in DOMAIN loads : /\ loads[i].path = p /\ loads[i] \in Refs
                                          /\ NextLine(loads[i], line) # NoLine}
<1>1. loads \in Seq(Copies)
  BY DEF TypeOK
<1>2. found \subseteq 1..Len(loads) /\ Len(loads) \in Nat
  BY <1>1
<1>3. CASE found = {}
  BY <1>3 DEF TargetLine
<1>4. CASE found # {}
  <2> DEFINE last == CHOOSE i \in found : \A j \in found : j <= i
  <2>1. last \in found
    BY <1>2, <1>4, Largest
  <2>2. loads[last] \in Copies
    BY <1>1, <2>1
  <2>3. NextLine(loads[last], line) \in Lines \cup {NoLine}
    BY <2>2, NextLineType, CopiesAssumption
  <2>4. TargetLine(p, line) = NextLine(loads[last], line)
    BY <1>4 DEF TargetLine
  <2>. QED
    BY <2>3, <2>4
<1>. QED
  BY <1>3, <1>4

-----------------------------------------------------------------------------
(* Type correctness.                                                       *)

(* A File's map is a function on the set of its lines.                     *)
LEMMA FileDomain ==
  ASSUME NEW f \in File
  PROVE  DOMAIN f \subseteq Lines /\ f \in [DOMAIN f -> BreakPoint]
BY DEF File

LEMMA FileIntro ==
  ASSUME NEW s \in SUBSET Lines, NEW f \in [s -> BreakPoint]
  PROVE  f \in File
BY DEF File

LEMMA ListDomain ==
  ASSUME NEW f \in ListsOver(Lines)
  PROVE  DOMAIN f \subseteq Lines /\ f \in [DOMAIN f -> Conditions]
BY DEF ListsOver

LEMMA NoBreakPointsType == NoBreakPoints \in ListsOver(Lines)
<1>1. NoBreakPoints \in [{} -> Conditions]
  BY DEF NoBreakPoints
<1>. QED
  BY <1>1 DEF ListsOver

THEOREM TypeInit == Init => TypeOK
<1> SUFFICES ASSUME Init PROVE TypeOK
  OBVIOUS
<1>1. NoBreakPoints \in File
  <2>1. NoBreakPoints \in [{} -> BreakPoint]
    BY DEF NoBreakPoints
  <2>. QED
    BY <2>1, FileIntro
<1>2. breakpoints_ \in [Paths -> File]
  BY <1>1 DEF Init
<1>3. requested \in [Paths -> ListsOver(Lines)]
  BY NoBreakPointsType DEF Init
<1>4. tasks = <<>> /\ taken = 0 /\ loads = <<>> /\ marks \in [Copies -> SUBSET Lines]
  BY DEF Init
<1>5. /\ tasks \in Seq(Task)
      /\ taken \in 0..Len(tasks) /\ loads \in Seq(Copies)
  BY <1>4
<1>6. /\ released \subseteq VMs /\ entry_path_ \in Paths \cup {""}
      /\ session_ \in BOOLEAN /\ lua \in {"run", "hit", "stopped", "entryWait"}
      /\ at \in {Nowhere} \cup (Copies \X Lines) /\ condition_ \in Conditions
      /\ asked \in ListsOver(Lines)
  BY NoBreakPointsType DEF Init, Conditions
<1>. QED
  BY <1>2, <1>3, <1>4, <1>5, <1>6 DEF TypeOK

(* What a list does to the maps and to the marks.                          *)
LEMMA ApplyType ==
  ASSUME TypeOK, NEW paths, NEW list \in ListsOver(Lines), ApplyList(paths, list)
  PROVE  /\ breakpoints_' \in [Paths -> File]
         /\ marks' \in [Copies -> SUBSET Lines]
<1>1. breakpoints_ \in [Paths -> File] /\ marks \in [Copies -> SUBSET Lines]
  BY DEF TypeOK
<1>2. ASSUME NEW p \in Paths
      PROVE  [l \in DOMAIN list |-> BreakPointFor(p, l, list[l])] \in File
  <2>1. ASSUME NEW l \in DOMAIN list
        PROVE  BreakPointFor(p, l, list[l]) \in BreakPoint
    <3>1. l \in Lines /\ list[l] \in Conditions
      BY <2>1, ListDomain
    <3>2. TargetLine(p, l) \in Lines \cup {NoLine}
      BY <3>1, TargetLineType
    <3>. QED
      BY <3>1, <3>2 DEF BreakPointFor, BreakPoint
  <2>2. [l \in DOMAIN list |-> BreakPointFor(p, l, list[l])] \in [DOMAIN list -> BreakPoint]
    BY <2>1
  <2>. QED
    BY <2>2, ListDomain, FileIntro
<1>3. ASSUME NEW c \in Copies
      PROVE  Remark(c, list) \subseteq Lines
  <2>1. c.path \in Paths
    BY CopiesAssumption
  <2>2. DOMAIN breakpoints_[c.path] \subseteq Lines /\ DOMAIN list \subseteq Lines
    BY <1>1, <2>1, FileDomain, ListDomain
  <2>3. Targets(c, DOMAIN list \ DOMAIN breakpoints_[c.path]) \subseteq Lines
    BY <2>2, TargetsType
  <2>. QED
    BY <1>1, <2>3 DEF Remark
<1>4. breakpoints_' \in [Paths -> File]
  BY <1>1, <1>2 DEF ApplyList
<1>5. marks' \in [Copies -> SUBSET Lines]
  BY <1>1, <1>3 DEF ApplyList
<1>. QED
  BY <1>4, <1>5

(* What a new copy does to them.                                           *)
LEMMA AddType ==
  ASSUME TypeOK, NEW c \in Copies, AddRef(c) \/ AddEntryRef(c)
  PROVE  /\ breakpoints_' \in [Paths -> File]
         /\ marks' \in [Copies -> SUBSET Lines]
         /\ loads' \in Seq(Copies)
<1> DEFINE p == c.path
           others == DOMAIN breakpoints_[p]
<1>1. /\ breakpoints_ \in [Paths -> File] /\ marks \in [Copies -> SUBSET Lines]
      /\ loads \in Seq(Copies)
  BY DEF TypeOK
<1>2. p \in Paths /\ breakpoints_[p] \in File
  BY <1>1, CopiesAssumption
<1>3. others \subseteq Lines /\ breakpoints_[p] \in [others -> BreakPoint]
  BY <1>2, FileDomain
<1>4. loads' \in Seq(Copies)
  <2>1. Append(loads, c) \in Seq(Copies)
    BY <1>1
  <2>. QED
    BY <2>1 DEF AddRef, AddEntryRef
<1> DEFINE new(l) == IF NextLine(c, l) = NoLine THEN breakpoints_[p][l]
                     ELSE [breakpoints_[p][l] EXCEPT !.target = NextLine(c, l)]
<1>5. ASSUME NEW l \in others PROVE new(l) \in BreakPoint
  <2>1. NextLine(c, l) \in Lines \cup {NoLine} /\ breakpoints_[p][l] \in BreakPoint
    BY <1>3, NextLineType, CopiesAssumption
  <2>. QED
    BY <2>1 DEF BreakPoint
<1>6. CASE AddRef(c)
  <2>1. Targets(c, others) \subseteq Lines
    BY <1>3, TargetsType
  <2>2. [l \in others |-> new(l)] \in File
    BY <1>3, <1>5, FileIntro
  <2>3. breakpoints_' = [breakpoints_ EXCEPT ![p] = [l \in others |-> new(l)]]
    BY <1>6 DEF AddRef
  <2>4. breakpoints_' \in [Paths -> File]
    BY <1>1, <1>2, <2>2, <2>3
  <2>5. marks' \in [Copies -> SUBSET Lines]
    BY <1>1, <1>6, <2>1 DEF AddRef
  <2>. QED
    BY <1>4, <2>4, <2>5
<1>7. CASE AddEntryRef(c)
  <2> DEFINE one == [condition |-> "none",
                     target |-> IF 1 \in others THEN NoLine
                                ELSE IF NextLine(c, 1) # NoLine THEN NextLine(c, 1)
                                ELSE TargetLine(p, 1)]
             file == [l \in others \cup {1} |-> IF l = 1 THEN one ELSE new(l)]
  <2>1. 1 \in Lines
    BY LinesAssumption
  <2>2. one \in BreakPoint
    BY <1>2, <2>1, NextLineType, TargetLineType, CopiesAssumption
       DEF BreakPoint, Conditions
  <2>3. file \in File
    <3> HIDE DEF one, new
    <3>1. file \in [others \cup {1} -> BreakPoint]
      BY <1>5, <2>2
    <3>. QED
      BY <1>3, <2>1, <3>1, FileIntro
  <2>4. breakpoints_' = [breakpoints_ EXCEPT ![p] = file]
    BY <1>7 DEF AddEntryRef
  <2>5. breakpoints_' \in [Paths -> File]
    <3> HIDE DEF file
    <3>. QED
      BY <1>1, <1>2, <2>3, <2>4
  <2>6. Targets(c, others \cup {1}) \subseteq Lines
    BY <1>3, <2>1, TargetsType
  <2>7. \A d \in Copies : Targets(d, {1} \ others) \subseteq Lines
    BY <2>1, TargetsType
  <2>8. marks' \in [Copies -> SUBSET Lines]
    BY <1>1, <1>7, <2>6, <2>7 DEF AddEntryRef
  <2>. QED
    BY <1>4, <2>5, <2>8
<1>. QED
  BY <1>6, <1>7

(* What the breakpoints that mark a line are.                              *)
LEMMA AskedIs ==
  ASSUME TypeOK, NEW c \in Copies, NEW line \in Lines
  PROVE  /\ AskedAt(c, line) \in ListsOver(Lines)
         /\ DOMAIN AskedAt(c, line) = {l \in DOMAIN breakpoints_[c.path] : NextLine(c, l) = line}
         /\ \A l \in DOMAIN AskedAt(c, line) :
              AskedAt(c, line)[l] = breakpoints_[c.path][l].condition
<1> DEFINE bps == breakpoints_[c.path]
           D   == {l \in DOMAIN bps : NextLine(c, l) = line}
<1>1. bps \in File
  BY CopiesAssumption DEF TypeOK
<1>2. DOMAIN bps \subseteq Lines /\ \A l \in DOMAIN bps : bps[l].condition \in Conditions
  BY <1>1, FileDomain DEF BreakPoint
<1>3. AskedAt(c, line) = [l \in D |-> bps[l].condition]
  BY DEF AskedAt
<1>4. AskedAt(c, line) \in [D -> Conditions] /\ D \in SUBSET Lines
  BY <1>2, <1>3
<1>. QED
  BY <1>3, <1>4 DEF ListsOver

LEMMA TypeStep == TypeOK /\ [Next]_vars => TypeOK'
<1> SUFFICES ASSUME TypeOK, [Next]_vars PROVE TypeOK'
  OBVIOUS
<1> USE DEF files, queue, stop
<1>1. ASSUME NEW c \in Copies, OnLuaFileLoaded(c) PROVE TypeOK'
  <2>1. AddRef(c) \/ AddEntryRef(c)
    BY <1>1 DEF OnLuaFileLoaded
  <2>2. entry_path_' \in Paths \cup {""}
    BY <1>1, CopiesAssumption DEF OnLuaFileLoaded, TypeOK
  <2>. QED
    BY <1>1, <2>1, <2>2, AddType DEF OnLuaFileLoaded, TypeOK
<1>2. ASSUME NEW c \in Copies, NEW line \in Lines, DebugBreak(c, line) PROVE TypeOK'
  <2>1. c.path \in Paths
    BY CopiesAssumption
  <2>2. ConditionAt(c, line) \in Conditions
    <3>1. breakpoints_[c.path] \in File
      BY <2>1 DEF TypeOK
    <3>. QED
      BY <3>1, FileDomain DEF ConditionAt, Conditions, BreakPoint
  <2>3. at' \in Copies \X Lines
    BY <1>2 DEF DebugBreak
  <2>4. condition_' \in Conditions /\ lua' \in {"stopped", "entryWait", "hit"}
    BY <1>2, <2>2 DEF DebugBreak, TypeOK
  <2>5. asked' \in ListsOver(Lines)
    BY <1>2, AskedIs DEF DebugBreak
  <2>. QED
    BY <1>2, <2>3, <2>4, <2>5 DEF DebugBreak, TypeOK
<1>3. ASSUME NEW vm \in VMs, ReleaseVM(vm) PROVE TypeOK'
  BY <1>3 DEF ReleaseVM, TypeOK
<1>4. CASE Interrupt
  <2>1. tasks \in Seq(Task)
    BY DEF TypeOK
  <2>2. Len(tasks) \in Nat /\ tasks' = tasks /\ taken' = Len(tasks)
    BY <1>4, <2>1 DEF Interrupt
  <2>3. taken' \in 0..Len(tasks')
    BY <2>2
  <2>4. UNCHANGED <<files, tasks, stop, session_, requested>>
    BY <1>4 DEF Interrupt
  <2>. QED
    BY <2>3, <2>4 DEF TypeOK
<1>5. CASE RunTask
  <2>0. tasks \in Seq(Task) /\ taken \in 0..Len(tasks) /\ taken # 0
    BY <1>5 DEF RunTask, Quiet, TypeOK
  <2>1. tasks \in Seq(Task) /\ tasks # <<>> /\ taken \in 1..Len(tasks)
    BY <2>0
  <2>2. Head(tasks) \in Task /\ Tail(tasks) \in Seq(Task)
        /\ Len(Tail(tasks)) = Len(tasks) - 1
    BY <2>1
  <2>3. Head(tasks).list \in ListsOver(Lines)
    BY <2>2 DEF Task
  <2>4. ApplyList(Head(tasks).paths, Head(tasks).list)
    BY <1>5 DEF RunTask
  <2>5. /\ breakpoints_' \in [Paths -> File]
        /\ marks' \in [Copies -> SUBSET Lines]
    BY <2>3, <2>4, ApplyType
  <2>6. tasks' \in Seq(Task) /\ taken' \in 0..Len(tasks')
    BY <1>5, <2>1, <2>2 DEF RunTask
  <2>. QED
    BY <1>5, <2>5, <2>6 DEF RunTask, TypeOK
<1>6. CASE EntryWake
  BY <1>6 DEF EntryWake, TypeOK
<1>7. CASE Hit
  BY <1>7, NoBreakPointsType DEF Hit, GoOn, TypeOK, Conditions
<1>8. ASSUME NEW paths \in SUBSET Paths, NEW list \in ListsOver(Lines), Post(paths, list)
      PROVE  /\ tasks' \in Seq(Task) /\ taken' \in 0..Len(tasks')
             /\ requested' \in [Paths -> ListsOver(Lines)]
  <2>1. [paths |-> paths, list |-> list] \in Task
    BY DEF Task
  <2>2. tasks \in Seq(Task) /\ taken \in 0..Len(tasks)
        /\ requested \in [Paths -> ListsOver(Lines)]
    BY DEF TypeOK
  <2>3. tasks' \in Seq(Task) /\ Len(tasks') = Len(tasks) + 1
    BY <1>8, <2>1, <2>2 DEF Post
  <2>4. requested' \in [Paths -> ListsOver(Lines)]
    BY <1>8, <2>2 DEF Post
  <2>. QED
    BY <1>8, <2>2, <2>3, <2>4 DEF Post
<1>9. ASSUME NEW p \in Paths, NEW list \in Lists, SetBreakPoints(p, list) PROVE TypeOK'
  <2>1. list \in ListsOver(Lines) /\ {p} \in SUBSET Paths
    BY ListsAssumption
  <2>. QED
    BY <1>8, <1>9, <2>1 DEF SetBreakPoints, TypeOK
<1>10. CASE Continue
  BY <1>10, NoBreakPointsType DEF Continue, GoOn, TypeOK, Conditions
<1>11. CASE OnConnect
  BY <1>11 DEF OnConnect, TypeOK
<1>13. CASE OnDisconnect
  <2>1. /\ tasks' \in Seq(Task) /\ taken' \in 0..Len(tasks')
        /\ requested' \in [Paths -> ListsOver(Lines)]
    BY <1>8, <1>13, NoBreakPointsType DEF OnDisconnect
  <2>2. at' \in {Nowhere} \cup (Copies \X Lines) /\ condition_' \in Conditions
        /\ lua' \in {"run", "hit", "stopped", "entryWait"} /\ asked' \in ListsOver(Lines)
    BY <1>13, NoBreakPointsType DEF OnDisconnect, GoOn, TypeOK, Conditions
  <2>. QED
    BY <1>13, <2>1, <2>2 DEF OnDisconnect, TypeOK
<1>14. CASE UNCHANGED vars
  BY <1>14 DEF vars, TypeOK
<1>. QED
  BY <1>1, <1>2, <1>3, <1>4, <1>5, <1>6, <1>7, <1>9, <1>10, <1>11, <1>13,
     <1>14 DEF Next, LuaStep, ClientStep

(* Every variable keeps its type, whatever the scripts and the lists are.  *)
THEOREM TypeCorrect == Spec => []TypeOK
BY TypeInit, TypeStep, PTL DEF Spec

-----------------------------------------------------------------------------
(* The marks.                                                              *)

(* The copies a step can find marked, and the lines their Files have.      *)
LEMMA RefsStep ==
  ASSUME TypeOK, NEW c \in Copies, loads' = Append(loads, c), UNCHANGED released
  PROVE  Refs' \subseteq Refs \cup {c}
<1>1. loads \in Seq(Copies)
  BY DEF TypeOK
<1>2. \A i \in DOMAIN loads' : loads'[i] = c \/ (i \in DOMAIN loads /\ loads'[i] = loads[i])
  BY <1>1
<1>. QED
  BY <1>2 DEF Refs

LEMMA RefsType == TypeOK => Refs \subseteq Copies
<1> SUFFICES ASSUME TypeOK PROVE Refs \subseteq Copies
  OBVIOUS
<1>1. loads \in Seq(Copies)
  BY DEF TypeOK
<1>. QED
  BY <1>1 DEF Refs

LEMMA RefsInit == Init => Refs = {}
<1> SUFFICES ASSUME Init PROVE Refs = {}
  OBVIOUS
<1>0. loads = <<>>
  BY DEF Init
<1>1. loads \in Seq(Copies) /\ Len(loads) = 0
  BY <1>0
<1>2. DOMAIN loads = {}
  BY <1>1
<1>. QED
  BY <1>2 DEF Refs

(* The lines a new copy leaves in its File.                                *)
LEMMA AddDomain ==
  ASSUME TypeOK, NEW c \in Copies, AddRef(c) \/ AddEntryRef(c), NEW p \in Paths
  PROVE  /\ AddRef(c) => DOMAIN breakpoints_'[p] = DOMAIN breakpoints_[p]
         /\ AddEntryRef(c) =>
              DOMAIN breakpoints_'[p] = DOMAIN breakpoints_[p]
                                        \cup (IF p = c.path THEN {1} ELSE {})
<1>1. breakpoints_ \in [Paths -> File] /\ c.path \in Paths
  BY CopiesAssumption DEF TypeOK
<1>2. CASE p # c.path
  BY <1>1, <1>2 DEF AddRef, AddEntryRef
<1>3. CASE p = c.path
  BY <1>1, <1>3 DEF AddRef, AddEntryRef
<1>. QED
  BY <1>2, <1>3

(* What a list leaves in its Files.                                        *)
LEMMA ApplyDomain ==
  ASSUME TypeOK, NEW paths, NEW list, ApplyList(paths, list), NEW p \in Paths
  PROVE  /\ p \notin paths => breakpoints_'[p] = breakpoints_[p]
         /\ p \in paths => /\ DOMAIN breakpoints_'[p] = DOMAIN list
                           /\ \A l \in DOMAIN list : breakpoints_'[p][l].condition = list[l]
BY DEF ApplyList, BreakPointFor, TypeOK

(* What the steps that leave the Files and the marks alone have in common. *)
OtherStep ==
  /\ UNCHANGED <<breakpoints_, loads, entry_path_, marks>>
  /\ released \subseteq released'

LEMMA Steps ==
  ASSUME [Next]_vars
  PROVE  \/ \E c \in Copies : OnLuaFileLoaded(c)
         \/ RunTask
         \/ OtherStep
BY DEF Next, LuaStep, ClientStep, OtherStep, vars, files, queue, stop, DebugBreak,
       ReleaseVM, Interrupt, EntryWake, Hit, SetBreakPoints, Continue, OnConnect,
       OnDisconnect

LEMMA OtherRefs == OtherStep => Refs' \subseteq Refs
BY DEF OtherStep, Refs

LEMMA StrayStep == TypeOK /\ NoStrayMark /\ [Next]_vars => NoStrayMark'
<1> SUFFICES ASSUME TypeOK, NoStrayMark, [Next]_vars, NEW d \in Refs'
             PROVE  marks'[d] \subseteq Targets(d, DOMAIN breakpoints_'[d.path])
  BY DEF NoStrayMark
<1>1. ASSUME NEW c \in Copies, OnLuaFileLoaded(c)
      PROVE  marks'[d] \subseteq Targets(d, DOMAIN breakpoints_'[d.path])
  <2>1. AddRef(c) \/ AddEntryRef(c)
    BY <1>1 DEF OnLuaFileLoaded
  <2>2. d \in Refs \cup {c}
    BY <1>1, <2>1, RefsStep DEF OnLuaFileLoaded, AddRef, AddEntryRef
  <2>3. d \in Copies /\ d.path \in Paths
    BY <2>2, RefsType, CopiesAssumption
  <2>4. d \in Refs => marks[d] \subseteq Targets(d, DOMAIN breakpoints_[d.path])
    BY DEF NoStrayMark
  <2>5. marks \in [Copies -> SUBSET Lines]
    BY DEF TypeOK
  <2>6. CASE AddRef(c)
    <3>1. DOMAIN breakpoints_'[d.path] = DOMAIN breakpoints_[d.path]
      BY <2>3, <2>6, AddDomain
    <3>. QED
      BY <2>2, <2>3, <2>4, <2>5, <2>6, <3>1 DEF AddRef
  <2>7. CASE AddEntryRef(c)
    <3>1. DOMAIN breakpoints_'[d.path] = DOMAIN breakpoints_[d.path]
                                         \cup (IF d.path = c.path THEN {1} ELSE {})
      BY <2>3, <2>7, AddDomain
    <3>2. marks'[d] = IF d = c THEN Targets(d, DOMAIN breakpoints_[c.path] \cup {1})
                      ELSE IF d \in Refs /\ d.path = c.path
                      THEN marks[d] \cup Targets(d, {1} \ DOMAIN breakpoints_[c.path])
                      ELSE marks[d]
      BY <2>3, <2>7 DEF AddEntryRef
    <3>3. CASE d = c
      BY <3>1, <3>2, <3>3
    <3>4. CASE d # c /\ d.path = c.path
      BY <2>2, <2>4, <3>1, <3>2, <3>4 DEF Targets
    <3>5. CASE d # c /\ d.path # c.path
      BY <2>2, <2>4, <3>1, <3>2, <3>5
    <3>. QED
      BY <3>3, <3>4, <3>5
  <2>. QED
    BY <2>1, <2>6, <2>7
<1>2. CASE RunTask
  <2> DEFINE paths == Head(tasks).paths
             list  == Head(tasks).list
             old   == DOMAIN breakpoints_[d.path]
  <2>1. ApplyList(paths, list) /\ Refs' = Refs
    BY <1>2 DEF RunTask, Refs
  <2>2. d \in Refs /\ d \in Copies /\ d.path \in Paths
    BY <2>1, RefsType, CopiesAssumption
  <2>3. marks[d] \subseteq Targets(d, old)
    BY <2>2 DEF NoStrayMark
  <2>4. CASE d.path \in paths
    <3>1. DOMAIN breakpoints_'[d.path] = DOMAIN list
      BY <2>1, <2>2, <2>4, ApplyDomain
    <3>2. marks'[d] = (marks[d] \cup Targets(d, DOMAIN list \ old))
                        \ Targets(d, old \ DOMAIN list)
      BY <2>1, <2>2, <2>4 DEF ApplyList, Remark
    <3>. QED
      BY <2>3, <3>1, <3>2 DEF Targets
  <2>5. CASE d.path \notin paths
    <3>1. breakpoints_'[d.path] = breakpoints_[d.path]
      BY <2>1, <2>2, <2>5, ApplyDomain
    <3>2. marks'[d] = marks[d]
      BY <2>1, <2>2, <2>5 DEF ApplyList
    <3>. QED
      BY <2>3, <3>1, <3>2
  <2>. QED
    BY <2>4, <2>5
<1>3. CASE OtherStep
  BY <1>3, OtherRefs DEF OtherStep, NoStrayMark
<1>. QED
  BY <1>1, <1>2, <1>3, Steps

(* A breakpoint that was removed is marked in no copy.                     *)
THEOREM NoStrays == Spec => []NoStrayMark
<1>1. Init => NoStrayMark
  BY RefsInit DEF NoStrayMark
<1>. QED
  BY <1>1, StrayStep, TypeCorrect, PTL DEF Spec

(* In a copy all of whose lines have code the target of a line is the line *)
(* itself, so that what a list removes is no target of what it keeps.      *)
LEMMA PlainMarkedStep ==
  TypeOK /\ PlainMarked /\ [Next]_vars => PlainMarked'
<1> SUFFICES ASSUME TypeOK, PlainMarked, [Next]_vars, NEW d \in Refs', EveryLineHasCode(d)
             PROVE  Targets(d, DOMAIN breakpoints_'[d.path]) \subseteq marks'[d]
  BY DEF PlainMarked, Marked, EveryLineHasCode, NextLine
<1>1. ASSUME NEW c \in Copies, OnLuaFileLoaded(c)
      PROVE  Targets(d, DOMAIN breakpoints_'[d.path]) \subseteq marks'[d]
  <2>1. AddRef(c) \/ AddEntryRef(c)
    BY <1>1 DEF OnLuaFileLoaded
  <2>2. d \in Refs \cup {c}
    BY <1>1, <2>1, RefsStep DEF OnLuaFileLoaded, AddRef, AddEntryRef
  <2>3. d \in Copies /\ d.path \in Paths
    BY <2>2, RefsType, CopiesAssumption
  <2>4. d \in Refs => Targets(d, DOMAIN breakpoints_[d.path]) \subseteq marks[d]
    BY DEF PlainMarked, Marked
  <2>5. marks \in [Copies -> SUBSET Lines]
    BY DEF TypeOK
  <2>6. CASE AddRef(c)
    <3>1. DOMAIN breakpoints_'[d.path] = DOMAIN breakpoints_[d.path]
      BY <2>3, <2>6, AddDomain
    <3>. QED
      BY <2>2, <2>3, <2>4, <2>5, <2>6, <3>1 DEF AddRef
  <2>7. CASE AddEntryRef(c)
    <3>1. DOMAIN breakpoints_'[d.path] = DOMAIN breakpoints_[d.path]
                                         \cup (IF d.path = c.path THEN {1} ELSE {})
      BY <2>3, <2>7, AddDomain
    <3>2. marks'[d] = IF d = c THEN Targets(d, DOMAIN breakpoints_[c.path] \cup {1})
                      ELSE IF d \in Refs /\ d.path = c.path
                      THEN marks[d] \cup Targets(d, {1} \ DOMAIN breakpoints_[c.path])
                      ELSE marks[d]
      BY <2>3, <2>7 DEF AddEntryRef
    <3>3. CASE d = c
      BY <3>1, <3>2, <3>3
    <3>4. CASE d # c /\ d.path = c.path
      BY <2>2, <2>4, <3>1, <3>2, <3>4 DEF Targets
    <3>5. CASE d # c /\ d.path # c.path
      BY <2>2, <2>4, <3>1, <3>2, <3>5
    <3>. QED
      BY <3>3, <3>4, <3>5
  <2>. QED
    BY <2>1, <2>6, <2>7
<1>2. CASE RunTask
  <2> DEFINE paths == Head(tasks).paths
             list  == Head(tasks).list
             old   == DOMAIN breakpoints_[d.path]
  <2>1. ApplyList(paths, list) /\ Refs' = Refs
    BY <1>2 DEF RunTask, Refs
  <2>2. d \in Refs /\ d \in Copies /\ d.path \in Paths
    BY <2>1, RefsType, CopiesAssumption
  <2>3. Targets(d, old) \subseteq marks[d]
    BY <2>2 DEF PlainMarked, Marked
  <2>4. CASE d.path \in paths
    <3>1. DOMAIN breakpoints_'[d.path] = DOMAIN list
      BY <2>1, <2>2, <2>4, ApplyDomain
    <3>2. marks'[d] = (marks[d] \cup Targets(d, DOMAIN list \ old))
                        \ Targets(d, old \ DOMAIN list)
      BY <2>1, <2>2, <2>4 DEF ApplyList, Remark
    <3>3. DOMAIN list \subseteq Lines /\ old \subseteq Lines
      <4>1. tasks \in Seq(Task) /\ tasks # <<>>
        <5>1. tasks \in Seq(Task) /\ taken \in 0..Len(tasks) /\ taken # 0
          BY <1>2 DEF RunTask, Quiet, TypeOK
        <5>. QED
          BY <5>1
      <4>2. list \in ListsOver(Lines)
        <5>1. Head(tasks) \in Task
          BY <4>1
        <5>. QED
          BY <5>1 DEF Task
      <4>3. breakpoints_[d.path] \in File
        BY <2>2 DEF TypeOK
      <4>. QED
        BY <4>2, <4>3, ListDomain, FileDomain
    <3>4. \A l \in DOMAIN list \cup old : NextLine(d, l) \in {l, NoLine}
      BY <2>2, <3>3 DEF EveryLineHasCode
    <3>5. Targets(d, DOMAIN list) \cap Targets(d, old \ DOMAIN list) = {}
      BY <3>4 DEF Targets
    <3>6. Targets(d, DOMAIN list) \subseteq Targets(d, old) \cup Targets(d, DOMAIN list \ old)
      BY DEF Targets
    <3>. QED
      BY <2>3, <3>1, <3>2, <3>5, <3>6
  <2>5. CASE d.path \notin paths
    <3>1. breakpoints_'[d.path] = breakpoints_[d.path]
      BY <2>1, <2>2, <2>5, ApplyDomain
    <3>2. marks'[d] = marks[d]
      BY <2>1, <2>2, <2>5 DEF ApplyList
    <3>. QED
      BY <2>3, <3>1, <3>2
  <2>. QED
    BY <2>4, <2>5
<1>3. CASE OtherStep
  BY <1>3, OtherRefs DEF OtherStep, PlainMarked, Marked
<1>. QED
  BY <1>1, <1>2, <1>3, Steps

(* In the copies all of whose lines have code every breakpoint is marked,  *)
(* whenever the copy was loaded.                                           *)
THEOREM AllMarked == Spec => []PlainMarked
<1>1. Init => PlainMarked
  BY RefsInit DEF PlainMarked
<1>. QED
  BY <1>1, PlainMarkedStep, TypeCorrect, PTL DEF Spec

-----------------------------------------------------------------------------
(* The conditions.                                                         *)

(* What findBreakPoint hands on at a marked line: the condition of the     *)
(* breakpoint there, or none where a breakpoint has moved to.              *)
LEMMA ConditionFound ==
  ASSUME TypeOK, NoStrayMark, NEW c \in Refs, NEW line \in marks[c]
  PROVE  /\ line \in Lines
         /\ ConditionAt(c, line) = "none" =>
              \E l \in DOMAIN AskedAt(c, line) : AskedAt(c, line)[l] # "fails" \/ l # line
         /\ ConditionAt(c, line) # "none" =>
              line \in DOMAIN AskedAt(c, line) /\ AskedAt(c, line)[line] = ConditionAt(c, line)
<1> DEFINE bps == breakpoints_[c.path]
<1>1. c \in Copies /\ bps \in File
  BY RefsType, CopiesAssumption DEF TypeOK
<1>2. DOMAIN bps \subseteq Lines
  BY <1>1, FileDomain
<1>3. PICK l \in DOMAIN bps : NextLine(c, l) = line /\ line # NoLine
  BY DEF NoStrayMark, Targets
<1>4. line \in c.code /\ NextLine(c, line) = line
  BY <1>1, <1>2, <1>3, NextLineType, CodeLine
<1>5. line \in Lines
  BY <1>1, <1>4, CopiesAssumption
<1>6. /\ DOMAIN AskedAt(c, line) = {k \in DOMAIN bps : NextLine(c, k) = line}
      /\ \A k \in DOMAIN AskedAt(c, line) : AskedAt(c, line)[k] = bps[k].condition
  BY <1>1, <1>5, AskedIs
<1>7. CASE line \in DOMAIN bps
  <2>1. ConditionAt(c, line) = bps[line].condition
    BY <1>7 DEF ConditionAt
  <2>. QED
    BY <1>4, <1>5, <1>6, <1>7, <2>1
<1>8. CASE line \notin DOMAIN bps
  <2>1. ConditionAt(c, line) = "none" /\ l # line
    BY <1>3, <1>8 DEF ConditionAt
  <2>. QED
    BY <1>3, <1>5, <1>6, <2>1
<1>. QED
  BY <1>7, <1>8

(* The steps that take a break or end one.                                 *)
LEMMA BreakSteps ==
  [Next]_vars => \/ \E c \in Copies, line \in Lines : DebugBreak(c, line)
                 \/ EntryWake \/ Hit
                 \/ lua # "hit" /\ GoOn
                 \/ UNCHANGED stop
  BY DEF Next, LuaStep, ClientStep, vars, files, queue, stop, OnLuaFileLoaded, ReleaseVM,
         Interrupt, RunTask, SetBreakPoints, Continue, OnConnect, OnDisconnect

(* The condition that is being evaluated is that of the breakpoint at the  *)
(* line of the break, as it was when the line was reached.                 *)
HitAsked == lua = "hit" => at[2] \in DOMAIN asked /\ asked[at[2]] = condition_

LEMMA HitAskedStep == TypeOK /\ NoStrayMark /\ HitAsked /\ [Next]_vars => HitAsked'
<1> SUFFICES ASSUME TypeOK, NoStrayMark, HitAsked, [Next]_vars PROVE HitAsked'
  OBVIOUS
<1>1. ASSUME NEW c \in Copies, NEW line \in Lines, DebugBreak(c, line) PROVE HitAsked'
  <2>1. /\ c \in Refs /\ line \in marks[c]
        /\ at' = <<c, line>> /\ asked' = AskedAt(c, line)
    BY <1>1 DEF DebugBreak
  <2>2. lua' = "hit" => condition_' = ConditionAt(c, line) /\ ConditionAt(c, line) # "none"
    BY <1>1 DEF DebugBreak
  <2>. QED
    BY <2>1, <2>2, ConditionFound DEF HitAsked
<1>2. CASE EntryWake \/ Hit
  BY <1>2 DEF EntryWake, Hit, GoOn, HitAsked
<1>3. CASE GoOn \/ UNCHANGED stop
  BY <1>3 DEF GoOn, stop, HitAsked
<1>. QED
  BY <1>1, <1>2, <1>3, BreakSteps

(* Every stop but the one on entry is one that a breakpoint marking the    *)
(* line asked for when the line was reached, and only a false condition    *)
(* of the breakpoint at that line lets the program run on, for any copies, *)
(* those whose lines move included, and whatever lists are applied while   *)
(* the condition is evaluated.                                             *)
THEOREM ConditionsHeld == Spec => ConditionRespected
<1> DEFINE Respects ==
      /\ lua \in {"run", "hit"} /\ lua' = "stopped"
           => \/ lua = "run" /\ IsBreakOnEntry(at'[1], at'[2])
              \/ \E l \in DOMAIN asked' : Asks(l, at'[2])
      /\ lua = "hit" /\ lua' = "run"
           => at[2] \in DOMAIN asked /\ asked[at[2]] = "fails"
<1>1. ASSUME TypeOK, NoStrayMark, HitAsked, [Next]_vars PROVE Respects
  <2>1. ASSUME NEW c \in Copies, NEW line \in Lines, DebugBreak(c, line) PROVE Respects
    <3>1. /\ c \in Refs /\ line \in marks[c] /\ lua = "run"
          /\ at' = <<c, line>> /\ asked' = AskedAt(c, line)
      BY <2>1 DEF DebugBreak
    <3>2. lua' = "stopped" => IsBreakOnEntry(c, line) \/ ConditionAt(c, line) = "none"
      BY <2>1 DEF DebugBreak
    <3>3. ConditionAt(c, line) = "none" => \E l \in DOMAIN asked' : Asks(l, line)
      BY <1>1, <3>1, ConditionFound DEF Asks
    <3>. QED
      BY <3>1, <3>2, <3>3
  <2>2. CASE Hit
    <3>1. lua = "hit" /\ at[2] \in DOMAIN asked /\ asked[at[2]] = condition_
      BY <1>1, <2>2 DEF Hit, HitAsked
    <3>2. CASE condition_ = "fails"
      BY <2>2, <3>1, <3>2 DEF Hit, GoOn
    <3>3. CASE condition_ # "fails"
      <4>1. lua' = "stopped" /\ asked' = asked /\ at' = at
        BY <2>2, <3>3 DEF Hit
      <4>. QED
        BY <3>1, <3>3, <4>1 DEF Asks
    <3>. QED
      BY <3>2, <3>3
  <2>3. CASE EntryWake \/ (lua # "hit" /\ GoOn) \/ UNCHANGED stop
    BY <2>3 DEF EntryWake, GoOn, stop
  <2>. QED
    BY <1>1, <2>1, <2>2, <2>3, BreakSteps
<1>2. TypeOK /\ NoStrayMark /\ HitAsked /\ [Next]_vars => [Respects]_vars
  BY <1>1
<1>3. Init => HitAsked
  BY DEF Init, HitAsked
<1>. QED
  BY <1>2, <1>3, HitAskedStep, TypeCorrect, NoStrays, PTL DEF Spec, ConditionRespected

-----------------------------------------------------------------------------
(* The queue.                                                              *)

(* A copy that is loaded changes no condition but that of the debugger's   *)
(* own breakpoint.                                                         *)
LEMMA AddInForce ==
  ASSUME TypeOK, NEW c \in Copies, OnLuaFileLoaded(c), NEW p \in Paths, InForce(p)
  PROVE  InForce(p)'
<1>1. breakpoints_ \in [Paths -> File] /\ requested' = requested /\ c.path \in Paths
  BY CopiesAssumption DEF OnLuaFileLoaded, TypeOK
<1>2. breakpoints_[p] \in File
  BY <1>1
<1>3. breakpoints_[p] \in [DOMAIN breakpoints_[p] -> BreakPoint]
  BY <1>2, FileDomain
<1>4. CASE AddRef(c)
  <2>1. DOMAIN breakpoints_'[p] = DOMAIN breakpoints_[p]
    BY <1>4, AddDomain
  <2>2. ASSUME NEW l \in DOMAIN breakpoints_[p]
        PROVE  breakpoints_'[p][l].condition = breakpoints_[p][l].condition
    <3>1. breakpoints_[p][l] \in BreakPoint
      BY <1>3
    <3>. QED
      BY <1>1, <1>4, <3>1 DEF AddRef, BreakPoint
  <2>. QED
    BY <1>1, <2>1, <2>2 DEF InForce, Own
<1>5. CASE AddEntryRef(c) /\ c.path = EntryScript /\ StopOnEntry
  <2>1. DOMAIN breakpoints_'[p] = DOMAIN breakpoints_[p]
                                  \cup (IF p = c.path THEN {1} ELSE {})
    BY <1>5, AddDomain
  <2>2. ASSUME NEW l \in DOMAIN breakpoints_[p], p = c.path => l # 1
        PROVE  breakpoints_'[p][l].condition = breakpoints_[p][l].condition
    <3>1. breakpoints_[p][l] \in BreakPoint
      BY <1>3
    <3>2. CASE p # c.path
      BY <1>1, <1>5, <3>2 DEF AddEntryRef
    <3>3. CASE p = c.path
      BY <1>1, <1>5, <2>2, <3>1, <3>3 DEF AddEntryRef, BreakPoint
    <3>. QED
      BY <3>2, <3>3
  <2>. QED
    BY <1>1, <1>5, <2>1, <2>2 DEF InForce, Own
<1>. QED
  BY <1>4, <1>5 DEF OnLuaFileLoaded

(* A list that is posted for p is the last one that is.                    *)
LEMMA PostWins ==
  ASSUME TypeOK, LastListWins, NEW paths \in SUBSET Paths, NEW list,
         Post(paths, list), UNCHANGED breakpoints_
  PROVE  LastListWins'
<1> SUFFICES ASSUME NEW p \in Paths
             PROVE  LET mine == {i \in DOMAIN tasks' : p \in tasks'[i].paths}
                    IN  /\ mine = {} => InForce(p)'
                        /\ \A i \in mine :
                             (\A j \in mine : j <= i) => tasks'[i].list = requested'[p]
  BY DEF LastListWins
<1> DEFINE n == Len(tasks)
<1>0. tasks \in Seq(Task)
  BY DEF TypeOK
<1>1. /\ n \in Nat /\ DOMAIN tasks = 1..n /\ DOMAIN tasks' = 1..(n + 1)
      /\ tasks'[n + 1] = [paths |-> paths, list |-> list]
      /\ \A i \in 1..n : tasks'[i] = tasks[i]
  BY <1>0 DEF Post
<1>2. CASE p \in paths
  <2>1. requested'[p] = list
    BY <1>2 DEF Post
  <2>. QED
    BY <1>1, <1>2, <2>1
<1>3. CASE p \notin paths
  <2>1. requested'[p] = requested[p]
    BY <1>3 DEF Post
  <2>2. InForce(p) => InForce(p)'
    BY <2>1 DEF InForce
  <2>3. {i \in DOMAIN tasks' : p \in tasks'[i].paths} = {i \in DOMAIN tasks : p \in tasks[i].paths}
    BY <1>1, <1>3
  <2>. QED
    BY <1>1, <2>1, <2>2, <2>3 DEF LastListWins
<1>. QED
  BY <1>2, <1>3

(* A task that is run and was the last one for p leaves its list in force. *)
LEMMA RunWins == TypeOK /\ LastListWins /\ RunTask => LastListWins'
<1> SUFFICES ASSUME TypeOK, LastListWins, RunTask, NEW p \in Paths
             PROVE  LET mine == {i \in DOMAIN tasks' : p \in tasks'[i].paths}
                    IN  /\ mine = {} => InForce(p)'
                        /\ \A i \in mine :
                             (\A j \in mine : j <= i) => tasks'[i].list = requested'[p]
  BY DEF LastListWins
<1> DEFINE n    == Len(tasks)
           mine == {i \in DOMAIN tasks : p \in tasks[i].paths}
           left == {i \in DOMAIN tasks' : p \in tasks'[i].paths}
<1>1. tasks \in Seq(Task) /\ tasks # <<>>
  <2>1. tasks \in Seq(Task) /\ taken \in 0..Len(tasks) /\ taken # 0
    BY DEF RunTask, Quiet, TypeOK
  <2>. QED
    BY <2>1
<1>2. /\ n \in Nat \ {0} /\ DOMAIN tasks = 1..n /\ DOMAIN tasks' = 1..(n - 1)
      /\ Head(tasks) = tasks[1]
      /\ \A i \in 1..(n - 1) : tasks'[i] = tasks[i + 1]
  BY <1>1 DEF RunTask
<1>3. requested' = requested /\ ApplyList(tasks[1].paths, tasks[1].list)
  BY <1>2 DEF RunTask
<1>4. left = {i \in 1..(n - 1) : i + 1 \in mine}
  BY <1>2
<1>5. /\ mine = {} => InForce(p)
      /\ \A i \in mine : (\A j \in mine : j <= i) => tasks[i].list = requested[p]
  BY DEF LastListWins
<1>6. ASSUME NEW i \in left, \A j \in left : j <= i
      PROVE  tasks'[i].list = requested'[p]
  <2>1. i \in 1..(n - 1) /\ i + 1 \in mine
    BY <1>4
  <2>2. ASSUME NEW j \in mine PROVE j <= i + 1
    <3>1. j \in 1..n
      BY <1>2
    <3>2. CASE j = 1
      BY <2>1, <3>2
    <3>3. CASE j # 1
      <4>1. j - 1 \in 1..(n - 1) /\ (j - 1) + 1 = j
        BY <1>2, <3>1, <3>3
      <4>2. j - 1 \in left
        BY <1>4, <4>1
      <4>. QED
        BY <1>6, <2>1, <3>1, <4>2
    <3>. QED
      BY <3>2, <3>3
  <2>3. tasks[i + 1].list = requested[p]
    BY <1>5, <2>1, <2>2
  <2>. QED
    BY <1>2, <1>3, <2>1, <2>3
<1>7. ASSUME left = {} PROVE InForce(p)'
  <2>1. mine \subseteq {1}
    <3> SUFFICES ASSUME NEW j \in mine, j # 1 PROVE FALSE
      OBVIOUS
    <3>1. j - 1 \in 1..(n - 1) /\ (j - 1) + 1 = j
      BY <1>2
    <3>. QED
      BY <1>4, <1>7, <3>1
  <2>2. CASE mine = {}
    <3>1. p \notin tasks[1].paths
      BY <1>2, <2>2
    <3>2. breakpoints_'[p] = breakpoints_[p]
      BY <1>3, <3>1, ApplyDomain
    <3>. QED
      BY <1>3, <1>5, <2>2, <3>2 DEF InForce
  <2>3. CASE mine # {}
    <3>1. 1 \in mine /\ \A j \in mine : j <= 1
      BY <2>1, <2>3
    <3>2. tasks[1].list = requested[p] /\ p \in tasks[1].paths
      BY <1>5, <3>1
    <3>3. /\ DOMAIN breakpoints_'[p] = DOMAIN requested[p]
          /\ \A l \in DOMAIN requested[p] : breakpoints_'[p][l].condition = requested[p][l]
      BY <1>3, <3>2, ApplyDomain
    <3>. QED
      BY <1>3, <3>3 DEF InForce
  <2>. QED
    BY <2>2, <2>3
<1>. QED
  BY <1>6, <1>7

LEMMA WinsStep ==
  TypeOK /\ LastListWins /\ [Next]_vars => LastListWins'
<1> SUFFICES ASSUME TypeOK, LastListWins, [Next]_vars PROVE LastListWins'
  OBVIOUS
<1>1. ASSUME NEW c \in Copies, OnLuaFileLoaded(c) PROVE LastListWins'
  <2>1. tasks' = tasks /\ requested' = requested
    BY <1>1 DEF OnLuaFileLoaded, queue
  <2>2. \A p \in Paths : InForce(p) => InForce(p)'
    BY <1>1, AddInForce
  <2>. QED
    BY <2>1, <2>2 DEF LastListWins
<1>2. CASE RunTask
  BY <1>2, RunWins
<1>3. ASSUME NEW p \in Paths, NEW list \in Lists, SetBreakPoints(p, list)
      PROVE  LastListWins'
  BY <1>3, PostWins DEF SetBreakPoints, files
<1>4. CASE OnDisconnect
  BY <1>4, PostWins DEF OnDisconnect, files
<1>5. CASE UNCHANGED <<breakpoints_, tasks, requested>>
  BY <1>5 DEF LastListWins, InForce
<1>6. \/ \E c \in Copies : OnLuaFileLoaded(c)
      \/ RunTask \/ OnDisconnect
      \/ \E p \in Paths, list \in Lists : SetBreakPoints(p, list)
      \/ UNCHANGED <<breakpoints_, tasks, requested>>
  BY DEF Next, LuaStep, ClientStep, vars, files, queue, stop, DebugBreak, ReleaseVM,
         Interrupt, EntryWake, Hit, Continue, OnConnect
<1>. QED
  BY <1>1, <1>2, <1>3, <1>4, <1>5, <1>6

(* What a client has asked for last is what is in force, or what will be   *)
(* when the pending tasks have run.                                        *)
THEOREM LastWins == Spec => []LastListWins
<1>1. Init => LastListWins
  <2> SUFFICES ASSUME Init, NEW p \in Paths
               PROVE  InForce(p) /\ tasks = <<>>
    BY DEF LastListWins
  <2>1. DOMAIN NoBreakPoints = {}
    BY DEF NoBreakPoints
  <2>2. breakpoints_[p] = NoBreakPoints /\ requested[p] = NoBreakPoints /\ tasks = <<>>
    BY DEF Init
  <2>. QED
    BY <2>1, <2>2 DEF InForce
<1>2. TypeOK /\ LastListWins /\ [Next]_vars => LastListWins'
  BY WinsStep
<1>. QED
  BY <1>1, <1>2, TypeCorrect, PTL DEF Spec

=============================================================================
