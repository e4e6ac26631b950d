--------------------------- MODULE MCBreakPoints ---------------------------
(***************************************************************************)
(* Instances of BreakPoints for TLC: the copies of scripts that are loaded *)
(* and the lists of breakpoints the client sends.                          *)
(***************************************************************************)
EXTENDS BreakPoints, TLC

TwoPaths   == {"main", "mod"}
TwoVMs     == {"vm1", "vm2"}
ThreeLines == 1..3
TwoLines   == 1..2

Copy(p, v, lines) == [path |-> p, vm |-> v, code |-> lines]

(* A script all of whose lines have code, loaded again in the next VM      *)
(* after its first line was commented out.  The other script the client    *)
(* has breakpoints in is never loaded.                                     *)
Edited == {Copy("main", "vm1", 1..2), Copy("main", "vm2", {2})}
TwoLists == {2 :> "holds", 1 :> "fails"}

(* Scripts that begin with comments.                                       *)
Commented == {Copy("main", "vm1", {3}), Copy("mod", "vm2", {2, 3})}
GapLists  == {2 :> "holds", 1 :> "fails" @@ 3 :> "none"}

=============================================================================
