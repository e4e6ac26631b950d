---------------------------- MODULE MCVariables ----------------------------
(***************************************************************************)
(* Instances of Variables for TLC: the call chains a program stops with.   *)
(***************************************************************************)
EXTENDS Variables, TLC

Chain(threads, calls) == [chain |-> threads, calls |-> calls]

(* A break in a coroutine that a function called by pcall has resumed;     *)
(* debug.break_here() in a script.                                         *)
Nested    == Chain(<<"t2", "t1">>, << <<"Lua">>, <<"C", "Lua">> >>)
BreakHere == Chain(<<"t1">>, << <<"C", "Lua">> >>)

CoroutineStops == {Nested, BreakHere}

=============================================================================
