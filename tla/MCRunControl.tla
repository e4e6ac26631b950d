---------------------------- MODULE MCRunControl ----------------------------
(***************************************************************************)
(* Instances of RunControl for TLC: which requests the client sends, and   *)
(* which callbacks code that runs inside a stop can reach.                 *)
(***************************************************************************)
EXTENDS RunControl

(* Every request of a client, its departure and its return.                *)
AllOfThem == AllRequests

(* What is left without the one request whose handler blocks its own       *)
(* dispatcher while the program runs (see ExecuteOnlyInBreak).             *)
Harmless == AllRequests \ {"setVariable"}

(* A client that sets breakpoints and evaluates expressions.               *)
Evaluate == {"initialize", "setBreakpoints", "continue", "evaluate"}

(* A client that assigns a variable when it likes.                         *)
AssignAnytime == {"initialize", "continue", "setVariable"}

NoHooks   == {}
EveryHook == AllHooks
OnBreak   == {"debugbreak"}

=============================================================================
