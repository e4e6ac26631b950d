------------------------------ MODULE LuaStack ------------------------------
(***************************************************************************)
(* What the debugger's helpers do to the Lua stack of the thread that      *)
(* stopped, and to the variables of its innermost frame: eval,             *)
(* pushBreakEnv, setLocal and setUpvalue of lua_utils.cpp and their        *)
(* callers, Variable::setValue, evalWithEnv, BreakPoint::hit, loadFields   *)
(* and VariableRegistry::fetch.                                            *)
(*                                                                         *)
(* The registers of the frame are the lowest cells of the stack, and top   *)
(* is above them when the program stops.  The helpers push above top: a    *)
(* cell they push to is overwritten, and when top has come down below the  *)
(* registers, that cell is one of them.  A register holds a value of the   *)
(* program or something of the debugger's; above them only the height      *)
(* matters.                                                                *)
(*                                                                         *)
(* The Lua API is external.  A function that lua_settable calls raises no  *)
(* error here: such an error would also leave its call open.               *)
(***************************************************************************)
EXTENDS Integers, FiniteSets

CONSTANTS
  Registers,    \* how many the frame has
  Upvalues,     \* how many upvalues its function has
  LocalName,    \* the name of the local in each register, or None
  UpvalueName,  \* the name of each upvalue
  Names,
  Values,       \* the values of the program
  Other,        \* what the debugger pushes
  None,
  MaxResults,   \* bound on the results of an expression
  MaxTop        \* bound on the height of the stack between requests

ASSUME SizesAssumption ==
  Registers \in Nat /\ Upvalues \in Nat /\ MaxResults \in Nat
    /\ MaxTop \in Nat /\ Registers <= MaxTop

Regs == 1 .. Registers
Ups  == 1 .. Upvalues

ASSUME NamesAssumption ==
  /\ LocalName \in [Regs -> Names \cup {None}] /\ UpvalueName \in [Ups -> Names]
  /\ None \notin Names \cup Values \cup {Other} /\ Other \notin Values

VARIABLES
  stopped,  \* No, or what the program stopped in: a "hook" or an "interrupt"
  L,        \* the registers and the top of the stack
  upvalue,  \* the upvalues of the function
  entry,    \* the top the VM restores when a hook returns
  answer,   \* the last response: the value of a name, or NoAnswer
  meant,    \* history: the variables as the program and the client set them
  shrunk,   \* history: a field was assigned, and the top not restored since
  raised    \* history: lua_settable raised, and the top not restored since

vars == <<stopped, L, upvalue, entry, answer, meant, shrunk, raised>>

No       == "no"
NoAnswer == [name |-> None, value |-> None]

-----------------------------------------------------------------------------
(* The stack.                                                              *)

Push(S, n) == [reg |-> [i \in Regs |-> IF S.top < i /\ i <= S.top + n THEN Other
                                         ELSE S.reg[i]],
               top |-> S.top + n]
Pop(S, n)  == [S EXCEPT !.top = @ - n]

(* Cells that are pushed and popped again.                                 *)
Use(S, n) == Pop(Push(S, n), n)

(* ~StackGuard, for what was done to S.                                    *)
Guarded(S, after) == [after EXCEPT !.top = S.top]

LocalsOf(n)   == {i \in Regs : LocalName[i] = n}
UpvaluesOf(n) == {j \in Ups : UpvalueName[j] = n}
FirstOf(s)    == CHOOSE i \in s : \A k \in s : i <= k
LastOf(s)     == CHOOSE i \in s : \A k \in s : k <= i

-----------------------------------------------------------------------------
(* lua_utils.                                                              *)

(* Mutant: the function stays on the stack.                                *)
PushBreakEnvAndFunction(S) == Use(Push(S, 2), 4)

(* pushBreakEnv leaves the environment; on the way it pushes the function, *)
(* its environment and a metatable for it with a key and a value, then the *)
(* value and the name of each variable.                                    *)
PushBreakEnv(S) == Pop(Use(Push(S, 2), 4), 1)

(* A level that has no frame: only the table had been pushed.              *)
PushBreakEnvFails(S) == Use(S, 1)

(* Mutant: the upvalues are left out.                                      *)
EnvOfLocals(S, n) ==
  IF LocalsOf(n) # {} THEN S.reg[LastOf(LocalsOf(n))] ELSE None

(* A name in the environment: the locals are set in their order, then the  *)
(* upvalues, each over the one of its name before.                         *)
EnvOf(S, n) ==
  IF UpvaluesOf(n) # {} THEN upvalue[LastOf(UpvaluesOf(n))]
  ELSE IF LocalsOf(n) # {} THEN S.reg[LastOf(LocalsOf(n))] ELSE None

Outcomes == {"syntax", "error", "value"}

(* Mutant: the message of a syntax error is not pushed.                    *)
EvalSilently(S, outcome, n) ==
  CASE outcome = "syntax" -> S
    [] outcome = "error"  -> Push(Use(S, 2), 1)
    [] outcome = "value"  -> Push(Use(S, 2), n)

(* eval leaves n results, or one message: of the compiler, or of the       *)
(* function it called, in the place of the function.                       *)
Eval(S, outcome, n) ==
  CASE outcome = "syntax" -> Push(S, 1)
    [] outcome = "error"  -> Push(Use(S, 2), 1)
    [] outcome = "value"  -> Push(Use(S, 2), n)

(* VariableRegistry::update of this thread: fetch and fetchGlobals, each   *)
(* with a guard.                                                           *)
Fetch(S) == Guarded(S, Push(S, 4))

-----------------------------------------------------------------------------
Program == [reg |-> L.reg, up |-> upvalue]

Init ==
  /\ stopped = No
  /\ L \in [reg : [Regs -> Values], top : {Registers}]
  /\ upvalue \in [Ups -> Values]
  /\ entry = Registers /\ answer = NoAnswer
  /\ meant = Program
  /\ shrunk = FALSE /\ raised = FALSE

(* The program assigns a variable.                                         *)
Execute ==
  /\ stopped = No
  /\ \E v \in Values :
       \/ /\ \E i \in Regs : L' = [L EXCEPT !.reg[i] = v]
          /\ UNCHANGED upvalue
       \/ /\ \E j \in Ups : upvalue' = [upvalue EXCEPT ![j] = v]
          /\ UNCHANGED L
  /\ meant' = [reg |-> L'.reg, up |-> upvalue']
  /\ UNCHANGED <<stopped, entry, answer, shrunk, raised>>

(* The program stops: mainThreadWait updates the variables.                *)
Stop(in, S) ==
  /\ stopped' = in /\ entry' = L.top
  /\ L' = Fetch(S)
  /\ UNCHANGED <<upvalue, answer, meant, shrunk, raised>>

(* A step, or a breakpoint without a condition, a pause.                   *)
StopPlainly == stopped = No /\ \E in \in {"hook", "interrupt"} : Stop(in, L)

(* A breakpoint with a condition: BreakPoint::hit, under its guard.        *)
HitBreakPoint(outcome, n) ==
  /\ stopped = No
  /\ LET S == Guarded(L, Eval(PushBreakEnv(L), outcome, n))
     IN  \/ Stop("hook", S)
         \/ /\ outcome = "value" /\ n = 1 /\ L' = S     \* the condition is false
            /\ UNCHANGED <<stopped, upvalue, entry, answer, meant, shrunk, raised>>

(* The program goes on.  The VM restores the top when its hook returns,    *)
(* and not after an interrupt.                                             *)
Resume ==
  /\ stopped # No
  /\ stopped' = No /\ answer' = NoAnswer /\ meant' = Program
  /\ IF stopped = "hook"
     THEN /\ L' = [L EXCEPT !.top = entry]
          /\ shrunk' = (shrunk /\ entry < Registers)
          /\ raised' = (raised /\ entry # Registers)
     ELSE UNCHANGED <<L, shrunk, raised>>
  /\ UNCHANGED <<upvalue, entry>>

-----------------------------------------------------------------------------
(* Requests.                                                               *)

(* evalWithEnv of a name, or of an expression that has other results or    *)
(* none; one in the console is followed by updateVariables.                *)
Evaluate(name, outcome, n, context) ==
  /\ stopped # No
  /\ LET done == Eval(PushBreakEnv(L), outcome, n)
         left == IF outcome = "value" THEN Pop(Pop(done, n), 1) ELSE Pop(done, 2)
     IN  L' = IF outcome = "value" /\ context = "repl" THEN Fetch(left) ELSE left
  /\ answer' = IF outcome = "value" /\ n = 1
               THEN [name |-> name, value |-> EnvOf(PushBreakEnv(L), name)]
               ELSE NoAnswer
  /\ UNCHANGED <<stopped, upvalue, entry, meant, shrunk, raised>>

(* An evaluation in a frame that is not there.                             *)
EvaluateNowhere ==
  /\ stopped # No
  /\ L' = PushBreakEnvFails(L)
  /\ answer' = NoAnswer
  /\ UNCHANGED <<stopped, upvalue, entry, meant, shrunk, raised>>

(* setValue with an expression that has no value: an error, which it pops  *)
(* with the environment, or no result, which updateVariables follows.      *)
SetNothing(outcome) ==
  /\ stopped # No
  /\ LET done == Eval(PushBreakEnv(L), outcome, 0)
     IN  L' = IF outcome = "value" THEN Fetch(Pop(done, 1)) ELSE Pop(done, 2)
  /\ answer' = NoAnswer
  /\ UNCHANGED <<stopped, upvalue, entry, meant, shrunk, raised>>

(* setValue up to the assignment: of n results the first is left, on the   *)
(* environment.                                                            *)
NewValue(n) == Pop(Eval(PushBreakEnv(L), "value", n), n - 1)

(* setLocal, which pushes the local it finds and the value: it finds the   *)
(* first one of the name.                                                  *)
SetLocal(S, i, v) ==
  [Use(S, 2) EXCEPT !.reg[FirstOf(LocalsOf(LocalName[i]))] = v]

SetLocalVariable(i, v, n) ==
  /\ stopped # No /\ LocalName[i] # None
  /\ L' = Fetch(Pop(SetLocal(NewValue(n), i, v), 2))
  /\ meant' = [meant EXCEPT !.reg[i] = v]
  /\ answer' = NoAnswer
  /\ UNCHANGED <<stopped, upvalue, entry, shrunk, raised>>

(* setUpvalue: the function, the upvalue it finds and the value.           *)
SetUpvalueVariable(j, v, n) ==
  /\ stopped # No
  /\ L' = Fetch(Pop(Use(NewValue(n), 3), 2))
  /\ upvalue' = [upvalue EXCEPT ![FirstOf(UpvaluesOf(UpvalueName[j]))] = v]
  /\ meant' = [meant EXCEPT !.up[j] = v]
  /\ answer' = NoAnswer
  /\ UNCHANGED <<stopped, entry, shrunk, raised>>

(* A field: the table, the key and the value are pushed, and lua_settable  *)
(* takes two of them; then three values are popped, and two more.          *)
SetField(n) ==
  /\ stopped # No /\ L.top >= 2
  /\ L' = Fetch(Pop(Pop(Pop(Push(NewValue(n), 3), 2), 3), 2))
  /\ shrunk' = TRUE
  /\ answer' = NoAnswer
  /\ UNCHANGED <<stopped, upvalue, entry, meant, raised>>

(* Of a readonly table: lua_settable pushes a message, and what was pushed *)
(* stays, for DebugBridge::setVariable only catches the error.             *)
SetFieldFails(n) ==
  /\ stopped # No /\ L.top + 6 <= MaxTop
  /\ L' = Push(Push(NewValue(n), 3), 1)
  /\ raised' = TRUE
  /\ answer' = NoAnswer
  /\ UNCHANGED <<stopped, upvalue, entry, meant, shrunk>>

(* A global has no scope to assign to: both values are popped.             *)
SetGlobal(n) ==
  /\ stopped # No
  /\ L' = Pop(NewValue(n), 2)
  /\ answer' = NoAnswer
  /\ UNCHANGED <<stopped, upvalue, entry, meant, shrunk, raised>>

(* getVariables of a table: loadFields, which leaves what an iterator      *)
(* leaves to its guard.                                                    *)
LoadFields ==
  /\ stopped # No
  /\ L' = Guarded(L, Push(L, 8))
  /\ answer' = NoAnswer
  /\ UNCHANGED <<stopped, upvalue, entry, meant, shrunk, raised>>

SetVariable ==
  \/ \E outcome \in Outcomes : SetNothing(outcome)
  \/ \E n \in 1 .. MaxResults :
       \/ \E v \in Values : \/ \E i \in Regs : SetLocalVariable(i, v, n)
                            \/ \E j \in Ups : SetUpvalueVariable(j, v, n)
       \/ SetField(n) \/ SetFieldFails(n) \/ SetGlobal(n)

Next ==
  \/ Execute \/ StopPlainly \/ Resume
  \/ EvaluateNowhere \/ LoadFields \/ SetVariable
  \/ \E outcome \in Outcomes, n \in 0 .. MaxResults :
       /\ outcome = "value" \/ n = 0
       /\ \/ HitBreakPoint(outcome, n)
          \/ \E name \in Names, context \in {"repl", "watch"} :
               Evaluate(name, outcome, n, context)

Spec == Init /\ [][Next]_vars

-----------------------------------------------------------------------------
(* The types of the variables: the top stays between the frame's base and  *)
(* the bound, whatever was evaluated and assigned.                         *)
TypeOK ==
  /\ stopped \in {No, "hook", "interrupt"}
  /\ L \in [reg : [Regs -> Values \cup {Other}], top : 0 .. MaxTop]
  /\ upvalue \in [Ups -> Values]
  /\ entry \in 0 .. MaxTop
  /\ answer \in [name : Names \cup {None}, value : Values \cup {Other, None}]
  /\ meant \in [reg : [Regs -> Values \cup {Other}], up : [Ups -> Values]]
  /\ shrunk \in BOOLEAN /\ raised \in BOOLEAN

(* A name that one variable of the function has.                           *)
Unique(n) == Cardinality(LocalsOf(n)) + Cardinality(UpvaluesOf(n)) = 1

(* Until a field is assigned, every request leaves the stack as it was,    *)
(* however its expression failed, and all variables hold what the program  *)
(* or the client has assigned to them: those of unique names, and the      *)
(* registers that have none.  (Assigning a field lowers the top by two;    *)
(* one that raises leaves six values, which harm no register.)             *)
Restored ==
  ~shrunk =>
    /\ L.top >= Registers
    /\ ~raised => L.top = Registers
    /\ \A i \in Regs : LocalName[i] = None \/ Unique(LocalName[i]) =>
         L.reg[i] = meant.reg[i]
    /\ \A j \in Ups : Unique(UpvalueName[j]) => upvalue[j] = meant.up[j]

(* Until then, too, evaluating a unique name has the value that the        *)
(* program or the client has given to the variable, local or upvalue.      *)
SeesProgram ==
  LET n == answer.name
  IN  answer # NoAnswer /\ ~shrunk =>
        /\ \A i \in LocalsOf(n) : Unique(n) => answer.value = meant.reg[i]
        /\ \A j \in UpvaluesOf(n) : Unique(n) => answer.value = meant.up[j]

(* What makes them inductive: what lowers the top and what raises it, also *)
(* the one that a hook restores, and that an answer is one of this stop.   *)
Tops ==
  /\ ~shrunk => entry >= Registers /\ L.top >= Registers
  /\ ~raised => entry <= Registers /\ L.top <= Registers
  /\ stopped = No => answer = NoAnswer

IInv == TypeOK /\ Tops /\ Restored /\ SeesProgram

=============================================================================
