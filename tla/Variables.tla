------------------------------ MODULE Variables ------------------------------
(***************************************************************************)
(* What a client sees of a stopped program and how it changes it: stack    *)
(* frames, scopes, variables, assignments and evaluations (getStackTrace   *)
(* to setVariable, evaluate, updateStackFrames and mainThreadWait of       *)
(* debug_bridge.cpp; variable_registry.cpp, variable.cpp, scope.h,         *)
(* lua_utils.cpp).                                                         *)
(*                                                                         *)
(* The frames of a stop are listed twice: updateStackFrames numbers them   *)
(* for the client, the variable registry numbers them again to name the    *)
(* scopes it fills.  The registry is a cache: locals, upvalues and globals *)
(* are read when the program stops, the fields of a table when the client  *)
(* opens it, and all is read or dropped again after an assignment or an    *)
(* expression of the debug console.  Reading runs code of the program too  *)
(* (__tostring, __iter and what it returns, __getters), and that code may  *)
(* change what has been read.                                              *)
(*                                                                         *)
(* Each Lua frame has one local, all functions share one upvalue and one   *)
(* global, each table has one field; userdata are tables.  A Lua value is  *)
(* a scalar or a table.  The key of a scope, a hash in the code, is the    *)
(* scope itself.  What an iterator or a getter returns is the table's      *)
(* field.  Who may call a handler and when is RunControl's; here a  *)
(* request is one step of a stopped program.  What the helpers leave on    *)
(* the Lua stack is left out.                                              *)
(***************************************************************************)
EXTENDS Integers, Sequences, FiniteSets

CONSTANTS
  Threads,    \* the Lua threads
  Scalars,    \* the values without fields
  Tables,     \* the tables and userdata, by address
  Iterated,   \* those with an __iter metamethod, which may raise an error
  Stops,      \* the call chains the program stops with
  Mutable,    \* the kinds of variables that code run by a request changes
  MaxFrames   \* bound on the frames a client lists in a stop

ASSUME ValuesAssumption == Scalars \cap Tables = {} /\ Iterated \subseteq Tables
ASSUME BoundAssumption == MaxFrames \in Nat

(* A chain: the thread that stopped, then those that wait for it, as       *)
(* getAncestors lists them; calls has the frames of each, level 0 first.   *)
ASSUME StopsAssumption ==
  \A s \in Stops :
     /\ s.chain \in Seq(Threads) /\ s.chain # <<>>
     /\ s.calls \in Seq(Seq({"Lua", "C"})) /\ Len(s.calls) = Len(s.chain)

VARIABLES
  stop,          \* the call chain, or Running
  store,         \* what each variable of the program holds
  variables_,    \* the registry: of each scope, the variables shown
  loaded,        \* the tables whose fields have been read (Scope::loaded_)
  stack_frames_,
  shown,         \* the frame the client was shown under each id
  known,         \* the scopes the client has a reference to
  behind         \* the program has changed since the registry was read

cache  == <<variables_, loaded>>
client == <<stack_frames_, shown, known>>
vars   == <<stop, store, cache, client, behind>>

Running == [chain |-> <<>>, calls |-> <<>>]    \* break_vm_ = nullptr
NoFrame == <<0, 0>>
Value   == Scalars \cup Tables

-----------------------------------------------------------------------------
(* The program, stopped with the call chain c.  A frame is a position in   *)
(* the chain and a level; a place is where the program has a variable.     *)

AllFrames(c) == UNION {{i} \X (0 .. Len(c.calls[i]) - 1) : i \in DOMAIN c.chain}
IsLua(c, f)  == c.calls[f[1]][f[2] + 1] = "Lua"
LuaFrames(c) == {f \in AllFrames(c) : IsLua(c, f)}

LocalOf(c, f) == <<"local", c.chain[f[1]], f[2]>>
Upvalue       == <<"upvalue", "shared">>
Global        == <<"global", "shared">>
Field(t)      == <<"field", t>>
Places(c)     == {LocalOf(c, f) : f \in LuaFrames(c)} \cup {Upvalue, Global}
                   \cup {Field(t) : t \in Tables}

(* What code of the program may leave of a store: an expression, and the   *)
(* metamethods run to read, show or assign a value.  It may change a       *)
(* variable of any kind (a local by a closure), here one at a time.        *)
Effects(held) ==
  {held} \cup {[held EXCEPT ![p] = v] : p \in {q \in DOMAIN held : q[1] \in Mutable},
                                        v \in Value}

-----------------------------------------------------------------------------
(* Scopes and the registry.                                                *)

getLocalScope(src, depth)   == <<"locals", src, depth>>
getUpvalueScope(src, depth) == <<"upvalues", src, depth>>
getGlobalScope              == <<"globals", "all">>
TableScope(t)               == <<"table", t>>

IsTable(s)  == s[1] = "table"
isLoaded(s) == IsTable(s) => s[2] \in loaded

(* Variable::Variable: the value as it is read, and where a later          *)
(* assignment goes: L_ and level_.                                         *)
Variable(p, held) == [at |-> p, value |-> held[p]]

(* Variable::addScope: a value with fields has a scope of its own.         *)
ScopesOf(variables) == {TableScope(t) : t \in {v.value : v \in variables} \cap Tables}

(* registerVariables, of scopes whose fields are to be read: those that    *)
(* are registered keep what they have.                                     *)
Registered(added) ==
  [s \in DOMAIN variables_ \cup added |->
     IF s \in DOMAIN variables_ THEN variables_[s] ELSE {}]

Earlier(g, f) == g[1] < f[1] \/ (g[1] = f[1] /\ g[2] < f[2])

(* Mutant: frames of C functions count too.                                *)
DepthWithC(c, f) == Cardinality({g \in AllFrames(c) : Earlier(g, f)})

(* fetch: depth_ counts the frames of Lua functions from the thread that   *)
(* stopped up through the chain.                                           *)
Depth(c, f) == Cardinality({g \in LuaFrames(c) : Earlier(g, f)})
Src(c)      == c.chain[1]

FetchFromStack(c, f, held) ==
  {<<getLocalScope(Src(c), Depth(c, f)), Variable(LocalOf(c, f), held)>>,
   <<getUpvalueScope(Src(c), Depth(c, f)), Variable(Upvalue, held)>>}
FetchGlobals(held) == {<<getGlobalScope, Variable(Global, held)>>}
Fetched(c, held) ==
  FetchGlobals(held) \cup UNION {FetchFromStack(c, f, held) : f \in LuaFrames(c)}

(* Mutant: the scopes of tables are dropped.                               *)
ForgetDirtyScopes(registry) ==
  /\ variables_' = [s \in {x \in DOMAIN registry : ~IsTable(x)} |-> registry[s]]
  /\ loaded' = {}

(* Mutant: fields stay as they were read.                                  *)
KeepDirtyScopes(registry) == variables_' = registry /\ UNCHANGED loaded

(* clearDirtyScopes leaves the scopes of tables without fields, to be read *)
(* again when the client opens them.                                       *)
ClearDirtyScopes(registry) ==
  /\ variables_' = [s \in DOMAIN registry |-> IF IsTable(s) THEN {} ELSE registry[s]]
  /\ loaded' = {}

(* VariableRegistry::update, over what the registry holds: the program's   *)
(* variables are read as held, and the __tostring metamethods called on    *)
(* the way may change them afterwards.                                     *)
Update(c, registry, held) ==
  LET fetched == Fetched(c, held)
      seen    == ScopesOf({e[2] : e \in fetched})
      entries == [s \in DOMAIN registry \cup {e[1] : e \in fetched} \cup seen |->
                    LET now == {e \in fetched : e[1] = s}
                    IN  IF now # {} THEN {e[2] : e \in now}
                          ELSE IF s \in DOMAIN registry THEN registry[s] ELSE {}]
  IN  /\ ClearDirtyScopes(entries)
      /\ store' \in Effects(held)
      /\ behind' = (store' # held)

(* Code of the program has run, and no update after it.                    *)
Unrefreshed == behind' = (behind \/ store' # store)

-----------------------------------------------------------------------------
(* Stops.                                                                  *)

Init ==
  /\ stop = Running /\ store = <<>>
  /\ variables_ = <<>> /\ loaded = {}
  /\ stack_frames_ = <<>> /\ shown = <<>> /\ known = {}
  /\ behind = FALSE

(* The program stops, with any values: mainThreadWait, to its first wait.  *)
MainThreadWait ==
  /\ stop = Running
  /\ \E c \in Stops :
       /\ stop' = c
       /\ \E held \in [Places(c) -> Value] : Update(c, <<>>, held)
  /\ UNCHANGED client

(* Mutant: the frames of the stop are kept.                                *)
ResumeWithFrames ==
  /\ stop # Running
  /\ stop' = Running /\ store' = <<>>
  /\ variables_' = <<>> /\ loaded' = {} /\ behind' = FALSE
  /\ shown' = <<>> /\ known' = {} /\ UNCHANGED stack_frames_

(* Mutant: the variables of the stop are kept.                             *)
ResumeWithVariables ==
  /\ stop # Running
  /\ stop' = Running /\ store' = <<>> /\ behind' = FALSE
  /\ stack_frames_' = <<>> /\ shown' = <<>> /\ known' = {} /\ UNCHANGED cache

(* The client resumes it: the rest of mainThreadWait.  What the client was *)
(* shown and given ends with the stop.                                     *)
Resume ==
  /\ stop # Running
  /\ stop' = Running /\ store' = <<>>
  /\ variables_' = <<>> /\ loaded' = {}
  /\ stack_frames_' = <<>> /\ shown' = <<>> /\ known' = {}
  /\ behind' = FALSE

-----------------------------------------------------------------------------
(* Requests for what the program holds.                                    *)

(* The loop of updateStackFrames over the levels of the i-th thread of the *)
(* chain, after those before it.                                           *)
FramesOf(c, i, before) ==
  LET frames[level \in 0 .. Len(c.calls[i])] ==
        IF level = 0 THEN before
        ELSE IF c.calls[i][level] = "C" THEN frames[level - 1]
        ELSE Append(frames[level - 1], <<i, level - 1>>)
  IN  frames[Len(c.calls[i])]

(* updateStackFrames, from the thread that stopped on through getParent.   *)
Frames(c) ==
  LET frames[i \in 0 .. Len(c.chain)] ==
        IF i = 0 THEN <<>> ELSE FramesOf(c, i, frames[i - 1])
  IN  frames[Len(c.chain)]

GetStackTrace ==
  /\ stop # Running
  /\ Len(shown) + Len(Frames(stop)) <= MaxFrames
  /\ shown' = shown \o Frames(stop)
  /\ stack_frames_' =
       stack_frames_ \o [n \in DOMAIN Frames(stop) |-> [L |-> Src(stop), depth |-> n - 1]]
  /\ UNCHANGED <<stop, store, cache, known, behind>>

(* The ids of the frames, from 0, as positions of stack_frames_.           *)
GetScopes(id) ==
  /\ stop # Running
  /\ id \in DOMAIN stack_frames_
  /\ known' = known \cup
       LET frame == stack_frames_[id]
       IN  {getLocalScope(frame.L, frame.depth), getUpvalueScope(frame.L, frame.depth),
            getGlobalScope}
  /\ UNCHANGED <<stop, store, cache, stack_frames_, shown, behind>>

(* Variable::loadFields, of a table or of a userdata.  The metamethods it  *)
(* calls may change the program before or after the field is read; an      *)
(* __iter that raises an error ends it with the fields so far, here none.  *)
LoadFields(s) ==
  /\ store' \in Effects(store)
  /\ \E fields \in {{Variable(Field(s[2]), held)} : held \in {store, store'}}
                      \cup {{} : t \in Iterated \cap {s[2]}} :
       /\ variables_' = [Registered(ScopesOf(fields)) EXCEPT ![s] = fields]
       /\ loaded' = loaded \cup {s[2]}

(* getVariables: what is shown lets the client ask for more.  Nothing else *)
(* is read again, whatever code the opening of a table has run.            *)
GetVariables(s) ==
  /\ stop # Running
  /\ s \in known \cap DOMAIN variables_
  /\ IF isLoaded(s) THEN UNCHANGED <<store, cache>> ELSE LoadFields(s)
  /\ Unrefreshed
  /\ known' = known \cup ScopesOf(variables_'[s])
  /\ UNCHANGED <<stop, stack_frames_, shown>>

-----------------------------------------------------------------------------
(* Requests that run code of the program.                                  *)

(* setLocal, setUpvalue, lua_settable.                                     *)
Written(place, v) == {[after EXCEPT ![place] = v] : after \in Effects(store)}

(* Variable::setValue, when its expression has a value: it is written at   *)
(* L_ and level_, after what the expression did.  A global cannot be       *)
(* assigned.                                                               *)
Assigned(variable) ==
  IF variable.at = Global THEN {} ELSE UNION {Written(variable.at, v) : v \in Value}

(* setVariable and invalidateVariables.  The scope must hold the variable: *)
(* that of a table does only after the client has opened it.  An           *)
(* expression without a value assigns nothing; the code it runs, and the   *)
(* write to a table, may raise an error, and then nothing is updated.      *)
SetVariable(s) ==
  /\ stop # Running
  /\ s \in known \cap DOMAIN variables_
  /\ \E variable \in variables_[s] :
       \/ \E held \in Effects(store) \cup Assigned(variable) : Update(stop, variables_, held)
       \/ store' \in Effects(store) /\ Unrefreshed /\ UNCHANGED cache
  /\ UNCHANGED <<stop, client>>

(* pushBreakEnv, called with the id of a frame as the level and the thread *)
(* listed with it: the frame whose variables the expression sees.          *)
EvaluatedIn(id) ==
  IF id <= Len(stop.calls[1]) /\ stack_frames_[id].L = Src(stop) THEN <<1, id - 1>> ELSE NoFrame

(* evaluate, in a frame the client was shown; without an environment it    *)
(* does nothing.  The result may be a table, which gets a scope; an        *)
(* expression of the debug console is followed by invalidateVariables.     *)
Evaluate(id, context) ==
  /\ stop # Running
  /\ id \in DOMAIN stack_frames_
  /\ EvaluatedIn(id) # NoFrame
  /\ \/ \E result \in {{}} \cup {{TableScope(t)} : t \in Tables} :
          /\ known' = known \cup result
          /\ \/ /\ context = "repl"
                /\ \E held \in Effects(store) : Update(stop, Registered(result), held)
             \/ /\ context = "watch"
                /\ store' \in Effects(store) /\ Unrefreshed
                /\ variables_' = Registered(result) /\ UNCHANGED loaded
     \/ store' \in Effects(store) /\ Unrefreshed /\ UNCHANGED <<cache, known>>   \* an error
  /\ UNCHANGED <<stop, stack_frames_, shown>>

Next ==
  \/ MainThreadWait
  \/ Resume
  \/ GetStackTrace
  \/ \E id \in 1 .. MaxFrames :
       \/ GetScopes(id)
       \/ \E context \in {"repl", "watch"} : Evaluate(id, context)
  \/ \E s \in known : GetVariables(s) \/ SetVariable(s)

Spec == Init /\ [][Next]_vars

-----------------------------------------------------------------------------
Scope == ({"locals", "upvalues"} \X Threads \X Nat) \cup {getGlobalScope}
           \cup {TableScope(t) : t \in Tables}

(* The types of the variables; the registry and the frames have one entry  *)
(* for each frame the client was shown.                                    *)
TypeOK ==
  /\ stop \in Stops \cup {Running}
  /\ store \in [Places(stop) -> Value] \/ stop = Running
  /\ DOMAIN variables_ \subseteq Scope
  /\ \A s \in DOMAIN variables_ : \A v \in variables_[s] :
        v.at \in DOMAIN store /\ v.value \in Value
  /\ loaded \subseteq Tables /\ known \subseteq Scope
  /\ Len(stack_frames_) = Len(shown)
  /\ stack_frames_ \in Seq([L : Threads, depth : Nat])
  /\ behind \in BOOLEAN

(* The two numberings agree: the local variables behind the scope of a     *)
(* frame are those of the frame the client was shown, across C functions,  *)
(* coroutines and repeated stack traces (updateStackFrames, getScopes and  *)
(* VariableRegistry::fetch).                                               *)
ScopesOfFrames ==
  \A id \in DOMAIN shown :
     LET s == getLocalScope(stack_frames_[id].L, stack_frames_[id].depth)
     IN  s \in DOMAIN variables_ /\ \A v \in variables_[s] : v.at = LocalOf(stop, shown[id])

(* Every reference the client was given in this stop resolves until the    *)
(* program goes on, whatever was assigned or evaluated since (addScope,    *)
(* evalWithEnv, clearDirtyScopes).                                         *)
ReferencesResolve == known \subseteq DOMAIN variables_

(* The variables shown are those the program has now, through other frames *)
(* and other tables too, unless code of the program has changed one with   *)
(* no update after it: code of an expression that failed or that a watch   *)
(* ran, or a metamethod that ran to read the registry or open a table.     *)
(* Every successful assignment or evaluation in the console reads or drops *)
(* what was shown before.  Nothing is shown as read and empty but a table  *)
(* whose __iter failed.                                                    *)
CacheFresh ==
  \A s \in DOMAIN variables_ : isLoaded(s) =>
     /\ behind \/ \A v \in variables_[s] : v.value = store[v.at]
     /\ variables_[s] = {} => IsTable(s) /\ s[2] \in Iterated

(* The registry is whole: it has the scopes of all frames of the stop and, *)
(* besides, only tables, so that an update leaves no variable as it was;   *)
(* every table that is shown or has been read is among them (addScope,     *)
(* registerOrUpdateVariables).                                             *)
ScopesOfStop(c) ==
  {getGlobalScope} \cup {getLocalScope(Src(c), Depth(c, f)) : f \in LuaFrames(c)}
    \cup {getUpvalueScope(Src(c), Depth(c, f)) : f \in LuaFrames(c)}

RegistryWhole ==
  IF stop = Running THEN variables_ = <<>> /\ loaded = {}
    ELSE /\ ScopesOfStop(stop) \subseteq DOMAIN variables_
         /\ DOMAIN variables_ \subseteq ScopesOfStop(stop) \cup {TableScope(t) : t \in Tables}
         /\ {TableScope(t) : t \in loaded} \subseteq DOMAIN variables_
         /\ \A s \in DOMAIN variables_ : ScopesOf(variables_[s]) \subseteq DOMAIN variables_

(* An expression is evaluated in the frame the client chose among those it *)
(* was shown ("Repl", "Watch" and "Hover" of extensions/vscode/README.md). *)
EvaluatedWhereShown == \A id \in DOMAIN shown : EvaluatedIn(id) = shown[id]

=============================================================================
