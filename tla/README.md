# A formal model of luau-debugger

luau-debugger is a debugger for Luau programs: a C++ library a host links in
(`debugger/`), a sample host (`luaud/`) and a VS Code extension
(`extensions/vscode/`). The library speaks the Debug Adapter Protocol (DAP)
with an editor over one TCP connection, through the external cppdap library,
and drives the Luau VM through the callbacks the VM offers.

This directory holds TLA+ modules translated from that code, TLC
configurations that check them on small instances, and proofs that TLAPS
checks for every value of the constants. `PROJECT.json` maps each definition to
the lines it stands for.

To run a configuration: `tlc -config MCRunControl_control.cfg MCRunControl`.
To check the proofs: `tlapm RunControl_proofs.tla` (and `BreakPoints_proofs.tla`,
`Induction.tla`, `VMThreads_proofs.tla`, `VMSteps_proofs.tla`, `Variables_proofs.tla`, `Sessions_proofs.tla`,
`LuaStack_proofs.tla`).

## 1. The system and its parts

These kinds of thread exist: the **Lua thread** (the host's main thread, which
runs scripts and calls the debugger from VM callbacks), the **dispatch thread**
of each client's session (cppdap runs one request handler of `debugger.cpp` after
another on it), cppdap's **accept thread**, which makes a session for each client, and its
reader threads.

| part | code | state it keeps | operations |
|---|---|---|---|
| Run control | `debug_bridge.cpp`, `lua_statics.cpp`, `task_pool.h` | `break_mutex_`, `resume_cv_`, `session_cv_`, `resume_`, `main_fn_`, `break_vm_`, `session_`, `should_pause_`, `single_step_processor_`, `interrupt_tasks_`, the VM's `debugstep` callback | `onDebugBreak`, `mainThreadWait`, `executeInMainThread`, `resumeInternal`, `pause`, `interruptUpdate`, `onConnect`, `onDisconnect`, the handlers |
| Session lifecycle | `debugger.cpp` | `server_`, `session_`, `session_type_` | `listen`, `stop`, `closeSession`, `onClientConnected`, initialize/launch/attach/disconnect handlers |
| Breakpoints | `file.cpp`, `file.h`, `breakpoint.cpp`, parts of `debug_bridge.cpp` | `files_`, for each `File` its `breakpoints_` and `refs_`; the line marks inside the VM's functions | `setBreakPoints`, `onLuaFileLoaded`, `clearBreakPoints`, `findBreakPoint`, `hitBreakPoint` |
| VM registry and stepping | `vm_registry.cpp`, `lua_statics.cpp`, `stepIn/Over/Out` | `lua_vms_`, `alive_threads_`, `thread_stack_` | `markAlive/Dead`, `pushStack/popStack`, ancestors, depth, the step predicates |
| Variables and scopes | `variable_registry.cpp`, `variable.cpp`, `scope.h` | `variables_`, loaded fields, dirty scopes | `update`, `getVariables`, `setValue`, `registerVariables` |
| Stack frames and evaluation | `debug_bridge.cpp`, `lua_utils.cpp` | `stack_frames_` | `getStackTrace`, `getScopes`, `evaluate`, `evalWithEnv` |
| Lua stack discipline | `lua_utils.*`, `variable.cpp` | the Lua stack | `eval`, `pushBreakEnv`, `setLocal`, `setUpvalue`, `StackGuard` |
| File mapping | `file_mapping.h` | root, extension, entry path | `normalize`, `isEntryPath` |
| luaud runtime | `luaud/` | the require cache, the VM | `require`, `runFile`, `reset` |
| Formatting, types, logging | `lua_types.*`, `dap_utils.h`, `log.h` | none | wording only |
| VS Code extension | `extension.ts` | the child process | starts luaud and waits for its port |
| cppdap, the Luau VM | outside the repository | | modelled only by what `src/` relies on |

### How they interact

A request handler tests `isDebugBreak()` (under `break_mutex_`), and then, with no
lock held, reads the VM and the registries; this is sound only while the Lua
thread is parked in `mainThreadWait`. A handler that needs Lua to run sets
`main_fn_`, notifies `resume_cv_` and waits on the same condition variable until the
Lua thread has run the function. `setBreakPoints` and `onDisconnect` post a task that
the Lua thread takes at its next `interrupt` callback. The Lua thread sends events
through `session_`, which the dispatch thread sets and resets.

### What is hard in it

- fields shared with no lock: `session_`, `single_step_processor_`, `break_vm_`, `debugstep`;
- one condition variable for two threads with two predicates, `notify_one` throughout;
- the in-break test whose answer is used after the mutex has been given back;
- Lua code that runs while the Lua thread owns `break_mutex_` (conditions,
  `__tostring`, evaluated expressions) and may re-enter the debugger;
- a client that leaves, or breaks, at any moment, and one that returns;
- breakpoint changes that are acknowledged before they take effect;
- requested lines that are not code lines, scripts that load after their
  breakpoints, and load again.

### What makes each part correct

- **Run control**: nobody touches the VM while it runs; no wakeup is lost; the
  mutex is given back on every way out; a stop ends only when released and never
  abandons a function the dispatcher waits for; every handler returns; a pause ends in
  a stop; a client knows of a stop.
- **Breakpoints**: the VM stops exactly where the client's last list says, in every
  loaded copy of the script; with the condition it set; none is left after a
  disconnect.
- **VM registry and stepping**: parents and depth describe the chain of resumes;
  a step stops at the right place or not at all.
- **Variables**: what the client sees is the program's current values; a reference
  is never to a scope that is gone.
- **Lua stack discipline**: a request leaves the Lua stack as it found it, overwrites no
  register of the program, and evaluates names to the program's variables.
- **Sessions**: one client's handlers at a time, no pointer to a dead session or a closed VM,
  the process ended by the client who launched it only, a stop that terminates.

## 2. The modules

| module | models | next to it |
|---|---|---|
| `RunControl` | the stop/resume protocol of the Lua thread and the dispatcher | `MCRunControl`, `RunControl_proofs` |
| `BridgeContract` | what `RunControl` promises, without locks or condition variables | refined by `RunControl` |
| `BreakPoints` | the breakpoints of every script, the loaded copies and their marks | `MCBreakPoints`, `BreakPoints_proofs` |
| `VMThreads` | coroutines, the registry of threads, the three steps | `MCVMThreads`, `VMThreads_proofs`, `VMSteps_proofs` |
| `Variables` | stack frames, scopes, the registry of variables, assignments, evaluations | `MCVariables`, `Variables_proofs` |
| `Sessions` | the debugger's life, the sessions of successive clients, the host's VMs | `MCSessions`, `Sessions_proofs` |
| `LuaStack` | the Lua stack and the registers of the innermost frame, through every helper that pushes | `MCLuaStack`, `LuaStack_proofs` |
| `Induction` | nothing: induction over the naturals and the existence of a recursive function, for the proofs about loops | |

The components share only the moment of a stop and the moment a client comes or goes. `RunControl`
has who may act when within one session and abstracts what a handler computes; `Sessions` has several
sessions and abstracts what their handlers do, which must return for its liveness: `RunControl`'s
`HandlersReturn` says they do. `BreakPoints`, `VMThreads`, `Variables` and `LuaStack` have
what is computed and take a stop as one state, and in the last two a request as one step.

### RunControl

`lua` and `dap` are the program counters of the two threads. The Lua thread's run
through `onDebugBreak` (`debug_bridge.cpp:81-105`) and `mainThreadWait` (619-637)
is `lock`, `session` (the tests of `session_`), `hit` (the condition),
`send`, `enter`, `update`, `wait`, with `waiting` for a thread in the wait set of
`resume_cv_`, `entryWait` for one in that of `session_cv_`, and `exec` for one
that runs `main_fn_`. The dispatcher's counter names the next access to a shared field
in the handler it is in (`req`). A section that a dispatcher runs under
`break_mutex_` is one step, taken when the mutex is free: it neither blocks nor calls
out. Everything without the mutex is one step per access, and a null pointer that
is read twice may change in between (`Crash`). A wait set is a set of threads;
`NotifyOne` takes one of them out and `SpuriousWake` any of them at any time.

`interrupt_tasks_` is a sequence of breakpoint sets, as only the last decides what
the VM stops at; `armed` is that set. Which lines they are is `BreakPoints`' matter:
here `"entry"` and `"client"` tell the two break reasons apart.
`Nested...` actions are the callbacks that fire while Lua code runs inside a stop;
the constant `Hooks` says which of them that code can reach. `left` is a history variable that no
action reads: a client has disconnected, or another has come in its place.

`BridgeContract` has two variables: the VM is running, stopped or released, and a
job is none, asked for or served. `Stop`, `Release` and `Resume` move the VM, `Ask`, `Serve`
and `Answer` the job: a released VM does not run on before it has served the job it was asked for,
and no job is served while the VM runs. `RunControl!Contract` maps the fields onto it.

### BreakPoints

`breakpoints_` is `File::breakpoints_`, per path and line a condition and the
`target_line_` the VM reported. `loads` and `released` stand for the `LuaFileRef`s;
`marks` is the bit the VM keeps in each line of each copy, external to
the repository but set only through `enableBreakPoint`. `NextLine` and `Targets` say what
`lua_breakpoint` does with a line that has no code. `tasks` and `taken` are
`interrupt_tasks_`: `process()` swaps the whole vector out, then runs the tasks one by
one. `asked` is a history variable that no action reads: the breakpoints that marked the line of a break when it
was reached, with their conditions, whatever lists are applied while one of them is evaluated. `ApplyList` is `File::setBreakPoints` whole: the removal, the additions and
every `enable` they call.

### VMThreads

`chain` is the C stack of `lua_resume` calls: which thread waits for which, and
whether it resumed it by `coroutine.resume` (or a wrapped coroutine), by
`require`, or is the host. `frames` is each thread's call stack; a
C function counts, as it does in `lua_stackdepth`. `thread_stack_` is pushed and
popped by `StackPusher` only, so not for `require`. `at` says where the thread that runs
is: before the `debugstep` hook of an instruction, before the instruction, in
an error being raised, stopped. `home`, `strayed` and `outside` are history variables: they record
what the properties compare with and no action reads them; so is the field `base` of a link. The loop
over `getParent` is a recursive function (`GetAncestors`; `IsChild` and `GetStackDepth` have the same loop), as is
the sum of the depths along it (`Calls`). `Parents`, on the side of the properties, says in one set which
threads the loop should come to, and `ParentsFollowed` that it comes to those and no others. The null
pointer is not an address (`AddressAssumption`).

### Variables

`stop` is the call chain of the stop: the threads of `getAncestors` and the frames of each, Lua
or C, level 0 first. `store` is the program's memory: the local of each Lua frame, an upvalue and a
global they share, a field of each table. The debugger's side is `variables_` with the `loaded_` flag of the
scopes (`loaded`), and `stack_frames_`; the client's is the frame it was `shown` under each id and
the references it has `known`. The frames are numbered twice, as in the code: by `Frames`, the two
loops of `updateStackFrames` (over the threads, and in `FramesOf` over the levels of each, where C functions are
skipped), and by `Depth`, which counts for `fetch`. Code of the program that a request runs may change any variable (`Effects`), and may fail after
it did: an expression, and the metamethods met by it, by the update of the registry (`__tostring`) and by the
opening of a table (`LoadFields`: `__iter` and what it returns, `__getters`, `__tostring`). `Update` is
`VariableRegistry::update` whole, its `clearDirtyScopes` included, and part of the steps that end in
`invalidateVariables`; cppdap runs that callback before the next request. It shows the store as it was read, before
its own metamethods change it. `getVariables` refreshes nothing after the table it opens. `behind` is history: code has changed
the program and no update has followed. The client uses only references and frame ids it has got in this stop.

### Sessions

`main` and `accept` are the program counters of the host's thread and of cppdap's accept thread, `dispatch`
those of the sessions' dispatch threads. `session_` is a `unique_ptr` without a lock: `closeSession`
(`debugger.cpp:91`) and `onClientConnected` (118) each take the old pointer (`TakeOld`), store the
new one (`Store`), and delete the old object, whose destructor closes its inbox and joins its dispatch
thread (`Close`, `Joined`, `Free`; cppdap's, external). Handlers read `session_` again (153-154) and so
may see another session, or null. `object` is the state of each session, `bridge_session` the raw
pointer of `DebugBridge::session_`. A process that uses a freed or null object ends with the
fault as the value of `process`; so does one whose registry, as it is destroyed, writes to a VM that
was closed. The host follows `luaud/main.cpp`: it listens (and goes on if the port is taken), opens
and resets VMs, stops; the VMs are closed before the destructor of the debugger stops once more.
`said` is what a client has sent last; `mode`, `orphaned` and `late` are history: how a
client attached, that a session was replaced whose client had not left, and that the accept thread moved
while the debugger stopped.

### LuaStack

`L` is the stack of the thread that stopped: its `top` and the registers of the innermost frame, the lowest
cells. A push above `top` overwrites a cell; above the registers that is no matter, and only the height is
kept. `PushBreakEnv`, `Eval`, `SetLocal` and the others take a stack and return one; each request is
a composition of them that ends with the pops the code has. An `Evaluate` has any of
three outcomes (does not compile, raises, returns some results). The VM restores `top` when a hook
returns (`entry`) and does not after an `interrupt`, which is why what a stop leaves behind may last. `meant` is
history, the variables as the program and the client have set them; `shrunk` and `raised` say that a
field was assigned, and that such an assignment raised.

## 3. The runs

| run | question | instance |
|---|---|---|
| `control` | do the two threads keep the protocol, and never block each other for good? until a client leaves, is every stop announced and no null pointer used? | every request, a client that leaves and one that returns, spurious wakeups, every callback inside a stop; deadlock checked; script that never ends |
| `live` | does every handler return? does every pause end in a stop, or the client leave, or the program end? does a client without assignments never run code in a running program? | every request but `setVariable`, launched, the script may end |
| `break_in_eval` | *violated*: code run inside a stop reaches a breakpoint | `NoSelfLock` |
| `assign_running` | *violated*: `setVariable` while the program runs | `ExecuteOnlyInBreak` |
| `breakpoints` | do marks, lists and conditions agree? does an acknowledged list take effect? | a script whose lines all have code, loaded again with its first line commented out; another script that is never loaded |
| `shared_line` | *violated*: two breakpoints share a line with code | `EveryMark` |
| `stepping` | are parents the resumers, do steps stop where they should? | three addresses, two lines, two calls per thread |
| `step_over_yield` | *violated*: a step over a call that yields | `StepOverPassesYields` |
| `inspecting` | are scopes those of the frames shown, do references resolve, is what is shown current? | a coroutine stopped below a C function; `debug.break_here()`; two tables |
| `evaluated_elsewhere` | *violated*: a watch after `debug.break_here()` | `EvaluatedWhereShown` |
| `sessions` | one dispatcher at a time? what does each use of a dead object need? who ends the process? does `stop` return? | two clients, two VMs |
| `stack` | is the stack left as it was, and are the registers intact? does an expression see the program's variables? | four registers, two upvalues, shared and missing names |

**Bounds.** `MaxTasks = 2` in `RunControl` is the least at which a list and the clear of a
disconnect, or two lists, are pending together: only the last of them matters,
so longer queues have no new effect. In `BreakPoints` three lines are the least at which
a line is requested, skipped as it has no code, and shares its target with another; two copies are the
least at which a script is loaded before a list and again after it, in another VM; `MaxTasks` is 2, a
list and the clear of a disconnect, or the lists of two scripts. In `VMThreads` three
addresses allow a chain of three, and a chain of two with a third thread freed and
taken again; two Lua calls per thread tell "in the call", "in a
call made from it" and "in the caller" apart. Lines are interchangeable there, so two
suffice, and addresses are symmetric. In `Variables` the chain of two threads has a C
function between its Lua frames, and the chain of `break_here` one at level 0; `MaxFrames = 2` lets the client list the
first once and the second twice. Two tables, one with an `__iter` that may fail, hold each other or
themselves; scalars have no scope and add nothing but states. `Mutable` has code change the shared upvalue or a field, one
in a step: one that is read at once and one that is read when it is opened; locals and globals are read as the upvalue is, and
the theorems hold for every `Mutable`. In `Sessions` two clients are the least at which one
replaces another, with either at any point of its requests; the properties relate two sessions at a
time, and a third could only repeat what a second does to the first. `MaxQueue = 2` lets a request wait behind a disconnect
or a launch. In `LuaStack` four registers hold a unique name, a name twice, and a temporary; the
deepest use of the stack is eight cells, so that whatever happens above `MaxTop = 10` has happened below it.

**Deadlock** is checked in every passing run. A Lua thread that has locked the mutex it owns is a terminal state
of `RunControl` (`Terminated`) and the subject of `break_in_eval`, not of `control`; a process that has ended,
for whatever reason, is one of `Sessions` (`Ended`).

## 4. Fairness

`RunControl!Fairness`: weak fairness of the Lua thread's steps inside the debugger,
strong fairness of the dispatcher's steps inside a handler and of `Interrupt`. Both
threads are scheduled preemptively; code run inside a stop is assumed to
return. A dispatcher that wants `break_mutex_` is enabled only now and then while the
Lua thread takes it for break after break; `std::mutex` keeps no queue, so strong
fairness is an assumption about the scheduler, not a promise of the library. The VM calls
`interrupt` at loop back-edges, calls and returns, so a script that goes on
reaches it again and again. Clients, wakeups without cause and the choices of the script are not fair.

`BreakPoints!FairSpec` (run `breakpoints`) assumes strong fairness of `Interrupt` and weak fairness of the
tasks it has taken and of the evaluation of a condition. Nothing makes the client end a stop: a program
that is kept stopped keeps its lists pending, and `TakesEffect` says so.

`Sessions!FairSpec` (run `sessions`) assumes weak fairness of the main thread once it is in the debugger, of the accept
thread, and of each dispatch thread: each is a thread the operating system schedules, and a step of
theirs, once enabled, stays enabled until it is taken. No client has to connect, send or leave, and
no script to end: `StopReturns` begins when `stop` has been called.

## 5. The proofs

TLAPS checks, for every value of the constants:

- **`RunControl_proofs`**: `TypeOK`, and the inductive `IInv` with what it implies:
  mutex ownership, `NoLostWakeup`, `VMQuiescent`, the action property `LeavesReleased`, and
  `KeepsContract`, the step simulation of `BridgeContract`. The assumptions are those on the constants.
  `ClientTold` and `NoNullUsed` hold until a client leaves, for every set of callbacks; `ExecutesInBreak` for every
  client that assigns no variable.
  `VMQuiescent` is not inductive by itself: it needs that `resume_` is false only within a
  stop (`StopShape`), that `main_fn_` is set only for a dispatcher that waits
  (`JobShape`), that a handler beyond its in-break test keeps `resume_` false
  (`HandlerHolds`), and that a wait set holds only threads that wait there
  (`WaitersParked`).
- **`BreakPoints_proofs`**: the type invariant; `NoStrays` and `LastWins` for all scripts;
  `AllMarked` for every copy of a script all of whose lines have code (`EveryLineHasCode`), whatever the
  other copies are; without that condition it is false, as `shared_line` shows. `ConditionsHeld` holds
  for every copy. Its invariant, `HitAsked`, says that while a condition is evaluated it is still the one
  of a breakpoint that marked the line when it was reached. That a stop without a condition was asked for comes from `NoStrayMark`.
- **`Induction`**: what the proofs about loops rest on. `Induct` is induction over the naturals with a set in
  place of a predicate, from the well-foundedness of `<` on them; `RecursiveExists` says that a recursive function over
  `0..n` exists. Both are stated for sets and functions, and can be cited where the library's theorems, which take an operator as a
  parameter, cannot. The recursive functions of the models run over `0..n`, so what each computes is a lemma by these two.
- **`VMThreads_proofs`**: `Invariance`, for any number of addresses: the chain's threads are
  active and distinct, each resume adds one to `base`, and `thread_stack_` at that
  height is the thread that waits. From it: no dangling thread (`Alive`) and no
  thread that runs, or is twice, on the stack of resumers (`Waiting`). `AncestorsAre` is what the loop over `getParent`
  returns then, by induction over its rounds: the thread, and the stack below its first place from the top down. Hence
  `Followed` (the loop ends, at the right threads) and `Complete` (while nothing is required, the stack trace
  is the chain).
- **`VMSteps_proofs`**: `Types`, `StaysInThread`, `OverInFrame` and `OutOnLeaving`, for any number of lines and any depth of
  calls. `Shape` says what each call stack looks like: who waits is in the C functions of its resume or require, who
  runs in none. Steps compare depths, which are sums over a chain of any length; `Calls` is what the
  recursive function computes, and lemmas say when the sum over the resumers below a thread stays as it was. `HasPlace`, the
  invariant behind the step over: until `old_ctx.L_` stops running it has a place in the chain, and `old_ctx.depth_` is
  `home` and the calls of the resumers below that place. So the test of depths is one of the thread's own calls.
  `OutOK`, behind the step out: while only coroutines run, the thread where the step began has at least the calls it had
  then, two C functions more while it waits; and once it has stopped, the depth is below `old_ctx.depth_`
  at the next hook, where the step ends. `StaysInThread`: `isChild` is false of every thread that runs.
- **`Variables_proofs`**: `Whole` and `Fresh`, inductive together. An update leaves no variable as it was,
  because the registry has no scope but those of the stop's frames, which it reads, and tables, which it
  drops; what is added between updates is unread, because a table that was read is registered.
  `FramesAgree`: the two numberings give a frame the same depth, for any chain of threads and any Lua and C functions in
  each. `FramesListed` has it by two inductions, over the levels of a thread and over the threads: the traversal
  lists each Lua frame once, after just those that `Depth` counts. `Inspected` adds to the two invariants that
  each id the client has is of a frame of this stop with that depth (`FramesOK`) and that each scope of a frame has that
  frame's local (`LocalsOK`), which gives `FramesAgree`, `Resolve` (no reference is to a scope that is gone) and `Types`.
- **`Sessions_proofs`**: `TypeCorrect`, `OneAtATime`, `ExitsAsLaunched`, `NoClosedVM`, `FaultsNeed`, for any number
  of clients and VMs. `OneDispatcher` is not inductive by itself: `Arriving` says where the session that is being made is while
  the accept thread goes along, `Single` which session may still be served meanwhile, and `TypeOfServed` that
  `session_type_` is what the one that is served asked for. `VMsOpen` is the invariant behind `NoClosedVM`.
  `FaultsNeed` rests on `FaultInv`, one conjunct for each way to hold a session: `Owned`, who may delete it;
  `Served`, who still waits for its thread, so that none outlives the bridge; `Queues`, that a disconnect is the last
  request of an inbox; and `Connected`, that the bridge's session is that of a client who is served and has not left,
  or has just taken its place. The last holds until a session is replaced whose client had not left: a thread
  empties its inbox before it ends, so a client that did leave has taken the bridge's pointer back by then.
- **`LuaStack_proofs`**: `TypeCorrect`, `StackRestored`, `ProgramSeen`, for any number of registers, upvalues
  and results. `Tops` is what they need: until a field is assigned nothing brings the top, or the one that a hook restores,
  below the registers, and until an assignment raises nothing leaves it above them. Each helper has a lemma
  of what it does to the height and to the registers at or below it, and each request is proved from those.

Every invariant of a passing run, and every action property, is a theorem. Only model-checked is all
liveness: `HandlersReturn`, `EntryReleased`, `PauseHonoured`, `FulfilsContract` (the contract with its fairness; without it
the refinement is a theorem), `TakesEffect` and `StopReturns`. The prover has no support for fairness and `ENABLED`. The
four violated properties that no condition makes true (`NoSelfLock`, `EveryMark`, `StepOverPassesYields`,
`EvaluatedWhereShown`) are TLC's counterexamples; the fifth, `ExecuteOnlyInBreak`, is a theorem for clients that assign no
variable.

## 6. What the code does not do

Met while modelling, and visible in the models:

- **Break inside a stop** (`break_in_eval`): a breakpoint, `debug.break_here()` or a pending
  pause in code that runs inside a stop makes the Lua thread lock the mutex it owns. A late
  pause can do the same alone: the pause flag is set after the in-break test, outside the lock
  (`debug_bridge.cpp:235-239`), so it may be found by the next evaluated expression.
- **Assignment while running** (`assign_running`): out of a stop `setVariable` answers success,
  and its sent-callback then hands a function to a program that runs; the dispatcher waits
  until the next stop.
- **Orphan stop**: `onDisconnect` resumes the program before it resets `session_`, without the
  lock; a break in between parks the program with no client to release it, until one connects.
- **Null pointers on disconnect**: `session_` and `single_step_processor_` are tested and used
  by the Lua thread without the lock the dispatcher does not take either (`debug_bridge.cpp:102`,
  `550`, `lua_statics.cpp:74-75`).
- **Reconnecting while stopped**: a client that follows a broken connection is not sent the
  event of the current stop.
- **Shared lines** (`shared_line`): removing a breakpoint unmarks a line that another one shares.
- **Condition on a line without code**: `findBreakPoint` looks the line of the break up among the
  lines that were requested, so the condition of a breakpoint that moved is not asked.
- **Leftover breakpoints**: only a disconnect request clears them; a broken connection leaves them.
- **The entry breakpoint** is an ordinary breakpoint on line 1. Setting one there again replaces it
  and forgets `target_line_`; loading the entry again drops the client's condition on line 1.
- **Step over and yields** (`step_over_yield`): absolute depths are compared across different resumers.
- **Step over out of a coroutine**: the resumer is not on `thread_stack_` while it runs, so the clause
  `isChild(old_ctx.L_, L)` never admits it (theorem `StaysInThread`) and the program runs on.
- **Required modules**: `require` resumes its thread itself, so the stack trace of a module misses who
  required it, and a step out of a function that requires a module stops in the module.
- **Addresses**: a new coroutine at the address of a dead one is taken for it by a pending step over.
- **Evaluation in another frame** (`evaluated_elsewhere`): the id of a frame is used as a level of the Lua
  stack. They differ below a C function, in the frames of the threads that wait, and after a second
  stack trace of the stop. With an id that was never given out, `evalWithEnv` asserts, logs and reads
  past `stack_frames_` (`debug_bridge.cpp:491-492`).
- **Stale variables**: an expression that fails, and one of a watch, may have changed the program; the
  registry is not updated then. Nor is it after a table was opened, whose `__iter`, iterator, getters and `__tostring`
  (`variable.cpp:23`, `184`, `200`, `237`) may change tables that are shown already, nor for what the `__tostring`
  metamethods of an update itself change after it has been read. `CacheFresh` holds up to that (`behind`).
- **Assigning a field** takes two values more off the Lua stack than it has put there
  (`variable.cpp:76-106`): the branch of tables pops the environment and the value, and the
  last line pops two again. The top is then within the registers of the frame, and the next expression that is evaluated
  overwrites the last of the program's locals (`SetField`, `shrunk`). A hook that returns restores
  the top, not the registers; a stop that was a pause does not even restore the top.
- **Assigning a field that raises** (a readonly table, `variable.cpp:88`) leaves six values on the stack, since
  `setVariable` only catches the error (`SetFieldFails`, `raised`). Where a metamethod raises, the call it was in
  is left open as well; that is not modelled.
- **Names that two variables share**: an expression sees the last upvalue of the name, else the last local
  (`lua_utils.cpp:91-108`); an assignment goes to the first (116-157). An upvalue hides a local that shadows it.
- **A client that connects while the debugger stops**: `stop` closes the session before it stops the server. The new session may
  be the one `closeSession` deletes, so that `onClientConnected` goes on with a null pointer; both threads may delete
  the same session; or it lives on and its handlers use the bridge after it is gone (`late`).
- **A session that was replaced**: when a connection breaks and another client connects, the bridge still has the raw
  pointer of the session that was freed, until the new client has initialized; what the program prints or stops
  at in between is sent through it (`orphaned`).
- **initialize while the debugger stops**: the sent-callback reads `session_` (`debugger.cpp:153-154`) that `closeSession` has set to
  null while it waits for that callback.

## 7. The plan

What a later extension could add, in this order:

1. `Variables`: keys that collide, and the frame a field's new value is evaluated in; a client that evaluates
   before any stack trace of the stop (`debug_bridge.cpp:491`).
2. `VMThreads` with several VMs, whose steps share one predicate.
3. Step simulation for `BreakPoints` by an abstract "set of stops".

Not modelled, and why: formatting, type names and logging (no state); file mapping and the VS Code
extension (strings and a child process: pure functions of the environment); cppdap and the VM's
interpreter (outside the repository; modelled by what `src/` relies on); what `require` caches and reads; several VMs at once in
`VMThreads` (the stack of resumers and the step are shared by all VMs, which matters only
to a host that nests one VM's run in another's).
