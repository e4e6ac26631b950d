------------------------------ MODULE VMThreads ------------------------------
(***************************************************************************)
(* The threads of a Lua VM as the debugger knows them (vm_registry.cpp,    *)
(* the callbacks of lua_statics.cpp) and the steps it offers over them     *)
(* (stepIn, stepOut and stepOver of debug_bridge.cpp).                     *)
(*                                                                         *)
(* A coroutine runs until it yields, ends or fails; whoever resumed it     *)
(* waits.  The VM tells nobody who resumed whom, so the debugger replaces  *)
(* coroutine.resume and the functions coroutine.wrap makes by its own,     *)
(* which keep the resumers on thread_stack_.  A step compares the depth of *)
(* the stack now, that of all resumers included, with the depth when it    *)
(* was asked for.                                                          *)
(*                                                                         *)
(* A thread stands for the address of its lua_State: the collector frees   *)
(* it, and the VM may use it again.  The mutex and the sessions are        *)
(* RunControl's; here a stop is one state.                                 *)
(***************************************************************************)
EXTENDS Integers, Sequences, FiniteSets, FiniteSetsExt

CONSTANTS
  Threads,   \* the addresses of threads
  Lines,     \* the lines of a function, each with its source
  MaxDepth   \* bound on the length of a thread's call stack

ASSUME LinesAssumption == Lines \subseteq Nat
ASSUME DepthAssumption == MaxDepth \in Nat

CLine    == -1            \* the currentline of a C function
NoThread == <<>>          \* nullptr

ASSUME AddressAssumption == NoThread \notin Threads

VARIABLES
  status,   \* of each address: what the VM uses it for
  frames,   \* the call stack of each thread: the line each call is at
  chain,    \* the threads that run: the one that runs last, and before
            \* each the one that waits for it
  at,       \* where the thread that runs is
  alive_threads_,
  thread_stack_,
  debugstep,               \* the VM's debugstep callback is installed
  single_step_processor_,  \* the kind of step and its old_ctx
  home,     \* the length of old_ctx.L_'s own call stack when the step began
  strayed,  \* old_ctx.L_ has stopped running since
  outside   \* code that no coroutine.resume links to it has run since, or
            \* ran then: a required module, or the host's next file

program  == <<status, frames, chain>>
registry == <<alive_threads_, thread_stack_>>
stepper  == <<debugstep, single_step_processor_>>
history  == <<home, strayed, outside>>
vars     == <<program, registry, stepper, history, at>>

(* How a thread came to run: by runFile, by coroutine.resume or a wrapped  *)
(* coroutine, by require.  base is the number of resumers that wait then.  *)
Link    == [thread : Threads, by : {"host", "resume", "require"}, base : Nat]
Context == [L : Threads, line : Lines \cup {CLine}, depth : Nat]
Step    == [kind : {"in", "out", "over"}, old_ctx : Context]
NoStep  == [kind |-> "none"]

RegistryOK ==
  /\ status \in [Threads -> {"free", "fresh", "active", "yielded", "done"}]
  /\ chain \in Seq(Link)
  /\ at \in {"hook", "exec", "unwinding", "stopped"}
  /\ alive_threads_ \subseteq Threads
  /\ thread_stack_ \in Seq(Threads)

TypeOK ==
  /\ RegistryOK
  /\ frames \in [Threads -> Seq(Lines \cup {CLine})]
  /\ debugstep \in BOOLEAN
  /\ single_step_processor_ \in Step \cup {NoStep}
  /\ home \in Nat /\ strayed \in BOOLEAN /\ outside \in BOOLEAN

Init ==
  /\ status = [t \in Threads |-> "free"]
  /\ frames = [t \in Threads |-> <<>>]
  /\ chain = <<>> /\ at = "exec"
  /\ alive_threads_ = {} /\ thread_stack_ = <<>>
  /\ debugstep = FALSE /\ single_step_processor_ = NoStep
  /\ home = 0 /\ strayed = FALSE /\ outside = FALSE

-----------------------------------------------------------------------------
(* vm_registry.cpp.                                                        *)

Top(s)     == s[Len(s)]
Cut(s, n)  == SubSeq(s, 1, Len(s) - n)
Running    == Top(chain).thread
Positions(L) == {k \in DOMAIN thread_stack_ : thread_stack_[k] = L}

(* Mutant: only the thread that runs has a parent.                         *)
GetParentOfRunning(L) ==
  IF Positions(L) # {} \/ thread_stack_ = <<>> THEN NoThread ELSE Top(thread_stack_)

(* A thread on the stack was resumed by the one before it; any other, by   *)
(* the last.                                                               *)
GetParent(L) ==
  IF Positions(L) # {}
  THEN IF Min(Positions(L)) = 1 THEN NoThread ELSE thread_stack_[Min(Positions(L)) - 1]
  ELSE IF thread_stack_ = <<>> THEN NoThread ELSE Top(thread_stack_)

(* The loop of getAncestors, which is in isChild and getStackDepth too.  It *)
(* goes down the stack and ends, as no thread is on it twice (ResumersWait,*)
(* ParentsFollowed).                                                       *)
GetAncestors(L) ==
  LET walk[n \in 0..Len(thread_stack_)] ==
        IF n = 0 THEN <<L>>
        ELSE LET p == GetParent(Top(walk[n - 1]))
             IN  IF p = NoThread THEN walk[n - 1] ELSE Append(walk[n - 1], p)
  IN  walk[Len(thread_stack_)]

IsChild(L, parent) ==
  \E k \in 2..Len(GetAncestors(L)) : GetAncestors(L)[k] = parent

(* Mutant: the depth within one thread only.                               *)
GetStackDepthOwn(L) == Len(frames[L])

(* The calls that the call stacks f have for all the threads ts.           *)
Calls(f, ts) ==
  LET depth[n \in 0..Len(ts)] ==
        IF n = 0 THEN 0 ELSE depth[n - 1] + Len(f[ts[n]])
  IN  depth[Len(ts)]

GetStackDepth(L) == Calls(frames, GetAncestors(L))

GetBreakContext(L) ==
  [L |-> L, line |-> Top(frames[L]), depth |-> GetStackDepth(L)]

(* Mutant: the callback does nothing when a thread is freed.               *)
MarkDeadNot(t) == UNCHANGED alive_threads_

(* The userthread callback: a thread is made, or freed.                    *)
MarkAlive(t) == alive_threads_' = alive_threads_ \cup {t}
MarkDead(t)  == alive_threads_' = alive_threads_ \ {t}

(* StackPusher's constructor and destructor.                               *)
PushStack(L) == thread_stack_' = Append(thread_stack_, L)
PopStack     == thread_stack_' = Cut(thread_stack_, 1)

-----------------------------------------------------------------------------
(* What the steps of the program are made of.                              *)

(* Mutant: a C function counts as being at line 0.                         *)
CFramesAtZero(by) == [i \in 1..(IF by = "resume" THEN 2 ELSE 1) |-> 0]

(* The C functions a thread is in while it waits for one it resumed by by: *)
(* the debugger's function and the one it forwards to, or require.         *)
CFrames(by) == [i \in 1..(IF by = "resume" THEN 2 ELSE 1) |-> CLine]

(* The thread that runs starts t, at line, or lets it go on; it waits.     *)
Run(t, by, line) ==
  /\ frames' = [frames EXCEPT ![Running] = @ \o CFrames(by),
                              ![t] = IF status[t] = "yielded" THEN @ ELSE <<line>>]
  /\ status' = [status EXCEPT ![t] = "active"]
  /\ chain' = Append(chain, [thread |-> t, by |-> by,
                             base |-> Top(chain).base + (IF by = "resume" THEN 1 ELSE 0)])

(* Mutant: StackPusher's destructor is passed over when a thread fails, as *)
(* by a longjmp.                                                           *)
PopUnlessUnwinding ==
  IF at # "unwinding" /\ Top(chain).by = "resume" THEN PopStack ELSE UNCHANGED thread_stack_

(* The debugger's resume function returns, or is unwound.                  *)
PopResumer ==
  IF Top(chain).by = "resume" THEN PopStack ELSE UNCHANGED thread_stack_

(* The thread that runs stops and keeps the calls left; the thread that    *)
(* waits for it goes on, from the resume or the require, at pc.            *)
Leave(new, left, pc) ==
  /\ status' = [status EXCEPT ![Running] = new]
  /\ frames' = IF Len(chain) = 1 THEN [frames EXCEPT ![Running] = left]
               ELSE [frames EXCEPT
                       ![Running] = left,
                       ![chain[Len(chain) - 1].thread] =
                          Cut(@, Len(CFrames(Top(chain).by)))]
  /\ chain' = Cut(chain, 1)
  /\ at' = IF Len(chain) = 1 THEN "exec" ELSE pc
  /\ PopResumer
  /\ strayed' = (strayed \/ (/\ single_step_processor_ # NoStep
                             /\ single_step_processor_.old_ctx.L = Running))
  /\ outside' = (outside \/ (single_step_processor_ # NoStep /\ Len(chain) = 1))
  /\ UNCHANGED <<alive_threads_, stepper, home>>

-----------------------------------------------------------------------------
(* The program: the host, and one instruction of the thread that runs.     *)

Executes == at = "exec" /\ chain # <<>>
LuaFrames(t) == {k \in DOMAIN frames[t] : frames[t][k] # CLine}

(* runFile.                                                                *)
RunFile(t, line) ==
  /\ chain = <<>> /\ status[t] = "free"
  /\ status' = [status EXCEPT ![t] = "active"]
  /\ frames' = [frames EXCEPT ![t] = <<line>>]
  /\ chain' = <<[thread |-> t, by |-> "host", base |-> 0]>>
  /\ at' = "hook"
  /\ MarkAlive(t)
  /\ UNCHANGED <<thread_stack_, stepper, history>>

(* Runtime::reset: the VM is released, closed, and another one made.       *)
Reset ==
  /\ chain = <<>>
  /\ status' = [t \in Threads |-> "free"]
  /\ frames' = [t \in Threads |-> <<>>]
  /\ alive_threads_' = {}
  /\ debugstep' = FALSE
  /\ UNCHANGED <<chain, thread_stack_, single_step_processor_, history, at>>

NextLine(line) ==
  /\ Executes
  /\ frames' = [frames EXCEPT ![Running] = Append(Cut(@, 1), line)]
  /\ at' = "hook"
  /\ UNCHANGED <<status, chain, registry, stepper, history>>

Call(line) ==
  /\ Executes /\ Len(frames[Running]) < MaxDepth
  /\ frames' = [frames EXCEPT ![Running] = Append(@, line)]
  /\ at' = "hook"
  /\ UNCHANGED <<status, chain, registry, stepper, history>>

Return ==
  /\ Executes /\ Len(frames[Running]) > 1
  /\ frames' = [frames EXCEPT ![Running] = Cut(@, 1)]
  /\ at' = "hook"
  /\ UNCHANGED <<status, chain, registry, stepper, history>>

(* coroutine.create.                                                       *)
NewThread(t) ==
  /\ Executes /\ status[t] = "free"
  /\ status' = [status EXCEPT ![t] = "fresh"]
  /\ MarkAlive(t)
  /\ at' = "hook"
  /\ UNCHANGED <<frames, chain, thread_stack_, stepper, history>>

(* The collector frees a thread, at any allocation.                        *)
Collect(t) ==
  /\ Executes /\ status[t] \in {"fresh", "yielded", "done"}
  /\ status' = [status EXCEPT ![t] = "free"]
  /\ frames' = [frames EXCEPT ![t] = <<>>]
  /\ MarkDead(t)
  /\ UNCHANGED <<chain, thread_stack_, at, stepper, history>>

(* coroutine.resume, or a function that coroutine.wrap made.               *)
Resume(t, line) ==
  /\ Executes /\ status[t] \in {"fresh", "yielded"}
  /\ PushStack(Running)
  /\ Run(t, "resume", line)
  /\ at' = "hook"
  /\ UNCHANGED <<alive_threads_, stepper, history>>

(* require resumes the thread of the module with lua_resume itself.        *)
Require(t, line) ==
  /\ Executes /\ status[t] = "free"
  /\ MarkAlive(t)
  /\ Run(t, "require", line)
  /\ outside' = (single_step_processor_ # NoStep)
  /\ at' = "hook"
  /\ UNCHANGED <<thread_stack_, stepper, home, strayed>>

(* A module must not yield: require raises an error then.                  *)
Yield ==
  /\ Executes
  /\ Leave("yielded", frames[Running],
           IF Top(chain).by = "require" THEN "unwinding" ELSE "hook")

(* The function of the thread returns.                                     *)
Finish ==
  /\ Executes /\ Len(frames[Running]) = 1
  /\ Leave("done", <<>>, "hook")

(* An error is raised.                                                     *)
Raise ==
  /\ Executes
  /\ at' = "unwinding"
  /\ UNCHANGED <<program, registry, stepper, history>>

(* A pcall of the thread that runs catches it.                             *)
Catch ==
  /\ at = "unwinding"
  /\ \E k \in LuaFrames(Running) :
       frames' = [frames EXCEPT ![Running] = SubSeq(@, 1, k)]
  /\ at' = "hook"
  /\ UNCHANGED <<status, chain, registry, stepper, history>>

(* None does: the thread is dead.  coroutine.resume returns the error,     *)
(* coroutine.wrap and require raise it again.                              *)
Unwind ==
  /\ at = "unwinding"
  /\ \E pc \in {"hook", "unwinding"} :
       /\ Top(chain).by = "require" => pc = "unwinding"
       /\ Leave("done", <<>>, pc)

-----------------------------------------------------------------------------
(* The debugger.                                                           *)

StepIn(old_ctx, L) == old_ctx # GetBreakContext(L)

StepOut(old_ctx, L) == GetBreakContext(L).depth < old_ctx.depth

(* Mutant: a stop in every thread.                                         *)
StepOverAnywhere(old_ctx, L) ==
  LET ctx == GetBreakContext(L)
  IN  \/ ctx.depth = old_ctx.depth /\ ctx.line # old_ctx.line
      \/ ctx.depth < old_ctx.depth

(* Mutant: a stop on the line where the step began.                        *)
StepOverSameLine(old_ctx, L) ==
  /\ ~(old_ctx.L \in alive_threads_ /\ status[old_ctx.L] = "yielded")
  /\ L = old_ctx.L \/ IsChild(old_ctx.L, L)
  /\ GetBreakContext(L).depth <= old_ctx.depth

StepOver(old_ctx, L) ==
  LET ctx == GetBreakContext(L)
  IN  /\ ~(old_ctx.L \in alive_threads_ /\ status[old_ctx.L] = "yielded")
      /\ L = old_ctx.L \/ IsChild(old_ctx.L, L)
      /\ \/ ctx.depth = old_ctx.depth /\ ctx.line # old_ctx.line
         \/ ctx.depth < old_ctx.depth

(* Without a processor the callback stops nowhere.                         *)
Processor(L) ==
  LET step == single_step_processor_
  IN  \/ step.kind = "in" /\ StepIn(step.old_ctx, L)
      \/ step.kind = "out" /\ StepOut(step.old_ctx, L)
      \/ step.kind = "over" /\ StepOver(step.old_ctx, L)

(* The debugstep callback, before each instruction.                        *)
Hook ==
  /\ at = "hook"
  /\ at' = IF debugstep /\ Processor(Running) THEN "stopped" ELSE "exec"
  /\ UNCHANGED <<program, registry, stepper, history>>

(* A breakpoint, or a pause.                                               *)
DebugBreak ==
  /\ Executes
  /\ at' = "stopped"
  /\ UNCHANGED <<program, registry, stepper, history>>

(* debug.break_here stops inside itself.                                   *)
BreakHere ==
  /\ Executes
  /\ frames' = [frames EXCEPT ![Running] = Append(@, CLine)]
  /\ at' = "stopped"
  /\ UNCHANGED <<status, chain, registry, stepper, history>>

(* The program goes on; out of break_here first.                           *)
GoOn ==
  /\ IF Top(frames[Running]) = CLine
     THEN frames' = [frames EXCEPT ![Running] = Cut(@, 1)] /\ at' = "hook"
     ELSE at' = "exec" /\ UNCHANGED frames
  /\ UNCHANGED <<status, chain, registry>>

Continue ==
  /\ at = "stopped"
  /\ debugstep' = FALSE /\ single_step_processor_' = NoStep
  /\ home' = 0 /\ strayed' = FALSE /\ outside' = FALSE
  /\ GoOn

(* processSingleStep, with the context of the stop.                        *)
TakeStep(kind) ==
  /\ at = "stopped"
  /\ debugstep' = TRUE
  /\ single_step_processor_' = [kind |-> kind, old_ctx |-> GetBreakContext(Running)]
  /\ home' = Len(frames[Running]) /\ strayed' = FALSE
  /\ outside' = \E i \in DOMAIN chain : chain[i].by = "require"
  /\ GoOn

-----------------------------------------------------------------------------
Host    == (\E t \in Threads, line \in Lines : RunFile(t, line)) \/ Reset
Threading ==
  \/ \E t \in Threads : NewThread(t) \/ Collect(t)
  \/ \E t \in Threads, line \in Lines : Resume(t, line) \/ Require(t, line)
  \/ Yield \/ Finish
Program == \/ \E line \in Lines : NextLine(line) \/ Call(line)
           \/ Return \/ Raise \/ Catch \/ Unwind
Debugger == \/ Hook \/ DebugBreak \/ BreakHere
            \/ Continue \/ \E kind \in {"in", "out", "over"} : TakeStep(kind)

Next == Host \/ Threading \/ Program \/ Debugger

Spec == Init /\ [][Next]_vars

-----------------------------------------------------------------------------
(* Properties.                                                             *)

(* The debugger holds a thread alive exactly while the VM has it at that   *)
(* address: isAlive guards the read of a freed thread's status, and the    *)
(* parents that getStackDepth and the stack trace read are not freed ones. *)
NothingDangles ==
  /\ alive_threads_ = {t \in Threads : status[t] # "free"}
  /\ \A k \in DOMAIN thread_stack_ : status[thread_stack_[k]] = "active"

(* No thread that runs is among the resumers, and none is twice: the loops *)
(* over getParent end, and isChild never names the thread that runs.       *)
ResumersWait ==
  /\ \A j, k \in DOMAIN thread_stack_ :
       thread_stack_[j] = thread_stack_[k] => j = k
  /\ chain # <<>> => Positions(Running) = {}

(* What makes them inductive.                                              *)

(* The threads of the chain are active, each of them once.                 *)
ChainActive ==
  /\ \A i \in DOMAIN chain : status[chain[i].thread] = "active"
  /\ \A i, j \in DOMAIN chain : chain[i].thread = chain[j].thread => i = j
  /\ at # "exec" => chain # <<>>

(* The first link is the host's; each resume adds one to the base.         *)
Bases ==
  /\ chain # <<>> => chain[1].by = "host" /\ chain[1].base = 0
  /\ \A i \in 2..Len(chain) :
       /\ chain[i].by \in {"resume", "require"}
       /\ chain[i].base = chain[i - 1].base + (IF chain[i].by = "resume" THEN 1 ELSE 0)
  /\ Len(thread_stack_) = IF chain = <<>> THEN 0 ELSE Top(chain).base

(* The thread pushed for a link is the one that waits for it, and nothing  *)
(* else is pushed.                                                         *)
Pushed ==
  /\ \A i \in 2..Len(chain) :
       chain[i].by = "resume" => /\ chain[i].base \in DOMAIN thread_stack_
                                 /\ thread_stack_[chain[i].base] = chain[i - 1].thread
  /\ \A k \in DOMAIN thread_stack_ :
       \E i \in 2..Len(chain) : chain[i].by = "resume" /\ chain[i].base = k

IInv == /\ RegistryOK /\ ChainActive /\ Bases /\ Pushed
        /\ alive_threads_ = {t \in Threads : status[t] # "free"}

(* The resumers of L: all that are on the stack below L's first place, or  *)
(* the whole stack.                                                        *)
Parents(L) ==
  {thread_stack_[j] : j \in {j \in DOMAIN thread_stack_ :
                               \A k \in Positions(L) : j < k}}

(* The loop over getParent ends, and comes to every resumer of a thread    *)
(* and to nothing else.                                                    *)
ParentsFollowed ==
  \A t \in Threads :
    {u \in Threads : \E k \in 2..Len(GetAncestors(t)) : GetAncestors(t)[k] = u}
      = Parents(t)

(* The stack trace goes on across every coroutine boundary: it lists the   *)
(* thread that runs and then each one's resumer.  A required module is not *)
(* resumed by coroutine.resume, and the trace misses who required it.      *)
TraceComplete ==
  chain # <<>> /\ (\A i \in DOMAIN chain : chain[i].by # "require")
    => GetAncestors(Running)
         = [i \in DOMAIN chain |-> chain[Len(chain) + 1 - i].thread]

Stepping(kind) == debugstep /\ single_step_processor_.kind = kind
Hooks(kind)    == at = "hook" /\ at' # "hook" /\ Stepping(kind)
Stops          == at' = "stopped"
Origin         == single_step_processor_.old_ctx

(* The call in which the step began is over, or its thread stopped.        *)
Left == strayed \/ Len(frames[Origin.L]) < home

(* A step over stops in the thread where it began, and never in the one    *)
(* that resumed it: the clause of stepOver that lets it is never true of a *)
(* thread that runs.                                                       *)
StepOverStays == [][Hooks("over") /\ Stops => Running = Origin.L]_vars

(* A step over does not stop in a call made from the one where it began,   *)
(* also when that call has yielded in between.                             *)
StepOverPassesYields ==
  [][Hooks("over") /\ Stops => Len(frames[Running]) <= home]_vars

(* As long as the thread has not stopped running in between, a step over   *)
(* stops at the first new line of its call, or in the caller.              *)
StepOverInFrame ==
  [][Hooks("over") /\ Running = Origin.L /\ ~strayed
     => (Stops <=> \/ Len(frames[Running]) < home
                   \/ /\ Len(frames[Running]) = home
                      /\ Top(frames[Running]) # Origin.line)]_vars

(* A step out stops as soon as the call where it began has been left, and  *)
(* not before, if only coroutines ran in between.                            *)
StepOutOnLeaving == [][Hooks("out") /\ ~outside => (Stops <=> Left)]_vars

=============================================================================
