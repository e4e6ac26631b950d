----------------------------- MODULE RunControl -----------------------------
(***************************************************************************)
(* The stop/resume protocol of DebugBridge (debugger/src/internal/         *)
(* debug_bridge.cpp): how the thread that runs Lua parks itself when the   *)
(* program stops, how the thread that handles the client's requests makes  *)
(* it run a function of its choice while it is parked, and how it lets it  *)
(* go.  Two threads take steps:                                            *)
(*                                                                         *)
(*  - "lua", the thread that runs the scripts and calls the debugger from  *)
(*    the VM's callbacks (lua_statics.cpp);                                *)
(*  - "dap", the dispatch thread of the client's session, which runs one   *)
(*    request handler of debugger.cpp after another.                       *)
(*                                                                         *)
(* They share break_mutex_, two condition variables and a number of fields *)
(* that no lock protects.  What a dispatcher does while it holds           *)
(* break_mutex_ is one step here, taken when the mutex is free: those      *)
(* sections never block and call nothing.  What it does without the mutex  *)
(* is one step per access to a shared field.                               *)
(***************************************************************************)
EXTENDS Naturals, Sequences, FiniteSets

CONSTANTS
  Requests,     \* the requests the clients of this instance send
  StopOnEntry,  \* the argument of Debugger's constructor
  Launch,       \* session_type_: DebugSession::Launch or ::Attach
  ScriptEnds,   \* whether the Lua program may come to its end
  Hooks,        \* callbacks that code run inside a stop can reach
  MaxTasks      \* bound on the length of interrupt_tasks_

AllRequests == {"initialize", "reconnect", "setBreakpoints", "continue", "step",
                "pause", "stackTrace", "evaluate", "repl", "setVariable",
                "disconnect"}
AllHooks    == {"interrupt", "debugbreak", "break_here", "debugstep"}
Lines       == {"entry", "client"}

ASSUME RequestsAssumption == Requests \subseteq AllRequests
ASSUME HooksAssumption    == Hooks \subseteq AllHooks
ASSUME ModeAssumption     == /\ StopOnEntry \in BOOLEAN
                             /\ Launch \in BOOLEAN
                             /\ ScriptEnds \in BOOLEAN
ASSUME MaxTasksAssumption == MaxTasks \in Nat

VARIABLES
  lua,       \* where the Lua thread is
  reason,    \* the BreakReason it calls onDebugBreak with
  dap,       \* where the dispatcher is
  req,       \* the request it handles; "update": the updateVariables of
             \* a handler's sent-callback
  break_mutex_,   \* "lua" while the Lua thread owns it
  resume_cv_,     \* the threads that wait on it
  session_cv_,
  resume_,
  main_fn_,       \* main_fn_ # nullptr
  break_vm_,      \* break_vm_ # nullptr
  session_,       \* session_ # nullptr
  told,           \* the session's client was sent the event of this stop
  left,           \* history: a client has disconnected, or its connection
                  \* broke
  should_pause_,
  debugstep,              \* the VM's debugstep callback is installed
  single_step_processor_, \* single_step_processor_ # nullptr
  interrupt_tasks_,       \* each task as the breakpoints it leaves
  armed                   \* the breakpoints the VM knows

pcs         == <<lua, reason, dap, req>>
syncVars    == <<break_mutex_, resume_cv_, session_cv_>>
stopVars    == <<resume_, main_fn_, break_vm_>>
sessionVars == <<session_, told, left>>
stepVars    == <<should_pause_, debugstep, single_step_processor_>>
bpVars      == <<interrupt_tasks_, armed>>
vars == <<pcs, syncVars, stopVars, sessionVars, stepVars, bpVars>>

Halted == {"stopped", "crashed", "exited"}

(* The program points of onDebugBreak and mainThreadWait at which the Lua  *)
(* thread owns break_mutex_.                                               *)
Critical == {"session", "hit", "console", "send", "enter", "update", "wait",
             "exec", "relock"}

(* break_vm_ is set and cleared by mainThreadWait: these are the program   *)
(* points in between.                                                      *)
InStop == lua \in {"update", "wait", "waiting", "exec"}

LuaPCs == Critical \cup Halted \cup
          {"run", "stepping", "print", "lock", "entryWait", "waiting", "join"}

DapPCs == Halted \cup
          {"idle", "getBreakContext", "enableDebugStep", "callbacks",
           "setProcessor", "resumeInternal", "notify", "dropSession", "exit",
           "setPause", "updateStackFrames", "findVariable", "assert", "post",
           "wait", "respond"}

Reasons == {"Entry", "BreakPoint", "Pause", "Step"}

FlagsOK ==
  /\ resume_ \in BOOLEAN /\ main_fn_ \in BOOLEAN /\ break_vm_ \in BOOLEAN
  /\ session_ \in BOOLEAN /\ told \in BOOLEAN /\ left \in BOOLEAN
  /\ should_pause_ \in BOOLEAN /\ debugstep \in BOOLEAN
  /\ single_step_processor_ \in BOOLEAN

TypeOK ==
  /\ lua \in LuaPCs /\ dap \in DapPCs
  /\ reason \in Reasons /\ req \in AllRequests \cup {"update"}
  /\ break_mutex_ \in {"free", "lua"}
  /\ resume_cv_ \subseteq {"lua", "dap"} /\ session_cv_ \subseteq {"lua"}
  /\ FlagsOK
  /\ interrupt_tasks_ \in Seq(SUBSET Lines) /\ armed \subseteq Lines

Init ==
  /\ lua = "run" /\ reason = "Pause"
  /\ dap = "idle" /\ req = "initialize"
  /\ break_mutex_ = "free" /\ resume_cv_ = {} /\ session_cv_ = {}
  /\ resume_ = TRUE /\ main_fn_ = FALSE /\ break_vm_ = FALSE
  /\ session_ = FALSE /\ told = FALSE /\ left = FALSE
  /\ should_pause_ = FALSE /\ debugstep = FALSE
  /\ single_step_processor_ = FALSE
  /\ interrupt_tasks_ = <<>>
  /\ armed = IF StopOnEntry THEN {"entry"} ELSE {}

-----------------------------------------------------------------------------
(* The synchronisation primitives of the C++ library.                      *)

(* std::condition_variable::notify_one: one waiter, if any, is woken.      *)
NotifyOne(cv, after) ==
  \/ cv = {} /\ after = {}
  \/ \E t \in cv : after = cv \ {t}

(* A waiter may wake without a notification.                               *)
SpuriousWake ==
  /\ lua \notin Halted
  /\ \/ \E t \in resume_cv_ : /\ resume_cv_' = resume_cv_ \ {t}
                              /\ UNCHANGED session_cv_
     \/ \E t \in session_cv_ : /\ session_cv_' = session_cv_ \ {t}
                               /\ UNCHANGED resume_cv_
  /\ UNCHANGED <<pcs, break_mutex_, stopVars, sessionVars, stepVars, bpVars>>

LuaGoto(pc) == lua' = pc /\ UNCHANGED <<reason, dap, req>>
DapGoto(pc) == dap' = pc /\ UNCHANGED <<lua, reason, req>>
Release     == break_mutex_' = "free" /\ UNCHANGED <<resume_cv_, session_cv_>>
Acquire     == /\ break_mutex_ = "free" /\ break_mutex_' = "lua"
               /\ UNCHANGED <<resume_cv_, session_cv_>>

(* A null pointer is used: the process is gone.                            *)
Crash ==
  /\ lua' = "crashed" /\ dap' = "crashed"
  /\ UNCHANGED <<reason, req, syncVars, stopVars, sessionVars, stepVars, bpVars>>

-----------------------------------------------------------------------------
(* The Lua thread: from the script into onDebugBreak.                      *)

(* interrupt_tasks_.process(): the tasks run in the order of their posts,  *)
(* so the last one decides which breakpoints are left.                     *)
ProcessTasks ==
  /\ armed' = IF interrupt_tasks_ = <<>> THEN armed
              ELSE interrupt_tasks_[Len(interrupt_tasks_)]
  /\ interrupt_tasks_' = <<>>

(* Mutant: a caller that passes no reason of BreakReason's.                *)
BreakUnexplained(why) == lua' = "lock" /\ reason' = "None" /\ UNCHANGED <<dap, req>>

(* onDebugBreak is called; its first line takes the mutex.                 *)
Break(why) == lua' = "lock" /\ reason' = why /\ UNCHANGED <<dap, req>>

(* Mutant: interruptUpdate takes the flag and breaks for nobody.           *)
TakePauseQuietly == should_pause_' = FALSE /\ UNCHANGED pcs

(* should_pause_.exchange(false), and the break it asks for.               *)
TakePause ==
  /\ should_pause_' = FALSE
  /\ IF should_pause_ THEN Break("Pause") ELSE UNCHANGED pcs

(* The VM calls interrupt at loop back-edges, calls and returns.           *)
Interrupt ==
  /\ lua = "run"
  /\ ProcessTasks
  /\ TakePause
  /\ UNCHANGED <<syncVars, stopVars, sessionVars, debugstep, single_step_processor_>>

(* The VM reaches an armed line; isBreakOnEntry tells the entry line.      *)
DebugBreak ==
  /\ lua = "run"
  /\ \E line \in armed : Break(IF line = "entry" THEN "Entry" ELSE "BreakPoint")
  /\ UNCHANGED <<syncVars, stopVars, sessionVars, stepVars, bpVars>>

BreakHere ==
  /\ lua = "run"
  /\ Break("Pause")
  /\ UNCHANGED <<syncVars, stopVars, sessionVars, stepVars, bpVars>>

(* The debugstep callback tests single_step_processor_, then calls it.     *)
DebugStep ==
  /\ lua = "run" /\ debugstep /\ single_step_processor_
  /\ LuaGoto("stepping")
  /\ UNCHANGED <<syncVars, stopVars, sessionVars, stepVars, bpVars>>

CallProcessor ==
  /\ lua = "stepping"
  /\ IF single_step_processor_
     THEN /\ Break("Step") \/ LuaGoto("run")
          /\ UNCHANGED <<syncVars, stopVars, sessionVars, stepVars, bpVars>>
     ELSE Crash

(* print: writeDebugConsole tests session_, then sends through it.         *)
LuaPrint ==
  /\ lua = "run" /\ session_
  /\ LuaGoto("print")
  /\ UNCHANGED <<syncVars, stopVars, sessionVars, stepVars, bpVars>>

PrintSend ==
  /\ lua = "print"
  /\ IF session_
     THEN /\ LuaGoto("run")
          /\ UNCHANGED <<syncVars, stopVars, sessionVars, stepVars, bpVars>>
     ELSE Crash

(* main: runFile has returned, Debugger::stop is called.                   *)
Finish ==
  /\ lua = "run" /\ ScriptEnds
  /\ LuaGoto("join")
  /\ UNCHANGED <<syncVars, stopVars, sessionVars, stepVars, bpVars>>

(* closeSession destroys the session, which joins its dispatch thread.     *)
Join ==
  /\ lua = "join" /\ dap = "idle"
  /\ lua' = "stopped" /\ dap' = "stopped"
  /\ UNCHANGED <<reason, req, syncVars, stopVars, sessionVars, stepVars, bpVars>>

-----------------------------------------------------------------------------
(* The Lua thread: onDebugBreak and mainThreadWait.                        *)

Lock ==
  /\ lua = "lock"
  /\ Acquire
  /\ LuaGoto("session")
  /\ UNCHANGED <<stopVars, sessionVars, stepVars, bpVars>>

(* Mutant: an early return that keeps the mutex.                           *)
IgnoreLocked == LuaGoto("run") /\ UNCHANGED syncVars

(* The early returns of onDebugBreak.                                      *)
Ignore == LuaGoto("run") /\ Release

(* Without a session a break is ignored, but for the one on entry, which   *)
(* waits for a client.                                                     *)
CheckSession ==
  /\ lua = "session"
  /\ IF session_
     THEN /\ LuaGoto(IF reason = "BreakPoint" THEN "hit" ELSE "send")
          /\ UNCHANGED syncVars
     ELSE IF reason = "Entry"
     THEN /\ LuaGoto("entryWait")
          /\ session_cv_' = {"lua"} /\ break_mutex_' = "free"
          /\ UNCHANGED resume_cv_
     ELSE Ignore
  /\ UNCHANGED <<stopVars, sessionVars, stepVars, bpVars>>

(* Mutant: a wait on session_cv_ without its predicate.                    *)
SessionReadyUnasked == TRUE

(* The predicate of the wait on session_cv_.                               *)
SessionReady == session_

(* Mutant: a client that connects late is not sent the event.              *)
GoOnUntold == LuaGoto("enter") /\ Acquire

GoOn == LuaGoto("send") /\ Acquire

EntryWake ==
  /\ lua = "entryWait" /\ "lua" \notin session_cv_ /\ break_mutex_ = "free"
  /\ IF SessionReady
     THEN GoOn
     ELSE /\ session_cv_' = {"lua"}
          /\ UNCHANGED <<pcs, break_mutex_, resume_cv_>>
  /\ UNCHANGED <<stopVars, sessionVars, stepVars, bpVars>>

(* hitBreakPoint: the condition holds, does not, or fails; a failure is    *)
(* reported on the console and stops like a hit.                           *)
Hit ==
  /\ lua = "hit"
  /\ \/ LuaGoto("send") /\ UNCHANGED syncVars
     \/ Ignore
     \/ LuaGoto(IF session_ THEN "console" ELSE "send") /\ UNCHANGED syncVars
  /\ UNCHANGED <<stopVars, sessionVars, stepVars, bpVars>>

ConsoleSend ==
  /\ lua = "console"
  /\ IF session_
     THEN /\ LuaGoto("send")
          /\ UNCHANGED <<syncVars, stopVars, sessionVars, stepVars, bpVars>>
     ELSE Crash

Send ==
  /\ lua = "send"
  /\ IF session_
     THEN /\ LuaGoto("enter")
          /\ told' = TRUE
          /\ UNCHANGED <<syncVars, stopVars, session_, left, stepVars, bpVars>>
     ELSE Crash

(* Mutant: mainThreadWait without resume_ = false.                         *)
StopVMReleased == break_vm_' = TRUE /\ UNCHANGED resume_

(* The first lines of mainThreadWait.                                      *)
StopVM == break_vm_' = TRUE /\ resume_' = FALSE

Enter ==
  /\ lua = "enter"
  /\ LuaGoto("update")
  /\ StopVM
  /\ UNCHANGED <<main_fn_, syncVars, sessionVars, stepVars, bpVars>>

(* variable_registry_.update, which may call __tostring metamethods.       *)
Update ==
  /\ lua = "update"
  /\ LuaGoto("wait")
  /\ UNCHANGED <<syncVars, stopVars, sessionVars, stepVars, bpVars>>

(* The end of mainThreadWait, and with it of onDebugBreak.                 *)
Leave ==
  /\ LuaGoto("run")
  /\ break_vm_' = FALSE
  /\ told' = FALSE
  /\ Release
  /\ UNCHANGED <<resume_, main_fn_, session_, left>>

(* Mutant: any wakeup ends the stop.                                       *)
MayLeaveAnyhow == ~main_fn_

MayLeave == ~main_fn_ /\ resume_

(* The loop of mainThreadWait, at the predicate of its wait.               *)
Wait ==
  /\ lua = "wait"
  /\ \/ main_fn_ /\ LuaGoto("exec") /\ UNCHANGED <<syncVars, stopVars, sessionVars>>
     \/ MayLeave /\ Leave
     \/ /\ ~main_fn_ /\ ~resume_
        /\ LuaGoto("waiting")
        /\ resume_cv_' = resume_cv_ \cup {"lua"} /\ break_mutex_' = "free"
        /\ UNCHANGED <<session_cv_, stopVars, sessionVars>>
  /\ UNCHANGED <<stepVars, bpVars>>

Wake ==
  /\ lua = "waiting" /\ "lua" \notin resume_cv_
  /\ Acquire
  /\ LuaGoto("wait")
  /\ UNCHANGED <<stopVars, sessionVars, stepVars, bpVars>>

(* Mutant: nobody is told that main_fn_ has run.                           *)
MainFnReturnedSilently == main_fn_' = FALSE /\ UNCHANGED resume_cv_

(* main_fn_() has returned: it is reset and the dispatcher notified.       *)
MainFnReturned == main_fn_' = FALSE /\ NotifyOne(resume_cv_, resume_cv_')

Exec ==
  /\ lua = "exec"
  /\ MainFnReturned
  /\ LuaGoto("wait")
  /\ UNCHANGED <<break_mutex_, session_cv_, resume_, break_vm_, sessionVars,
                 stepVars, bpVars>>

-----------------------------------------------------------------------------
(* Callbacks that fire in code the Lua thread runs while it owns           *)
(* break_mutex_: a breakpoint's condition (hit), a __tostring metamethod   *)
(* (update), an evaluated expression or an assigned variable (exec).       *)

RunsCode == lua \in {"hit", "update", "exec"}

(* onDebugBreak asks for the mutex its own thread already owns.            *)
NestedBreak(why) == lua' = "relock" /\ reason' = why /\ UNCHANGED <<dap, req>>

NestedInterrupt ==
  /\ RunsCode /\ "interrupt" \in Hooks
  /\ should_pause_ \/ interrupt_tasks_ # <<>>
  /\ ProcessTasks
  /\ should_pause_' = FALSE
  /\ IF should_pause_ THEN NestedBreak("Pause") ELSE UNCHANGED pcs
  /\ UNCHANGED <<syncVars, stopVars, sessionVars, debugstep, single_step_processor_>>

NestedDebugBreak ==
  /\ RunsCode /\ "debugbreak" \in Hooks
  /\ \E line \in armed :
       NestedBreak(IF line = "entry" THEN "Entry" ELSE "BreakPoint")
  /\ UNCHANGED <<syncVars, stopVars, sessionVars, stepVars, bpVars>>

NestedBreakHere ==
  /\ RunsCode /\ "break_here" \in Hooks
  /\ NestedBreak("Pause")
  /\ UNCHANGED <<syncVars, stopVars, sessionVars, stepVars, bpVars>>

(* Only an assigned variable runs code (a __newindex metamethod) with the  *)
(* debugstep callback left in place.                                       *)
NestedDebugStep ==
  /\ lua = "exec" /\ req = "setVariable" /\ "debugstep" \in Hooks
  /\ debugstep /\ single_step_processor_
  /\ NestedBreak("Step")
  /\ UNCHANGED <<syncVars, stopVars, sessionVars, stepVars, bpVars>>

-----------------------------------------------------------------------------
(* The dispatcher: the handlers of debugger.cpp and what they call.        *)

(* A client sends requests once it has initialized the session, one client *)
(* after another: the dispatch thread of an old session is joined before a *)
(* new one is bound.                                                       *)
Receive(r) ==
  /\ dap = "idle" /\ lua \notin Halted
  /\ r \in Requests
  /\ r \notin {"initialize", "reconnect"} => session_

Handle(r, pc) == dap' = pc /\ req' = r /\ UNCHANGED <<lua, reason>>

(* Mutant: the thread that waits for a session is not notified.            *)
SetSessionSilently == session_' = TRUE /\ UNCHANGED session_cv_

SetSession == session_' = TRUE /\ NotifyOne(session_cv_, session_cv_')

(* The session's client is ready.  "initialize": the first client, or one  *)
(* that follows a client that disconnected; "reconnect": one that follows  *)
(* a client whose connection broke without a disconnect request.           *)
OnConnect(r) ==
  /\ Receive(r) /\ lua # "join"
  /\ session_ <=> r = "reconnect"
  /\ break_mutex_ = "free"
  /\ SetSession /\ told' = FALSE
  /\ left' = (left \/ r = "reconnect")
  /\ Handle(r, "idle")
  /\ UNCHANGED <<break_mutex_, resume_cv_, stopVars, stepVars, bpVars>>

(* interrupt_tasks_.post, of a task that leaves the breakpoints bps.       *)
Post(bps) ==
  /\ Len(interrupt_tasks_) < MaxTasks
  /\ interrupt_tasks_' = Append(interrupt_tasks_, bps)
  /\ UNCHANGED armed

SetBreakPoints ==
  /\ Receive("setBreakpoints")
  /\ \E bps \in SUBSET Lines : Post(bps)
  /\ Handle("setBreakpoints", "idle")
  /\ UNCHANGED <<syncVars, stopVars, sessionVars, stepVars>>

(* The test every other handler begins with, and what it does next in a    *)
(* break and out of one.  Out of one setVariable returns an empty success, *)
(* which makes its sent-callback update the variables.                     *)
InBreak(r) ==
  CASE r = "continue"    -> "enableDebugStep"
    [] r = "step"        -> "getBreakContext"
    [] r = "pause"       -> "idle"
    [] r = "stackTrace"  -> "updateStackFrames"
    [] r = "setVariable" -> "findVariable"
    [] OTHER             -> "assert"

(* Mutant: handlers that do not ask whether the program is stopped.        *)
OutOfBreakUnasked(r) == InBreak(r)

OutOfBreak(r) ==
  CASE r = "pause"       -> "setPause"
    [] r = "setVariable" -> "assert"
    [] OTHER             -> "idle"

IsDebugBreak(r) ==
  /\ Receive(r) /\ r \notin {"initialize", "reconnect", "setBreakpoints", "disconnect"}
  /\ break_mutex_ = "free"
  /\ dap' = IF resume_ THEN OutOfBreak(r) ELSE InBreak(r)
  /\ req' = IF resume_ /\ r = "setVariable" THEN "update" ELSE r
  /\ UNCHANGED <<lua, reason, syncVars, stopVars, sessionVars, stepVars, bpVars>>

(* onDisconnect does not ask whether the program is stopped.               *)
OnDisconnect ==
  /\ Receive("disconnect")
  /\ Post({})
  /\ Handle("disconnect", "enableDebugStep")
  /\ left' = TRUE
  /\ UNCHANGED <<syncVars, stopVars, session_, told, stepVars>>

SetPause ==
  /\ dap = "setPause"
  /\ should_pause_' = TRUE
  /\ DapGoto("idle")
  /\ UNCHANGED <<syncVars, stopVars, sessionVars, debugstep,
                 single_step_processor_, bpVars>>

(* getBreakContext(break_vm_), and updateStackFrames(break_vm_): the VM is *)
(* read with no lock held.                                                 *)
ReadVM ==
  /\ dap \in {"getBreakContext", "updateStackFrames"}
  /\ DapGoto(IF dap = "getBreakContext" THEN "enableDebugStep" ELSE "idle")
  /\ UNCHANGED <<syncVars, stopVars, sessionVars, stepVars, bpVars>>

(* enableDebugStep tests break_vm_, then reads it again.                   *)
EnableDebugStep ==
  /\ dap = "enableDebugStep"
  /\ DapGoto(IF break_vm_ THEN "callbacks" ELSE "setProcessor")
  /\ UNCHANGED <<syncVars, stopVars, sessionVars, stepVars, bpVars>>

(* Both reads may be one in the build; if not, the second may find null.   *)
(* While the registry is updated a DisableDebugStep holds the callback's   *)
(* old value, and restores it at its end.                                  *)
Callbacks ==
  /\ dap = "callbacks"
  /\ \/ /\ debugstep' = (req = "step")
        /\ DapGoto("setProcessor")
        /\ UNCHANGED <<should_pause_, single_step_processor_>>
     \/ /\ lua = "update"
        /\ DapGoto("setProcessor")
        /\ UNCHANGED stepVars
  /\ UNCHANGED <<syncVars, stopVars, sessionVars, bpVars>>

CallbacksOfNull == dap = "callbacks" /\ ~break_vm_ /\ Crash

SetProcessor ==
  /\ dap = "setProcessor"
  /\ single_step_processor_' = (req = "step")
  /\ DapGoto("resumeInternal")
  /\ UNCHANGED <<syncVars, stopVars, sessionVars, should_pause_, debugstep, bpVars>>

ResumeInternal ==
  /\ dap = "resumeInternal" /\ break_mutex_ = "free"
  /\ resume_' = TRUE /\ should_pause_' = FALSE
  /\ DapGoto("notify")
  /\ UNCHANGED <<main_fn_, break_vm_, syncVars, sessionVars, debugstep,
                 single_step_processor_, bpVars>>

(* Mutant: resumeInternal without its notify_one.                          *)
NotifyResumedNot == UNCHANGED resume_cv_

NotifyResumed == NotifyOne(resume_cv_, resume_cv_')

Notify ==
  /\ dap = "notify"
  /\ NotifyResumed
  /\ DapGoto(IF req = "disconnect" THEN "dropSession" ELSE "idle")
  /\ UNCHANGED <<break_mutex_, session_cv_, stopVars, sessionVars, stepVars, bpVars>>

DropSession ==
  /\ dap = "dropSession"
  /\ session_' = FALSE
  /\ DapGoto(IF Launch THEN "exit" ELSE "idle")
  /\ UNCHANGED <<told, left, syncVars, stopVars, stepVars, bpVars>>

(* The sent-callback of the disconnect response: std::exit.                *)
Exit ==
  /\ dap = "exit"
  /\ lua' = "exited" /\ dap' = "exited"
  /\ UNCHANGED <<reason, req, syncVars, stopVars, sessionVars, stepVars, bpVars>>

FindVariable ==
  /\ dap = "findVariable"
  /\ DapGoto("assert") \/ DapGoto("idle")
  /\ UNCHANGED <<syncVars, stopVars, sessionVars, stepVars, bpVars>>

(* executeInMainThread: DEBUGGER_ASSERT(isDebugBreak()) logs and goes on.  *)
Assert ==
  /\ dap = "assert" /\ break_mutex_ = "free"
  /\ DapGoto("post")
  /\ UNCHANGED <<syncVars, stopVars, sessionVars, stepVars, bpVars>>

(* main_fn_ is set and the Lua thread notified; then the dispatcher waits. *)
PostMainFn ==
  /\ dap = "post" /\ break_mutex_ = "free"
  /\ main_fn_' = TRUE
  /\ \E woken \in SUBSET resume_cv_ :
       /\ NotifyOne(resume_cv_, woken)
       /\ resume_cv_' = woken \cup {"dap"}
  /\ DapGoto("wait")
  /\ UNCHANGED <<break_mutex_, session_cv_, resume_, break_vm_, sessionVars,
                 stepVars, bpVars>>

(* The predicate of executeInMainThread's wait.                            *)
MainFnDone == ~main_fn_

DapWake ==
  /\ dap = "wait" /\ "dap" \notin resume_cv_ /\ break_mutex_ = "free"
  /\ IF MainFnDone
     THEN DapGoto("respond") /\ UNCHANGED resume_cv_
     ELSE /\ resume_cv_' = resume_cv_ \cup {"dap"}
          /\ UNCHANGED pcs
  /\ UNCHANGED <<break_mutex_, session_cv_, stopVars, sessionVars, stepVars, bpVars>>

(* The handler reads its result (for variables, the registry's own vector) *)
(* and answers; after a success of repl or setVariable the sent-callback   *)
(* updates the variables, again in the Lua thread.                         *)
Respond ==
  /\ dap = "respond"
  /\ \/ Handle(req, "idle")
     \/ req \in {"repl", "setVariable"} /\ Handle("update", "assert")
  /\ UNCHANGED <<syncVars, stopVars, sessionVars, stepVars, bpVars>>

-----------------------------------------------------------------------------
(* The script's choices, and the client's.                                 *)
Script == Interrupt \/ DebugBreak \/ BreakHere \/ DebugStep \/ LuaPrint \/ Finish

(* The Lua thread's steps inside the debugger.                             *)
LuaStep ==
  \/ CallProcessor \/ PrintSend \/ Join \/ Lock \/ CheckSession \/ EntryWake
  \/ Hit \/ ConsoleSend \/ Send \/ Enter \/ Update \/ Wait \/ Wake \/ Exec

Nested == NestedInterrupt \/ NestedDebugBreak \/ NestedBreakHere \/ NestedDebugStep

NewRequest ==
  \/ \E r \in {"initialize", "reconnect"} : OnConnect(r)
  \/ \E r \in Requests : IsDebugBreak(r)
  \/ SetBreakPoints \/ OnDisconnect

(* The dispatcher's steps inside a handler.                                *)
DapStep ==
  \/ SetPause \/ ReadVM \/ EnableDebugStep \/ Callbacks \/ CallbacksOfNull
  \/ SetProcessor \/ ResumeInternal \/ Notify \/ DropSession \/ Exit
  \/ FindVariable \/ Assert \/ PostMainFn \/ DapWake \/ Respond

(* The process is over, or the Lua thread waits for the mutex it owns (see *)
(* NoSelfLock): no step of its own will ever be possible.                  *)
Terminated == lua \in Halted \cup {"relock"} /\ UNCHANGED vars

Next == Script \/ LuaStep \/ Nested \/ NewRequest \/ DapStep \/ SpuriousWake
        \/ Terminated

Spec == Init /\ [][Next]_vars

(***************************************************************************)
(* Both threads are scheduled by the operating system, and the code that   *)
(* runs inside a stop (conditions, metamethods, expressions) is assumed to *)
(* return.  A step that needs break_mutex_ is only enabled now and then    *)
(* while the other thread keeps taking it, and std::mutex keeps no queue:  *)
(* strong fairness is the assumption that a thread that asks again and     *)
(* again gets it in the end.  A script that does not end keeps calling     *)
(* interrupt, at loop back-edges and calls.  Nothing obliges the client to *)
(* send a request, a waiter to wake unasked, or the script to stop.        *)
(***************************************************************************)
Fairness ==
  /\ WF_vars(LuaStep)
  /\ SF_vars(DapStep)
  /\ SF_vars(Interrupt)

FairSpec == Spec /\ Fairness


-----------------------------------------------------------------------------
(* Safety.                                                                 *)

(* The handlers read and write the VM, the registries, debugstep and       *)
(* single_step_processor_ with no lock held: to find where the program     *)
(* stopped, to set a step up, to look for a variable, and to answer from   *)
(* the registry's own vector after main_fn_ has run.  They may because the *)
(* Lua thread is then parked in resume_cv_.wait, or on its way back into   *)
(* it, and nothing but this dispatcher can let it go or give it a function *)
(* to run.  (The handler of disconnect does not ask whether the program is *)
(* stopped, and is not covered.)                                           *)
TouchesVM == dap \in {"getBreakContext", "updateStackFrames", "findVariable",
                      "enableDebugStep", "callbacks", "setProcessor", "respond"}

VMQuiescent ==
  TouchesVM /\ req \notin {"disconnect", "update"}
    => lua \in {"waiting", "wait"} /\ ~resume_ /\ ~main_fn_

(* A wakeup that was due was sent: a thread still in the wait set has its  *)
(* predicate false, or the dispatcher is about to notify.  Both threads    *)
(* wait on the one resume_cv_ and every notify wakes one of them.          *)
NoLostWakeup ==
  /\ "lua" \in resume_cv_ /\ (resume_ \/ main_fn_) => dap = "notify"
  /\ "dap" \in resume_cv_ => main_fn_
  /\ "lua" \in session_cv_ => ~session_

(* break_mutex_ is given back on every way out of onDebugBreak: the early  *)
(* returns, the waits, and the end of a stop.                              *)
MutexOwned == lua \notin Halted => (break_mutex_ = "lua" <=> lua \in Critical)

(* What makes the properties above inductive.                              *)

(* The process ends for both threads.                                      *)
HaltTogether == lua \in Halted <=> dap \in Halted

(* A wait set holds a thread only while it waits there.                    *)
WaitersParked ==
  /\ "lua" \in resume_cv_  => lua = "waiting"
  /\ "dap" \in resume_cv_  => dap = "wait"
  /\ "lua" \in session_cv_ => lua = "entryWait"

(* resume_ is false, and break_vm_ set, only within a stop.                *)
StopShape ==
  /\ ~resume_ => InStop \/ lua = "relock"
  /\ InStop => break_vm_
  /\ break_vm_ => InStop \/ lua = "relock"
  /\ lua = "update" => ~resume_

(* A function is handed over only by a dispatcher that waits for it.       *)
JobShape ==
  /\ main_fn_ => dap = "wait"
  /\ lua = "exec" => main_fn_

(* A handler that found the program stopped keeps it stopped.              *)
HandlerHolds ==
  /\ dap \in {"assert", "post", "wait"} /\ req # "update" => ~resume_
  /\ dap = "findVariable" => req = "setVariable"

ProtocolInv == /\ MutexOwned /\ WaitersParked /\ StopShape /\ JobShape
               /\ NoLostWakeup /\ HandlerHolds /\ VMQuiescent

IInv == TypeOK /\ HaltTogether /\ (lua \notin Halted => ProtocolInv)

(* A handler that passed the in-break test does not find the program       *)
(* running when it hands a function to the Lua thread: the assertion of    *)
(* executeInMainThread.                                                    *)
ExecuteOnlyInBreak == dap = "assert" => ~resume_

(* Until the first client leaves, a client that is connected while the     *)
(* program is stopped has been sent the stopped event of that stop: one    *)
(* that connects during the entry wait, and one that connects while        *)
(* another break is on its way, included.  (One that follows a client that *)
(* left the program stopped is not.)                                       *)
StoppedClientTold == lua \in {"wait", "waiting", "exec"} /\ session_ /\ ~left => told

(* No access through a null session, processor or VM, until a client       *)
(* leaves: the fields the Lua thread tests and uses without a lock are     *)
(* reset by the handler of disconnect only.                                *)
NoCrash == lua = "crashed" => left

(* The Lua thread never asks for break_mutex_ while it owns it.            *)
NoSelfLock == lua # "relock"

(* A stop ends only for a dispatcher that released it, and no function the *)
(* dispatcher waits for is left behind.                                    *)
LeavesReleased == [][InStop /\ ~InStop' /\ lua' = "run" => resume_ /\ ~main_fn_]_vars

(* The promise of BridgeContract.                                          *)
vmState == IF lua \in Halted THEN "gone"
           ELSE IF ~break_vm_ THEN "running"
           ELSE IF resume_ THEN "released" ELSE "stopped"
jobState == IF lua \in Halted THEN "none"
            ELSE IF main_fn_ THEN "asked"
            ELSE IF dap = "wait" THEN "served" ELSE "none"

Contract == INSTANCE BridgeContract WITH vm <- vmState, job <- jobState

KeepsContract == Contract!Spec

-----------------------------------------------------------------------------
(* Liveness, under FairSpec.                                               *)

(* A handler that waits for the Lua thread gets its answer, and every      *)
(* handler comes to its end: the client is never left without an answer.   *)
HandlersReturn == dap # "idle" ~> dap \in {"idle"} \cup Halted

(* The program that waits for its first client goes on when one connects.  *)
EntryReleased == (lua = "entryWait" /\ session_) ~> (lua # "entryWait" \/ ~session_)

(* A pause that a client asked for while the program ran ends in a stop    *)
(* that nobody has let go yet, unless the client leaves or the program     *)
(* ends: that the flag is taken, or that an earlier stop was released, is  *)
(* not enough.  The stop may be one that was on its way when the handler   *)
(* asked isDebugBreak; it has come by then, and its release may take the   *)
(* late flag back (DebugBridge::pause, interruptUpdate, resumeInternal).   *)
PauseHonoured ==
  dap = "setPause" ~> (InStop /\ ~resume_) \/ ~session_ \/ lua \in Halted \cup {"join"}

(* The contract with its liveness.                                         *)
FulfilsContract == Contract!FairSpec

=============================================================================
