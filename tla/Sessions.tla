------------------------------ MODULE Sessions ------------------------------
(***************************************************************************)
(* The life of a client's session and of the debugger itself:              *)
(* debugger.cpp, and the order in which the host luaud creates, uses and   *)
(* destroys things.  Three kinds of thread meet here:                      *)
(*                                                                         *)
(*  - "main", the host's thread, which listens, installs the debugger in   *)
(*    its VMs, runs the scripts, sends events through the bridge, stops    *)
(*    the debugger and destroys it;                                        *)
(*  - "accept", the server's thread, which makes a session for each client *)
(*    that connects, in place of the one before;                           *)
(*  - the dispatch thread of each session, which runs its requests.        *)
(*                                                                         *)
(* They share session_, a unique_ptr that no lock protects: each access to *)
(* it is a step.  cppdap is external: the destructor of a session closes   *)
(* its inbox and joins its dispatch thread, which first runs what is left  *)
(* in the inbox, and Server::stop joins the accept thread.                 *)
(*                                                                         *)
(* That a handler returns is RunControl's matter (HandlersReturn).         *)
(***************************************************************************)
EXTENDS Naturals, Sequences

CONSTANTS
  Clients,   \* the clients that ever connect, each by a session of its own
  VMs,       \* the host's VMs
  None,      \* a null pointer
  MaxQueue   \* bound on the requests in a session's inbox

ASSUME NoneAssumption  == None \notin Clients
ASSUME QueueAssumption == MaxQueue \in Nat

VARIABLES
  process,   \* "alive", how it ended, or the fault that ended it
  main,      \* where the main thread is
  open,      \* the VMs that are open
  lua_vms_,  \* those the bridge has registered
  debug_bridge_,    \* debug_bridge_ # nullptr
  bridge_session,   \* DebugBridge::session_, a raw pointer
  session_,         \* Debugger::session_, the owner
  session_type_,
  server,    \* of the server's socket
  accept,    \* where the accept thread is
  arriving,  \* the client it serves
  old,       \* for main and accept, the session it takes out of session_
  object,    \* the state of each session object
  inbox,     \* the requests a session has received
  dispatch,  \* where the dispatch thread of each session is
  handed,    \* what it read with session_.get()
  said,      \* what each client has sent: the next may depend on it
  mode,      \* history: "launch" or "attach", once its handler has run
  orphaned,  \* history: a session was replaced that its client had not left
  late       \* history: the accept thread moved while the debugger stopped

mainVars    == <<main, open, lua_vms_>>
bridgeVars  == <<debug_bridge_, bridge_session>>
ownerVars   == <<session_, old>>
acceptVars  == <<server, accept, arriving>>
sessionVars == <<object, inbox, dispatch, handed>>
clientVars  == <<said, mode>>
history     == <<orphaned, late>>
vars == <<process, mainVars, bridgeVars, ownerVars, session_type_, acceptVars,
          sessionVars, clientVars, history>>

Pointers == Clients \cup {None}
Faults   == {"null_session", "freed_session", "deleted_twice", "null_bridge",
             "closed_vm"}
Requests == {"initialize", "launch", "attach", "request", "disconnect"}
StopPCs  == {"close", "closeSwap", "closeDestroy", "closeJoin", "serverStop",
             "serverJoin", "resetBridge"}
AcceptPCs == {"off", "idle", "read", "swap", "destroy", "join", "bind", "ended"}
DispatchPCs == {"none", "idle", "ended", "initialized", "connect", "disconnected"}

FlagsOK == debug_bridge_ \in BOOLEAN /\ orphaned \in BOOLEAN /\ late \in BOOLEAN

ControlOK ==
  /\ process \in {"alive", "done", "exited"} \cup Faults
  /\ main \in {"start", "running", "sending", "reopen", "closing"} \cup StopPCs
  /\ accept \in AcceptPCs /\ server \in {"off", "listening", "stopped"}
  /\ dispatch \in [Clients -> DispatchPCs]

PointersOK ==
  /\ bridge_session \in Pointers /\ session_ \in Pointers /\ arriving \in Pointers
  /\ old \in [{"main", "accept"} -> Pointers] /\ handed \in [Clients -> Pointers]

ObjectsOK ==
  /\ open \subseteq VMs /\ lua_vms_ \subseteq VMs
  /\ object \in [Clients -> {"none", "made", "bound", "closing", "gone"}]

RequestsOK ==
  /\ inbox \in [Clients -> Seq(Requests)]
  /\ said \in [Clients -> {"nothing"} \cup Requests]
  /\ mode \in [Clients -> {"none", "launch", "attach"}]
  /\ session_type_ \in {"launch", "attach"}

TypeOK == FlagsOK /\ ControlOK /\ PointersOK /\ ObjectsOK /\ RequestsOK

Init ==
  /\ process = "alive" /\ main = "start"
  /\ open = {} /\ lua_vms_ = {}
  /\ debug_bridge_ = TRUE /\ bridge_session = None
  /\ session_ = None /\ session_type_ = "attach"
  /\ server = "off" /\ accept = "off" /\ arriving = None
  /\ old = [t \in {"main", "accept"} |-> None]
  /\ object = [c \in Clients |-> "none"] /\ inbox = [c \in Clients |-> <<>>]
  /\ dispatch = [c \in Clients |-> "none"] /\ handed = [c \in Clients |-> None]
  /\ said = [c \in Clients |-> "nothing"] /\ mode = [c \in Clients |-> "none"]
  /\ orphaned = FALSE /\ late = FALSE

(* Debugger::stop has been called.                                         *)
Stopping == main \in StopPCs \cup {"closing"}

Fault(f) == /\ process' = f
            /\ UNCHANGED <<mainVars, bridgeVars, ownerVars, session_type_, acceptVars,
                           sessionVars, clientVars, history>>

MainGoto(pc) == main' = pc /\ UNCHANGED <<open, lua_vms_>>

-----------------------------------------------------------------------------
(* unique_ptr::reset, as the main thread and the accept thread run it on   *)
(* session_: it takes the old pointer, stores the new one and deletes what *)
(* the old one points to.                                                  *)

TakeOld(t) == old' = [old EXCEPT ![t] = session_] /\ UNCHANGED session_

Store(new) == session_' = new /\ UNCHANGED old

(* Mutant: the old session's inbox is left open.                           *)
CloseNot(c) == UNCHANGED object

(* The destructor begins: the inbox is closed.                             *)
Close(c) == object' = [object EXCEPT ![c] = "closing"]

(* Mutant: the destructor does not wait for the dispatch thread.           *)
JoinedAnyhow(c) == TRUE

(* The dispatch thread was never started, or has ended.                    *)
Joined(c) == dispatch[c] \in {"none", "ended"}

Free(c) == object' = [object EXCEPT ![c] = "gone"]

-----------------------------------------------------------------------------
(* The main thread: luaud's main.                                          *)

(* main goes on whether listen could open the port or not.                 *)
Listen ==
  /\ main = "start"
  /\ MainGoto("running")
  /\ \/ server' = "listening" /\ accept' = "idle"
     \/ server' = "stopped" /\ accept' = "ended"
  /\ UNCHANGED <<process, bridgeVars, ownerVars, session_type_, arriving,
                 sessionVars, clientVars, history>>

(* Runtime's constructor, and installDebugger with Debugger::initialize.   *)
InstallDebugger(v) ==
  /\ main = "running" /\ v \notin open
  /\ open' = open \cup {v} /\ lua_vms_' = lua_vms_ \cup {v}
  /\ UNCHANGED <<process, main, bridgeVars, ownerVars, session_type_, acceptVars,
                 sessionVars, clientVars, history>>

(* Mutant: Runtime::reset closes the VM without releasing it.              *)
ReleaseForgotten(v) == UNCHANGED lua_vms_

(* Debugger::release, DebugBridge::release and VMRegistry::releaseVM.      *)
Release(v) == lua_vms_' = lua_vms_ \ {v}

(* Runtime::reset releases the VM and closes it.                           *)
Reset(v) ==
  /\ main = "running" /\ v \in open
  /\ Release(v)
  /\ open' = open \ {v} /\ main' = "reopen"
  /\ UNCHANGED <<process, bridgeVars, ownerVars, session_type_, acceptVars,
                 sessionVars, clientVars, history>>

(* Then it opens another in its place, and installs the debugger in it.    *)
Reopen(v) ==
  /\ main = "reopen" /\ v \notin open
  /\ open' = open \cup {v} /\ lua_vms_' = lua_vms_ \cup {v}
  /\ main' = "running"
  /\ UNCHANGED <<process, bridgeVars, ownerVars, session_type_, acceptVars,
                 sessionVars, clientVars, history>>

(* A script prints or reaches a break: the bridge tests its session_, then *)
(* reads it again to send.                                                 *)
TestSession ==
  /\ main = "running" /\ lua_vms_ # {} /\ bridge_session # None
  /\ MainGoto("sending")
  /\ UNCHANGED <<process, bridgeVars, ownerVars, session_type_, acceptVars,
                 sessionVars, clientVars, history>>

SendEvent ==
  /\ main = "sending"
  /\ IF bridge_session = None THEN Fault("null_session")
     ELSE IF object[bridge_session] = "gone" THEN Fault("freed_session")
     ELSE /\ MainGoto("running")
          /\ UNCHANGED <<process, bridgeVars, ownerVars, session_type_, acceptVars,
                         sessionVars, clientVars, history>>

(* The scripts are done: Debugger::stop, which closes the session first.   *)
Stop ==
  /\ main = "running" /\ open # {}
  /\ MainGoto("close")
  /\ UNCHANGED <<process, bridgeVars, ownerVars, session_type_, acceptVars,
                 sessionVars, clientVars, history>>

(* closeSession: session_ = nullptr.                                       *)
CloseTake ==
  /\ main = "close"
  /\ TakeOld("main") /\ MainGoto("closeSwap")
  /\ UNCHANGED <<process, bridgeVars, session_type_, acceptVars, sessionVars,
                 clientVars, history>>

CloseSwap ==
  /\ main = "closeSwap"
  /\ Store(None) /\ MainGoto("closeDestroy")
  /\ UNCHANGED <<process, bridgeVars, session_type_, acceptVars, sessionVars,
                 clientVars, history>>

CloseDestroy ==
  /\ main = "closeDestroy"
  /\ IF old["main"] = None
     THEN /\ MainGoto("serverStop")
          /\ UNCHANGED <<process, bridgeVars, ownerVars, session_type_, acceptVars,
                         sessionVars, clientVars, history>>
     ELSE IF object[old["main"]] \in {"closing", "gone"} THEN Fault("deleted_twice")
     ELSE /\ Close(old["main"]) /\ MainGoto("closeJoin")
          /\ UNCHANGED <<process, bridgeVars, ownerVars, session_type_, acceptVars,
                         inbox, dispatch, handed, clientVars, history>>

CloseJoin ==
  /\ main = "closeJoin" /\ Joined(old["main"])
  /\ Free(old["main"]) /\ MainGoto("serverStop")
  /\ UNCHANGED <<process, bridgeVars, ownerVars, session_type_, acceptVars,
                 inbox, dispatch, handed, clientVars, history>>

(* Server::stop closes the socket, and joins the accept thread.            *)
ServerStop ==
  /\ main = "serverStop"
  /\ server' = "stopped" /\ MainGoto("serverJoin")
  /\ UNCHANGED <<process, bridgeVars, ownerVars, session_type_, accept, arriving,
                 sessionVars, clientVars, history>>

ServerJoin ==
  /\ main = "serverJoin" /\ accept = "ended"
  /\ MainGoto("resetBridge")
  /\ UNCHANGED <<process, bridgeVars, ownerVars, session_type_, acceptVars,
                 sessionVars, clientVars, history>>

(* debug_bridge_.reset(): the registry's destructor writes to its VMs.     *)
(* The stop of ~Debugger finds the bridge gone, and ends the process.      *)
ResetBridge ==
  /\ main = "resetBridge"
  /\ IF ~debug_bridge_
     THEN /\ process' = "done"
          /\ UNCHANGED <<mainVars, bridgeVars>>
     ELSE IF ~(lua_vms_ \subseteq open)
     THEN /\ process' = "closed_vm"
          /\ UNCHANGED <<mainVars, bridgeVars>>
     ELSE /\ debug_bridge_' = FALSE /\ lua_vms_' = {} /\ main' = "closing"
          /\ UNCHANGED <<process, open, bridge_session>>
  /\ UNCHANGED <<ownerVars, session_type_, acceptVars, sessionVars, clientVars, history>>

(* ~Runtime closes the VMs, then ~Debugger stops once more.                *)
CloseVMs ==
  /\ main = "closing"
  /\ open' = {} /\ main' = "close"
  /\ UNCHANGED <<process, lua_vms_, bridgeVars, ownerVars, session_type_,
                 acceptVars, sessionVars, clientVars, history>>

-----------------------------------------------------------------------------
(* The accept thread: onClientConnected.                                   *)

Late == late' = (late \/ Stopping)

Accept(c) ==
  /\ accept = "idle" /\ server = "listening" /\ object[c] = "none"
  /\ accept' = "read" /\ arriving' = c
  /\ Late
  /\ UNCHANGED <<process, mainVars, bridgeVars, ownerVars, session_type_, server,
                 sessionVars, clientVars, orphaned>>

(* session_ = Session::create().                                           *)
AcceptTake ==
  /\ accept = "read"
  /\ TakeOld("accept")
  /\ object' = [object EXCEPT ![arriving] = "made"]
  /\ accept' = "swap"
  /\ Late
  /\ UNCHANGED <<process, mainVars, bridgeVars, session_type_, server, arriving,
                 inbox, dispatch, handed, clientVars, orphaned>>

AcceptSwap ==
  /\ accept = "swap"
  /\ Store(arriving)
  /\ accept' = "destroy"
  /\ Late
  /\ UNCHANGED <<process, mainVars, bridgeVars, session_type_, server, arriving,
                 sessionVars, clientVars, orphaned>>

AcceptDestroy ==
  /\ accept = "destroy"
  /\ IF old["accept"] = None
     THEN /\ accept' = "bind"
          /\ UNCHANGED <<process, object, orphaned>>
     ELSE IF object[old["accept"]] \in {"closing", "gone"}
     THEN /\ process' = "deleted_twice"
          /\ UNCHANGED <<accept, object, orphaned>>
     ELSE /\ Close(old["accept"])
          /\ accept' = "join"
          /\ orphaned' = (orphaned \/ said[old["accept"]] \notin {"nothing", "disconnect"})
          /\ UNCHANGED process
  /\ Late
  /\ UNCHANGED <<mainVars, bridgeVars, ownerVars, session_type_, server, arriving,
                 inbox, dispatch, handed, clientVars>>

AcceptJoin ==
  /\ accept = "join" /\ Joined(old["accept"])
  /\ Free(old["accept"])
  /\ accept' = "bind"
  /\ Late
  /\ UNCHANGED <<process, mainVars, bridgeVars, ownerVars, session_type_, server,
                 arriving, inbox, dispatch, handed, clientVars, orphaned>>

(* The handlers are registered with the session in session_, and it is     *)
(* bound to the connection: its dispatch thread starts.                    *)
Bind ==
  /\ accept = "bind"
  /\ IF session_ = None
     THEN /\ process' = "null_session"
          /\ UNCHANGED <<accept, object, dispatch>>
     ELSE /\ object' = [object EXCEPT ![session_] = "bound"]
          /\ dispatch' = [dispatch EXCEPT ![session_] = "idle"]
          /\ accept' = "idle"
          /\ UNCHANGED process
  /\ Late
  /\ UNCHANGED <<mainVars, bridgeVars, ownerVars, session_type_, server, arriving,
                 inbox, handed, clientVars, orphaned>>

(* accept fails once the socket is closed.                                 *)
AcceptEnd ==
  /\ accept = "idle" /\ server = "stopped"
  /\ accept' = "ended"
  /\ UNCHANGED <<process, mainVars, bridgeVars, ownerVars, session_type_, server,
                 arriving, sessionVars, clientVars, history>>

-----------------------------------------------------------------------------
(* The clients, and the dispatch threads.                                  *)

(* What a client may send after what it has sent.                          *)
MayFollow(r, last) ==
  \/ last = "nothing" /\ r = "initialize"
  \/ last = "initialize" /\ r \in {"launch", "attach", "disconnect"}
  \/ last \in {"launch", "attach", "request"} /\ r \in {"request", "disconnect"}

(* A request arrives in the inbox of a session.  Nothing makes a client    *)
(* send: a connection that breaks is a client that sends no more.          *)
Arrive(c, r) ==
  /\ object[c] = "bound" /\ MayFollow(r, said[c]) /\ Len(inbox[c]) < MaxQueue
  /\ inbox' = [inbox EXCEPT ![c] = Append(@, r)]
  /\ said' = [said EXCEPT ![c] = r]
  /\ UNCHANGED <<process, mainVars, bridgeVars, ownerVars, session_type_, acceptVars,
                 object, dispatch, handed, mode, history>>

(* Mutant: onDisconnect leaves the bridge its session.                     *)
OnDisconnectKeeps == UNCHANGED bridge_session

(* DebugBridge::onDisconnect's last assignment.                            *)
OnDisconnect == bridge_session' = None

(* Mutant: an attach relies on the initial value.                          *)
SetTypeOfLaunch(r) == session_type_' = IF r = "launch" THEN r ELSE session_type_

(* Mutant: a type that DebugSession does not have.                         *)
SetTypeUnknown(r) == session_type_' = "unknown"

(* The handlers of launch and attach.                                      *)
SetType(r) == session_type_' = r

(* The dispatch thread takes a request and runs its handler.               *)
Take(c) == /\ dispatch[c] = "idle" /\ inbox[c] # <<>>
           /\ inbox' = [inbox EXCEPT ![c] = Tail(@)]

Initialize(c) ==
  /\ Take(c) /\ Head(inbox[c]) = "initialize"
  /\ dispatch' = [dispatch EXCEPT ![c] = "initialized"]
  /\ UNCHANGED <<process, mainVars, bridgeVars, ownerVars, session_type_, acceptVars,
                 object, handed, clientVars, history>>

LaunchOrAttach(c) ==
  /\ Take(c) /\ Head(inbox[c]) \in {"launch", "attach"}
  /\ SetType(Head(inbox[c]))
  /\ mode' = [mode EXCEPT ![c] = Head(inbox[c])]
  /\ UNCHANGED <<process, mainVars, bridgeVars, ownerVars, acceptVars,
                 object, dispatch, handed, said, history>>

(* Any other handler uses the bridge.                                      *)
UseBridge(c) ==
  /\ Take(c) /\ Head(inbox[c]) = "request"
  /\ process' = IF debug_bridge_ THEN process ELSE "null_bridge"
  /\ UNCHANGED <<mainVars, bridgeVars, ownerVars, session_type_, acceptVars,
                 object, dispatch, handed, clientVars, history>>

Disconnect(c) ==
  /\ Take(c) /\ Head(inbox[c]) = "disconnect"
  /\ IF debug_bridge_
     THEN /\ OnDisconnect
          /\ dispatch' = [dispatch EXCEPT ![c] = "disconnected"]
          /\ UNCHANGED <<process, debug_bridge_>>
     ELSE /\ process' = "null_bridge"
          /\ UNCHANGED <<bridgeVars, dispatch>>
  /\ UNCHANGED <<mainVars, ownerVars, session_type_, acceptVars,
                 object, handed, clientVars, history>>

(* The sent-callback of the disconnect response: std::exit.                *)
Disconnected(c) ==
  /\ dispatch[c] = "disconnected"
  /\ dispatch' = [dispatch EXCEPT ![c] = "idle"]
  /\ process' = IF session_type_ = "launch" THEN "exited" ELSE process
  /\ UNCHANGED <<mainVars, bridgeVars, ownerVars, session_type_, acceptVars,
                 object, inbox, handed, clientVars, history>>

(* The sent-callback of the initialize response sends an event through     *)
(* session_, then reads it to hand it to the bridge.                       *)
Initialized(c) ==
  /\ dispatch[c] = "initialized"
  /\ IF session_ = None
     THEN /\ process' = "null_session"
          /\ UNCHANGED <<dispatch, handed>>
     ELSE /\ handed' = [handed EXCEPT ![c] = session_]
          /\ dispatch' = [dispatch EXCEPT ![c] = "connect"]
          /\ UNCHANGED process
  /\ UNCHANGED <<mainVars, bridgeVars, ownerVars, session_type_, acceptVars,
                 object, inbox, clientVars, history>>

OnConnect(c) ==
  /\ dispatch[c] = "connect"
  /\ IF debug_bridge_
     THEN /\ bridge_session' = handed[c]
          /\ dispatch' = [dispatch EXCEPT ![c] = "idle"]
          /\ handed' = [handed EXCEPT ![c] = None]
          /\ UNCHANGED <<process, debug_bridge_>>
     ELSE /\ process' = "null_bridge"
          /\ UNCHANGED <<bridgeVars, dispatch, handed>>
  /\ UNCHANGED <<mainVars, ownerVars, session_type_, acceptVars,
                 object, inbox, clientVars, history>>

(* The inbox is closed and empty: the thread ends.                         *)
DispatchEnd(c) ==
  /\ dispatch[c] = "idle" /\ inbox[c] = <<>> /\ object[c] = "closing"
  /\ dispatch' = [dispatch EXCEPT ![c] = "ended"]
  /\ UNCHANGED <<process, mainVars, bridgeVars, ownerVars, session_type_, acceptVars,
                 object, inbox, handed, clientVars, history>>

-----------------------------------------------------------------------------
Script == Listen \/ TestSession \/ Stop
          \/ \E v \in VMs : InstallDebugger(v) \/ Reset(v)

MainStep == \/ SendEvent \/ CloseTake \/ CloseSwap \/ CloseDestroy \/ CloseJoin
            \/ ServerStop \/ ServerJoin \/ ResetBridge \/ CloseVMs
            \/ \E v \in VMs : Reopen(v)

AcceptStep == \/ AcceptTake \/ AcceptSwap \/ AcceptDestroy \/ AcceptJoin
              \/ Bind \/ AcceptEnd

DispatchStep(c) == \/ Initialize(c) \/ LaunchOrAttach(c) \/ UseBridge(c)
                   \/ Disconnect(c) \/ Disconnected(c) \/ Initialized(c)
                   \/ OnConnect(c) \/ DispatchEnd(c)

Client(c) == Accept(c) \/ \E r \in Requests : Arrive(c, r)

Step == Script \/ MainStep \/ AcceptStep
        \/ \E c \in Clients : DispatchStep(c) \/ Client(c)

Alive == process = "alive"

Ended == process # "alive" /\ UNCHANGED vars

Next == (Alive /\ Step) \/ Ended

Spec == Init /\ [][Next]_vars

(* The threads inside the debugger are scheduled by the operating system,  *)
(* and handlers return.  No client has to connect or to send, and no       *)
(* script to end.                                                          *)
Fairness == /\ WF_vars(Alive /\ MainStep)
            /\ WF_vars(Alive /\ AcceptStep)
            /\ \A c \in Clients : WF_vars(Alive /\ DispatchStep(c))

FairSpec == Spec /\ Fairness

-----------------------------------------------------------------------------
(* Safety.                                                                 *)

Serving(c) == dispatch[c] \notin {"none", "ended"}

(* The handlers of one session never run beside those of another, which is *)
(* what lets them share the bridge with no lock among themselves: the      *)
(* dispatch thread of the old session is joined before the new one starts. *)
(* (A client that connects while the debugger stops escapes it.)           *)
OneDispatcher ==
  ~late => \A c, d \in Clients : Serving(c) /\ Serving(d) => c = d

(* What each fault needs.  The bridge's pointer dangles only if a client   *)
(* came in place of one that had not left, and a session is deleted twice, *)
(* or the bridge used after its end, only if a client came while the       *)
(* debugger stopped; a null session is used only beside a disconnect or a  *)
(* stop; and a VM that was closed is never written to.                     *)
FaultsExplained ==
  /\ process = "freed_session" => orphaned
  /\ process \in {"deleted_twice", "null_bridge"} => late
  /\ process = "null_session" =>
       Stopping \/ \E c \in Clients : said[c] = "disconnect"
  /\ process # "closed_vm"

(* A disconnect ends the process if the client had launched it, and not if *)
(* it had attached: session_type_ is the debugger's, and no client that    *)
(* follows may change it before the callback has read it.                  *)
ExitsForLauncher ==
  [][\A c \in Clients :
       dispatch[c] = "disconnected" /\ dispatch'[c] = "idle" /\ ~late
         => /\ mode[c] = "launch" => process' = "exited"
            /\ mode[c] = "attach" => process' = "alive"]_vars

(* What makes them inductive.                                              *)

(* The accept thread puts one client at a time in session_; until then its *)
(* session has no thread.                                                  *)
Arriving ==
  /\ accept \in {"read", "swap", "destroy", "join", "bind"} =>
       arriving \in Clients /\ dispatch[arriving] = "none"
  /\ accept \in {"destroy", "join", "bind"} =>
       session_ = arriving \/ (Stopping /\ session_ = None)
  /\ accept = "swap" /\ ~Stopping => old["accept"] = session_
  /\ \A c \in Clients : /\ object[c] = "none" => dispatch[c] = "none"
                        /\ dispatch[c] = "none" => mode[c] = "none"
  /\ late => Stopping
  /\ main = "start" => accept = "off"

(* Who is served, as the accept thread goes along.                         *)
Single ==
  ~Stopping =>
    \A c \in Clients : Serving(c) =>
      /\ accept # "bind"
      /\ c = IF accept \in {"destroy", "join"} THEN old["accept"] ELSE session_

(* The type of the session is what the client that is served has asked.    *)
TypeOfServed ==
  ~late => \A c \in Clients : Serving(c) /\ mode[c] # "none" => session_type_ = mode[c]

(* The bridge goes before the VMs it would write to: it knows only open    *)
(* ones, and none once it is gone.                                         *)
VMsOpen ==
  /\ lua_vms_ \subseteq open
  /\ ~debug_bridge_ => lua_vms_ = {} /\ Stopping
  /\ main = "closing" => ~debug_bridge_
  /\ process # "closed_vm"

ServeInv == Arriving /\ Single /\ OneDispatcher /\ TypeOfServed

(* What the faults of sessions depend on.                                  *)

Live(s) == s = None \/ object[s] \in {"made", "bound"}

(* Nothing is left in session_ from here on.                               *)
Emptied == \/ main \in {"closeDestroy", "closeJoin", "serverStop", "serverJoin",
                        "resetBridge", "closing"}
           \/ ~debug_bridge_

(* Until a client is late, what is deleted was not deleted before.         *)
Owned ==
  /\ ~Stopping =>
       /\ accept = "read" => object[arriving] = "none"
       /\ accept \in {"swap", "destroy", "join", "bind"} => object[arriving] = "made"
       /\ accept = "swap" => session_ # arriving
       /\ accept = "destroy" => Live(old["accept"]) /\ old["accept"] # arriving
       /\ accept = "join" => old["accept"] \in Clients \ {arriving}
  /\ ~late =>
       /\ Live(session_)
       /\ Emptied => session_ = None
       /\ main = "closeSwap" => old["main"] = session_
       /\ main = "closeDestroy" => Live(old["main"])

(* Until then, too, the sessions that are served are still held by someone *)
(* who waits for their threads, and so none outlives the bridge.           *)
Deleting == {"closeSwap", "closeDestroy", "closeJoin"}

Served ==
  /\ ~late => \A c \in Clients : Serving(c) =>
       \/ session_ = c
       \/ accept \in {"destroy", "join"} /\ old["accept"] = c
       \/ main \in Deleting /\ old["main"] = c
  /\ \A c \in Clients : Serving(c) => object[c] \in {"bound", "closing"}
  /\ ~debug_bridge_ \/ main \in {"resetBridge", "closing"} => accept = "ended"
  /\ ~late /\ ~debug_bridge_ /\ main \in Deleting => old["main"] = None

(* A disconnect is the last request of an inbox, and of a client.          *)
Leaving(c) == said[c] = "disconnect" /\ inbox[c] = <<>>

LastSaid(c) ==
  /\ inbox[c] # <<>> => said[c] = inbox[c][Len(inbox[c])]
  /\ \A i \in 1 .. Len(inbox[c]) - 1 : inbox[c][i] # "disconnect"

Queues ==
  \A c \in Clients :
    /\ LastSaid(c)
    /\ dispatch[c] \in {"initialized", "connect"} => said[c] # "nothing" /\ ~Leaving(c)

(* What the thread of c may have read in session_.                         *)
Reached(c, s) == s = c \/ (accept \in {"destroy", "join"} /\ s = arriving)

Handing ==
  ~Stopping => \A c \in Clients : dispatch[c] = "connect" => Reached(c, handed[c])

(* A session that is deleted beside no broken connection has been left.    *)
Parting ==
  ~Stopping /\ ~orphaned =>
    \A c \in Clients : object[c] = "closing" => said[c] \in {"nothing", "disconnect"}

(* The bridge's session is that of a client who is still served and has    *)
(* not left, or the one that just took its place.                          *)
Holds(c) == /\ Serving(c) /\ said[c] # "nothing" /\ ~Leaving(c)
            /\ Reached(c, bridge_session)

Held ==
  ~Stopping /\ ~orphaned /\ bridge_session # None => \E c \in Clients : Holds(c)

(* An event that was to be sent finds no session only after a disconnect.  *)
Lost ==
  ~Stopping /\ main = "sending" /\ bridge_session = None =>
    \E c \in Clients : said[c] = "disconnect"

Connected == Handing /\ Parting /\ Held /\ Lost

FaultInv == Owned /\ Served /\ Queues /\ Connected /\ FaultsExplained

-----------------------------------------------------------------------------
(* Liveness, under FairSpec.                                               *)

(* Debugger::stop and the destructors after it come to their end: the main *)
(* thread and the accept thread do not wait for each other, nor for a      *)
(* session that nobody closes.                                             *)
StopReturns == Stopping ~> ~Alive

=============================================================================
