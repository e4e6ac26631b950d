--------------------------- MODULE Sessions_proofs ---------------------------
(***************************************************************************)
(* Proofs about Sessions, for any number of clients and VMs and any length *)
(* of an inbox.                                                            *)
(***************************************************************************)
EXTENDS Sessions, TLAPS

USE DEF mainVars, bridgeVars, ownerVars, acceptVars, sessionVars, clientVars, history

-----------------------------------------------------------------------------
(* Type correctness.                                                       *)

(* The Boolean variables keep their type.                                  *)
LEMMA FlagsStep == FlagsOK /\ [Next]_vars => FlagsOK'
<1> SUFFICES ASSUME FlagsOK, [Next]_vars PROVE FlagsOK'
  OBVIOUS
<1> USE DEF FlagsOK, MainGoto, Fault, Late, Stopping
<1>1. CASE Script
  BY <1>1 DEF Script, Listen, TestSession, Stop, InstallDebugger, Reset
<1>2. CASE MainStep
  BY <1>2 DEF MainStep, SendEvent, CloseTake, CloseSwap, CloseDestroy, CloseJoin,
              ServerStop, ServerJoin, ResetBridge, CloseVMs, Reopen
<1>3. CASE AcceptStep
  BY <1>3 DEF AcceptStep, AcceptTake, AcceptSwap, AcceptDestroy, AcceptJoin, Bind,
              AcceptEnd
<1>4. ASSUME NEW c \in Clients, DispatchStep(c) \/ Client(c) PROVE FlagsOK'
  BY <1>4 DEF DispatchStep, Client, Initialize, LaunchOrAttach, UseBridge, Disconnect,
              Disconnected, Initialized, OnConnect, DispatchEnd, Accept, Arrive
<1> QED
  BY <1>1, <1>2, <1>3, <1>4 DEF Next, Step, Ended, vars

(* The initial states are of the type.                                     *)
LEMMA TypeInit == Init => TypeOK
<1> SUFFICES ASSUME Init PROVE TypeOK
  OBVIOUS
<1> USE DEF Init
<1>1. FlagsOK
  BY Zenon DEF FlagsOK
<1>2. ControlOK
  BY DEF ControlOK, StopPCs, AcceptPCs, DispatchPCs
<1>3. PointersOK
  BY DEF PointersOK, Pointers
<1>4. ObjectsOK
  BY DEF ObjectsOK
<1>5. RequestsOK
  BY DEF RequestsOK
<1> QED BY <1>1, <1>2, <1>3, <1>4, <1>5 DEF TypeOK

(* The program counters keep their type.                                   *)
LEMMA ControlStep == TypeOK /\ [Next]_vars => ControlOK'
<1> SUFFICES ASSUME TypeOK, [Next]_vars PROVE ControlOK'
  OBVIOUS
<1> USE NoneAssumption DEF TypeOK, ControlOK, Faults, StopPCs, AcceptPCs, DispatchPCs,
          MainGoto, Fault
<1>1. CASE Script
  BY <1>1 DEF Script, Listen, TestSession, Stop, InstallDebugger, Reset
<1>2. CASE MainStep
  BY <1>2 DEF MainStep, SendEvent, CloseTake, CloseSwap, CloseDestroy, CloseJoin,
              ServerStop, ServerJoin, ResetBridge, CloseVMs, Reopen
<1>3. CASE AcceptStep
  BY <1>3 DEF AcceptStep, AcceptTake, AcceptSwap, AcceptDestroy, AcceptJoin, Bind,
              AcceptEnd
<1>4. ASSUME NEW c \in Clients, DispatchStep(c) \/ Client(c) PROVE ControlOK'
  BY <1>4 DEF DispatchStep, Client, Initialize, LaunchOrAttach, UseBridge, Disconnect,
              Disconnected, Initialized, OnConnect, DispatchEnd, Accept, Arrive
<1> QED
  BY <1>1, <1>2, <1>3, <1>4 DEF Next, Step, Ended, vars

(* What points to a session keeps its type.                                *)
LEMMA PointersStep == TypeOK /\ [Next]_vars => PointersOK'
<1> SUFFICES ASSUME TypeOK, [Next]_vars PROVE PointersOK'
  OBVIOUS
<1> USE NoneAssumption DEF TypeOK, PointersOK, Pointers, MainGoto, Fault,
          TakeOld, Store, OnDisconnect
<1>1. CASE Script
  BY <1>1 DEF Script, Listen, TestSession, Stop, InstallDebugger, Reset
<1>2. CASE MainStep
  BY <1>2 DEF MainStep, SendEvent, CloseTake, CloseSwap, CloseDestroy, CloseJoin,
              ServerStop, ServerJoin, ResetBridge, CloseVMs, Reopen
<1>3. CASE AcceptStep
  BY <1>3 DEF AcceptStep, AcceptTake, AcceptSwap, AcceptDestroy, AcceptJoin, Bind,
              AcceptEnd
<1>4. ASSUME NEW c \in Clients, DispatchStep(c) \/ Client(c) PROVE PointersOK'
  BY <1>4 DEF DispatchStep, Client, Initialize, LaunchOrAttach, UseBridge, Disconnect,
              Disconnected, Initialized, OnConnect, DispatchEnd, Accept, Arrive
<1> QED
  BY <1>1, <1>2, <1>3, <1>4 DEF Next, Step, Ended, vars

(* The VMs and the session objects keep their type.                        *)
LEMMA ObjectsStep == TypeOK /\ [Next]_vars => ObjectsOK'
<1> SUFFICES ASSUME TypeOK, [Next]_vars PROVE ObjectsOK'
  OBVIOUS
<1> USE DEF TypeOK, ObjectsOK, MainGoto, Fault, Release, Close, Free
<1>1. CASE Script
  BY <1>1 DEF Script, Listen, TestSession, Stop, InstallDebugger, Reset
<1>2. CASE MainStep
  BY <1>2 DEF MainStep, SendEvent, CloseTake, CloseSwap, CloseDestroy, CloseJoin,
              ServerStop, ServerJoin, ResetBridge, CloseVMs, Reopen
<1>3. CASE AcceptStep
  BY <1>3 DEF AcceptStep, AcceptTake, AcceptSwap, AcceptDestroy, AcceptJoin, Bind,
              AcceptEnd
<1>4. ASSUME NEW c \in Clients, DispatchStep(c) \/ Client(c) PROVE ObjectsOK'
  BY <1>4 DEF DispatchStep, Client, Initialize, LaunchOrAttach, UseBridge, Disconnect,
              Disconnected, Initialized, OnConnect, DispatchEnd, Accept, Arrive
<1> QED
  BY <1>1, <1>2, <1>3, <1>4 DEF Next, Step, Ended, vars

(* A request that is taken was one, and the rest of the inbox is an inbox. *)
LEMMA TakeType ==
  ASSUME TypeOK, NEW c \in Clients, Take(c)
  PROVE  Head(inbox[c]) \in Requests /\ inbox' \in [Clients -> Seq(Requests)]
<1>1. inbox[c] \in Seq(Requests) /\ inbox[c] # <<>>
  BY DEF TypeOK, RequestsOK, Take
<1>2. Head(inbox[c]) \in Requests /\ Tail(inbox[c]) \in Seq(Requests)
  BY <1>1
<1> QED BY <1>2 DEF TypeOK, RequestsOK, Take

(* The requests and what they leave keep their type.                       *)
LEMMA RequestsStep == TypeOK /\ [Next]_vars => RequestsOK'
<1> SUFFICES ASSUME TypeOK, [Next]_vars PROVE RequestsOK'
  OBVIOUS
<1> USE DEF TypeOK, RequestsOK, MainGoto, Fault, SetType
<1>1. CASE Script
  BY <1>1 DEF Script, Listen, TestSession, Stop, InstallDebugger, Reset
<1>2. CASE MainStep
  BY <1>2 DEF MainStep, SendEvent, CloseTake, CloseSwap, CloseDestroy, CloseJoin,
              ServerStop, ServerJoin, ResetBridge, CloseVMs, Reopen
<1>3. CASE AcceptStep
  BY <1>3 DEF AcceptStep, AcceptTake, AcceptSwap, AcceptDestroy, AcceptJoin, Bind,
              AcceptEnd
<1>4. ASSUME NEW c \in Clients, DispatchStep(c) PROVE RequestsOK'
  <2>1. CASE Take(c)
    BY <1>4, <2>1, TakeType DEF DispatchStep, Initialize, LaunchOrAttach, UseBridge,
                                Disconnect, Disconnected, Initialized, OnConnect,
                                DispatchEnd
  <2>2. CASE ~Take(c)
    BY <1>4, <2>2 DEF DispatchStep, Initialize, LaunchOrAttach, UseBridge, Disconnect,
                      Disconnected, Initialized, OnConnect, DispatchEnd
  <2> QED BY <2>1, <2>2
<1>5. ASSUME NEW c \in Clients, Client(c) PROVE RequestsOK'
  <2>1. CASE Accept(c)
    BY <2>1 DEF Accept
  <2>2. ASSUME NEW r \in Requests, Arrive(c, r) PROVE RequestsOK'
    <3>1. inbox' \in [Clients -> Seq(Requests)]
      <4>1. Append(inbox[c], r) \in Seq(Requests)
        BY <2>2
      <4> QED BY <4>1, <2>2 DEF Arrive
    <3> QED BY <3>1, <2>2 DEF Arrive
  <2> QED BY <1>5, <2>1, <2>2 DEF Client
<1> QED
  BY <1>1, <1>2, <1>3, <1>4, <1>5 DEF Next, Step, Ended, vars

(* Every step keeps the type.                                              *)
LEMMA TypeStep == TypeOK /\ [Next]_vars => TypeOK'
  BY FlagsStep, ControlStep, PointersStep, ObjectsStep, RequestsStep DEF TypeOK

(* The type invariant of the sessions.                                     *)
THEOREM TypeCorrect == Spec => []TypeOK
  BY TypeInit, TypeStep, PTL DEF Spec


-----------------------------------------------------------------------------
(* One dispatcher at a time.                                               *)

(* Nothing is served at the start.                                         *)
LEMMA ServeInit == Init => ServeInv
  BY DEF Init, ServeInv, Arriving, Single, OneDispatcher, TypeOfServed, Serving, Stopping

(* What a step of the main thread leaves alone.  Once it stops the         *)
(* debugger it never starts again.                                         *)
LEMMA MainFrame ==
  ASSUME TypeOK, Script \/ MainStep
  PROVE  /\ Stopping => Stopping'
         /\ ~Stopping => session_' = session_ /\ old' = old /\ object' = object
         /\ session_' \in {session_, None}
         /\ \A c \in Clients : object'[c] = "none" => object[c] = "none"
         /\ old'["accept"] = old["accept"]
         /\ accept' = accept \/ (accept' \in {"idle", "ended"} /\ main = "start")
         /\ main' # "start"
         /\ UNCHANGED <<arriving, dispatch, mode, session_type_, late, inbox, said, handed,
                        orphaned>>
<1> USE DEF Stopping, StopPCs, MainGoto, Fault, TypeOK, PointersOK, ObjectsOK
<1>1. CASE Script
  BY <1>1 DEF Script, Listen, TestSession, Stop, InstallDebugger, Reset
<1>2. CASE SendEvent \/ CloseTake \/ CloseSwap \/ ServerStop \/ ServerJoin \/ ResetBridge
              \/ CloseVMs \/ \E v \in VMs : Reopen(v)
  BY <1>2 DEF SendEvent, CloseTake, CloseSwap, TakeOld, Store, ServerStop, ServerJoin,
              ResetBridge, CloseVMs, Reopen
<1>3. CASE CloseDestroy \/ CloseJoin
  BY <1>3 DEF CloseDestroy, CloseJoin, Close, Free
<1> QED
  BY <1>1, <1>2, <1>3 DEF MainStep

(* What the accept thread may have done, and for whom, is as before.       *)
LEMMA ServeMain ==
  ASSUME TypeOK, TypeOK', ServeInv, Script \/ MainStep
  PROVE  ServeInv'
<1> USE MainFrame DEF ServeInv
<1>1. Arriving'
  BY DEF Arriving
<1>2. Single'
  BY DEF Arriving, Single, Serving
<1>3. OneDispatcher'
  BY DEF OneDispatcher, Serving
<1>4. TypeOfServed'
  BY DEF TypeOfServed, Serving
<1> QED BY <1>1, <1>2, <1>3, <1>4

(* A step of a dispatch thread serves no one else.                         *)
LEMMA DispatchFrame ==
  ASSUME TypeOK, NEW c \in Clients, DispatchStep(c)
  PROVE  /\ UNCHANGED <<mainVars, ownerVars, acceptVars, object, said, history, debug_bridge_>>
         /\ Serving(c)
         /\ dispatch'[c] # "none"
         /\ \A d \in Clients \ {c} : dispatch'[d] = dispatch[d] /\ mode'[d] = mode[d]
         /\ \/ session_type_' = session_type_ /\ mode'[c] = mode[c]
            \/ session_type_' = mode'[c]
<1> USE DEF Serving, Take, TypeOK, ControlOK, RequestsOK
<1>1. CASE Initialize(c) \/ UseBridge(c) \/ Disconnect(c)
  BY <1>1 DEF Initialize, UseBridge, Disconnect
<1>2. CASE LaunchOrAttach(c)
  BY <1>2 DEF LaunchOrAttach, SetType
<1>3. CASE Disconnected(c) \/ Initialized(c) \/ OnConnect(c) \/ DispatchEnd(c)
  BY <1>3 DEF Disconnected, Initialized, OnConnect, DispatchEnd
<1> QED BY <1>1, <1>2, <1>3 DEF DispatchStep

LEMMA ServeDispatch ==
  ASSUME TypeOK, TypeOK', ServeInv, NEW c \in Clients, DispatchStep(c)
  PROVE  ServeInv'
<1> USE DispatchFrame DEF ServeInv
<1>0. /\ Stopping' <=> Stopping
      /\ \A d \in Clients : Serving(d)' => Serving(d)
      /\ \A d \in Clients : dispatch[d] = "none" => d # c
  BY DEF Stopping, Serving
<1>1. Arriving'
  BY <1>0, DispatchFrame DEF Arriving, Serving, TypeOK, PointersOK
<1>2. Single'
  BY <1>0 DEF Single
<1>3. OneDispatcher'
  BY <1>0 DEF OneDispatcher
<1>4. TypeOfServed'
  BY <1>0 DEF TypeOfServed, OneDispatcher
<1> QED BY <1>1, <1>2, <1>3, <1>4

(* Every step of the accept thread, which serves a new client only when    *)
(* the one before it is done.                                              *)
LEMMA ServeAccept ==
  ASSUME TypeOK, TypeOK', ServeInv, AcceptStep
  PROVE  ServeInv'
<1> USE NoneAssumption DEF ServeInv, Late
<1>a. UNCHANGED mainVars /\ (Stopping' <=> Stopping)
  BY DEF AcceptStep, AcceptTake, AcceptSwap, AcceptDestroy, AcceptJoin, Bind, AcceptEnd,
         Stopping
<1>b. ~Bind => UNCHANGED <<dispatch, mode, session_type_>>
  BY DEF AcceptStep, AcceptTake, AcceptSwap, AcceptDestroy, AcceptJoin, AcceptEnd
<1>c. AcceptEnd \/ (late' <=> (late \/ Stopping))
  BY DEF AcceptStep, AcceptTake, AcceptSwap, AcceptDestroy, AcceptJoin, Bind, AcceptEnd
<1>1. CASE AcceptTake
  <2>1. Arriving'
    BY <1>1, <1>a, <1>b, <1>c DEF AcceptTake, TakeOld, Arriving, TypeOK, PointersOK, ObjectsOK
  <2>2. Single' /\ OneDispatcher' /\ TypeOfServed'
    BY <1>1, <1>a, <1>b, <1>c DEF AcceptTake, TakeOld, Single, OneDispatcher, TypeOfServed,
       Serving
  <2> QED BY <2>1, <2>2
<1>2. CASE AcceptSwap
  <2>1. Arriving'
    BY <1>2, <1>a, <1>b, <1>c DEF AcceptSwap, Store, Arriving
  <2>2. Single' /\ OneDispatcher' /\ TypeOfServed'
    BY <1>2, <1>a, <1>b, <1>c DEF AcceptSwap, Store, Arriving, Single, OneDispatcher,
       TypeOfServed, Serving
  <2> QED BY <2>1, <2>2
<1>3. CASE AcceptDestroy
  <2>1. Arriving'
    BY <1>3, <1>a, <1>b, <1>c DEF AcceptDestroy, Close, Arriving, TypeOK, PointersOK, ObjectsOK
  <2>2. Single' /\ OneDispatcher' /\ TypeOfServed'
    BY <1>3, <1>a, <1>b, <1>c DEF AcceptDestroy, Arriving, Single, OneDispatcher,
       TypeOfServed, Serving
  <2> QED BY <2>1, <2>2
<1>4. CASE AcceptJoin
  <2>1. Arriving'
    BY <1>4, <1>a, <1>b, <1>c DEF AcceptJoin, Free, Arriving, TypeOK, PointersOK, ObjectsOK
  <2>2. Single' /\ OneDispatcher' /\ TypeOfServed'
    BY <1>4, <1>a, <1>b, <1>c DEF AcceptJoin, Joined, Arriving, Single, OneDispatcher,
       TypeOfServed, Serving
  <2> QED BY <2>1, <2>2
<1>5. CASE Bind
  <2>1. Arriving'
    BY <1>5, <1>a, <1>c DEF Bind, Arriving, TypeOK, PointersOK, ObjectsOK, ControlOK
  <2>2. CASE Stopping \/ session_ = None
    BY <1>5, <1>a, <1>c, <2>1, <2>2 DEF Bind, Arriving, Single, OneDispatcher, TypeOfServed
  <2>3. CASE ~Stopping /\ session_ # None
    <3>1. /\ session_ = arriving /\ arriving \in Clients
          /\ \A c \in Clients : ~Serving(c)
      BY <1>5, <2>3 DEF Bind, Arriving, Single
    <3>2. \A c \in Clients : Serving(c)' => c = arriving /\ mode'[c] = "none"
      BY <1>5, <2>3, <3>1 DEF Bind, Serving, Arriving, TypeOK, ControlOK
    <3>3. Single' /\ OneDispatcher' /\ TypeOfServed'
      BY <1>5, <2>3, <3>1, <3>2 DEF Bind, Single, OneDispatcher, TypeOfServed
    <3> QED BY <2>1, <3>3
  <2> QED BY <2>2, <2>3
<1>6. CASE AcceptEnd
  BY <1>6, <1>a DEF AcceptEnd, Arriving, Single, OneDispatcher, TypeOfServed, Serving
<1> QED BY <1>1, <1>2, <1>3, <1>4, <1>5, <1>6 DEF AcceptStep

(* A client connects, or sends.                                            *)
LEMMA ServeClient ==
  ASSUME TypeOK, TypeOK', ServeInv, NEW c \in Clients, Client(c)
  PROVE  ServeInv'
<1> USE DEF ServeInv, Arriving, Single, OneDispatcher, TypeOfServed, Serving, Stopping
<1>1. CASE Accept(c)
  BY <1>1 DEF Accept, Late
<1>2. ASSUME NEW r \in Requests, Arrive(c, r) PROVE ServeInv'
  BY <1>2 DEF Arrive
<1> QED BY <1>1, <1>2 DEF Client

(* Every step keeps the invariant of the sessions that are served.         *)
LEMMA ServeStep == TypeOK /\ TypeOK' /\ ServeInv /\ [Next]_vars => ServeInv'
<1> SUFFICES ASSUME TypeOK, TypeOK', ServeInv, [Next]_vars PROVE ServeInv'
  OBVIOUS
<1>1. CASE UNCHANGED vars
  BY <1>1 DEF vars, ServeInv, Arriving, Single, OneDispatcher, TypeOfServed, Serving,
              Stopping
<1> QED
  BY <1>1, ServeMain, ServeDispatch, ServeAccept, ServeClient DEF Next, Step, Ended

(* The invariant of the sessions that are served.                          *)
LEMMA ServeHolds == Spec => []ServeInv
<1>1. Init => TypeOK /\ ServeInv
  BY TypeInit, ServeInit
<1>2. TypeOK /\ ServeInv /\ [Next]_vars => (TypeOK /\ ServeInv)'
  BY TypeStep, ServeStep
<1> QED BY <1>1, <1>2, PTL DEF Spec

(* No two clients are ever served at once, as long as none comes while the *)
(* debugger stops.                                                         *)
THEOREM OneAtATime == Spec => []OneDispatcher
<1>1. ServeInv => OneDispatcher
  BY DEF ServeInv
<1> QED BY <1>1, ServeHolds, PTL

(* A step from disconnected to idle is that of the callback: only it, and  *)
(* Bind of a session that has no thread yet, make a thread idle.           *)
LEMMA ExitStep ==
  ASSUME TypeOK, ServeInv, [Next]_vars, NEW c \in Clients,
         dispatch[c] = "disconnected", dispatch'[c] = "idle", ~late
  PROVE  /\ mode[c] = "launch" => process' = "exited"
         /\ mode[c] = "attach" => process' = "alive"
<1>1. Alive /\ Step
  BY DEF Next, Ended, vars
<1>2. ~(Script \/ MainStep)
  BY MainFrame
<1>3. ~AcceptStep
  <2>1. ~(AcceptStep /\ ~Bind)
    BY DEF AcceptStep, AcceptTake, AcceptSwap, AcceptDestroy, AcceptJoin, AcceptEnd
  <2>2. ~Bind
    BY DEF Bind, ServeInv, Arriving, TypeOK, ControlOK
  <2> QED BY <2>1, <2>2
<1>4. \A d \in Clients : ~Client(d)
  BY DEF Client, Accept, Arrive
<1>5. DispatchStep(c)
  BY <1>1, <1>2, <1>3, <1>4, DispatchFrame DEF Step
<1>6. Disconnected(c)
  BY <1>5 DEF DispatchStep, Initialize, LaunchOrAttach, UseBridge, Disconnect,
              Initialized, OnConnect, DispatchEnd, Take
<1>7. mode[c] # "none" => session_type_ = mode[c]
  BY DEF ServeInv, TypeOfServed, Serving
<1> QED BY <1>1, <1>6, <1>7 DEF Disconnected, Alive

(* A disconnect ends the process exactly if its client had launched it.    *)
THEOREM ExitsAsLaunched == Spec => ExitsForLauncher
<1>1. TypeOK /\ ServeInv /\ [Next]_vars
        => [\A c \in Clients :
              dispatch[c] = "disconnected" /\ dispatch'[c] = "idle" /\ ~late
                => /\ mode[c] = "launch" => process' = "exited"
                   /\ mode[c] = "attach" => process' = "alive"]_vars
  BY ExitStep
<1> QED BY <1>1, TypeCorrect, ServeHolds, PTL DEF Spec, ExitsForLauncher

-----------------------------------------------------------------------------
(* The VMs.                                                                *)

LEMMA VMsOpenStep == VMsOpen /\ [Next]_vars => VMsOpen'
<1> SUFFICES ASSUME VMsOpen, [Next]_vars PROVE VMsOpen'
  OBVIOUS
<1> USE DEF VMsOpen, Stopping, StopPCs, MainGoto, Fault
<1>1. CASE Script
  BY <1>1 DEF Script, Listen, TestSession, Stop, InstallDebugger, Reset, Release
<1>2. CASE SendEvent \/ CloseTake \/ CloseSwap \/ CloseDestroy \/ CloseJoin \/ ServerStop
           \/ ServerJoin
  BY <1>2 DEF SendEvent, CloseTake, CloseSwap, CloseDestroy, CloseJoin, ServerStop,
              ServerJoin
<1>3. CASE ResetBridge \/ CloseVMs \/ \E v \in VMs : Reopen(v)
  BY <1>3 DEF ResetBridge, CloseVMs, Reopen
<1>4. CASE AcceptStep
  BY <1>4 DEF AcceptStep, AcceptTake, AcceptSwap, AcceptDestroy, AcceptJoin, Bind,
              AcceptEnd
<1>5. ASSUME NEW c \in Clients, DispatchStep(c) \/ Client(c) PROVE VMsOpen'
  BY <1>5 DEF DispatchStep, Client, Initialize, LaunchOrAttach, UseBridge, Disconnect,
              OnDisconnect, Disconnected, Initialized, OnConnect, DispatchEnd, Accept, Arrive
<1> QED
  BY <1>1, <1>2, <1>3, <1>4, <1>5 DEF Next, Step, MainStep, Ended, vars

(* The bridge never writes to a VM that luaud has closed, however often it *)
(* resets one and whenever it stops.                                       *)
THEOREM NoClosedVM == Spec => [](process # "closed_vm")
<1>1. Init => VMsOpen
  BY DEF Init, VMsOpen, Stopping, StopPCs
<1>2. VMsOpen => process # "closed_vm"
  BY DEF VMsOpen
<1> QED BY <1>1, <1>2, VMsOpenStep, PTL DEF Spec

-----------------------------------------------------------------------------
(* What the faults of sessions depend on.                                  *)

(* The first parts of the invariant, with what they rest on.               *)
Base == TypeOK /\ ServeInv /\ VMsOpen

LEMMA BaseHolds == Spec => []Base
<1>1. Init => Base
  BY TypeInit, ServeInit DEF Base, Init, VMsOpen, Stopping, StopPCs
<1>2. Base /\ [Next]_vars => Base'
  BY TypeStep, ServeStep, VMsOpenStep DEF Base
<1> QED BY <1>1, <1>2, PTL DEF Spec

(* What the main thread deletes: until a client is late, it is alone.      *)
LEMMA OwnedMain ==
  ASSUME Base, Base', Owned, Script \/ MainStep
  PROVE  Owned'
<1> USE NoneAssumption DEF Owned, Live, Emptied, Stopping, StopPCs, MainGoto, Fault
<1>1. CASE Script
  BY <1>1 DEF Script, Listen, TestSession, Stop, InstallDebugger, Reset, Base, VMsOpen
<1>2. CASE SendEvent \/ CloseTake \/ CloseSwap \/ ServerStop \/ ServerJoin \/ ResetBridge
              \/ CloseVMs \/ \E v \in VMs : Reopen(v)
  BY <1>2 DEF SendEvent, CloseTake, CloseSwap, TakeOld, Store, ServerStop, ServerJoin,
              ResetBridge, CloseVMs, Reopen, Base, TypeOK, PointersOK
<1>3. CASE CloseDestroy \/ CloseJoin
  BY <1>3 DEF CloseDestroy, CloseJoin, Base, TypeOK, PointersOK
<1> QED BY <1>1, <1>2, <1>3 DEF MainStep

(* The accept thread deletes what it took out of session_, which is not    *)
(* the session it makes.                                                   *)
LEMMA OwnedAccept ==
  ASSUME Base, Base', Owned, AcceptStep
  PROVE  Owned'
<1> USE NoneAssumption DEF Owned, Live, Emptied, Late
<1>a. UNCHANGED <<mainVars, debug_bridge_>> /\ (Stopping' <=> Stopping)
  BY DEF AcceptStep, AcceptTake, AcceptSwap, AcceptDestroy, AcceptJoin, Bind, AcceptEnd,
         Stopping
<1>b. AcceptEnd \/ (late' <=> (late \/ Stopping))
  BY DEF AcceptStep, AcceptTake, AcceptSwap, AcceptDestroy, AcceptJoin, Bind, AcceptEnd
<1>c. /\ late => Stopping
      /\ accept \in {"read", "swap", "destroy", "join", "bind"} => arriving \in Clients
      /\ accept \in {"destroy", "join", "bind"} /\ ~Stopping => session_ = arriving
      /\ accept = "swap" /\ ~Stopping => old["accept"] = session_
      /\ old \in [{"main", "accept"} -> Clients \cup {None}] /\ session_ \in Clients \cup {None}
      /\ object \in [Clients -> {"none", "made", "bound", "closing", "gone"}]
      /\ ~Stopping => ~Emptied /\ main \notin {"closeSwap", "closeDestroy"}
  BY DEF Base, ServeInv, Arriving, TypeOK, PointersOK, ObjectsOK, Pointers, VMsOpen,
         Stopping, StopPCs
<1>1. CASE AcceptEnd
  BY <1>1, <1>a DEF AcceptEnd
<1>2. CASE ~AcceptEnd /\ Stopping
  BY <1>2, <1>a, <1>b
<1>3. CASE AcceptTake /\ ~Stopping
  BY <1>3, <1>a, <1>b, <1>c DEF AcceptTake, TakeOld
<1>4. CASE AcceptSwap /\ ~Stopping
  BY <1>4, <1>a, <1>b, <1>c DEF AcceptSwap, Store
<1>5. CASE AcceptDestroy /\ ~Stopping
  BY <1>5, <1>a, <1>b, <1>c DEF AcceptDestroy, Close
<1>6. CASE AcceptJoin /\ ~Stopping
  BY <1>6, <1>a, <1>b, <1>c DEF AcceptJoin, Free
<1>7. CASE Bind /\ ~Stopping
  BY <1>7, <1>a, <1>b, <1>c DEF Bind
<1> QED BY <1>1, <1>2, <1>3, <1>4, <1>5, <1>6, <1>7 DEF AcceptStep

LEMMA OwnedStep == Base /\ Base' /\ Owned /\ [Next]_vars => Owned'
<1> SUFFICES ASSUME Base, Base', Owned, [Next]_vars PROVE Owned'
  OBVIOUS
<1>1. ASSUME NEW c \in Clients, DispatchStep(c) PROVE Owned'
  BY <1>1, DispatchFrame DEF Base, Owned, Live, Emptied, Stopping
<1>2. ASSUME NEW c \in Clients, Client(c) PROVE Owned'
  BY <1>2 DEF Client, Accept, Arrive, Late, Owned, Live, Emptied, Stopping
<1>3. CASE UNCHANGED vars
  BY <1>3 DEF vars, Owned, Live, Emptied, Stopping
<1> QED
  BY <1>1, <1>2, <1>3, OwnedMain, OwnedAccept DEF Next, Step, Ended

(* The main thread waits for the thread of a session it deletes, and the   *)
(* bridge goes after that.                                                 *)
LEMMA ServedMain ==
  ASSUME Base, Base', Owned, Served, Script \/ MainStep
  PROVE  Served'
<1> USE NoneAssumption DEF Served, Serving, Deleting, MainGoto, Fault
<1>a. old["main"] \in Clients \cup {None} /\ old \in [{"main", "accept"} -> Clients \cup {None}]
  BY DEF Base, TypeOK, PointersOK, Pointers
<1>b. UNCHANGED <<dispatch, late>>
  BY MainFrame DEF Base
<1>1. CASE Script
  <2>1. CASE Listen
    BY <2>1, <1>b DEF Listen, Base, VMsOpen, Stopping, StopPCs, ServeInv, Arriving
  <2>2. CASE ~Listen
    BY <1>1, <1>b, <2>2 DEF Script, TestSession, Stop, InstallDebugger, Reset
  <2> QED BY <2>1, <2>2
<1>2. CASE SendEvent \/ ServerStop \/ ServerJoin \/ ResetBridge
              \/ CloseVMs \/ \E v \in VMs : Reopen(v)
  BY <1>2, <1>b DEF SendEvent, ServerStop, ServerJoin, ResetBridge, CloseVMs, Reopen
<1>3. CASE CloseTake
  BY <1>3, <1>a, <1>b DEF CloseTake, TakeOld, Owned, Emptied
<1>6. CASE CloseSwap
  BY <1>6, <1>a, <1>b DEF CloseSwap, Store, Owned
<1>4. CASE CloseDestroy
  BY <1>4, <1>a, <1>b DEF CloseDestroy, Close, Base, TypeOK, ObjectsOK
<1>5. CASE CloseJoin
  BY <1>5, <1>a, <1>b DEF CloseJoin, Joined, Free, Base, TypeOK, ObjectsOK
<1> QED BY <1>1, <1>2, <1>3, <1>4, <1>5, <1>6 DEF MainStep

(* So does the accept thread.                                              *)
LEMMA ServedAccept ==
  ASSUME Base, Base', Owned, Served, AcceptStep
  PROVE  Served'
<1>a. UNCHANGED <<mainVars, debug_bridge_>> /\ old'["main"] = old["main"]
  BY DEF AcceptStep, AcceptTake, AcceptSwap, AcceptDestroy, AcceptJoin, Bind, AcceptEnd,
         TakeOld, Store, Base, TypeOK, PointersOK
<1>b. IF AcceptEnd THEN late' = late /\ accept' = "ended"
      ELSE (~late' => ~late /\ ~Stopping) /\ accept # "ended"
  BY DEF AcceptStep, AcceptTake, AcceptSwap, AcceptDestroy, AcceptJoin, Bind, AcceptEnd, Late
<1>c. /\ accept \in {"read", "swap", "destroy", "join", "bind"} =>
           arriving \in Clients /\ dispatch[arriving] = "none"
      /\ accept \in {"destroy", "join", "bind"} /\ ~Stopping => session_ = arriving
      /\ accept = "swap" /\ ~Stopping => old["accept"] = session_
      /\ old \in [{"main", "accept"} -> Clients \cup {None}] /\ session_ \in Clients \cup {None}
      /\ object \in [Clients -> {"none", "made", "bound", "closing", "gone"}]
      /\ dispatch \in [Clients -> DispatchPCs]
      /\ ~Stopping => main \notin Deleting
  BY DEF Base, ServeInv, Arriving, TypeOK, PointersOK, ObjectsOK, ControlOK, Pointers,
         Deleting, Stopping, StopPCs
<1>d. Bind \/ UNCHANGED dispatch
  BY DEF AcceptStep, AcceptTake, AcceptSwap, AcceptDestroy, AcceptJoin, AcceptEnd
<1>1. /\ ~debug_bridge_' \/ main' \in {"resetBridge", "closing"} => accept' = "ended"
      /\ ~late' /\ ~debug_bridge_' /\ main' \in Deleting => old'["main"] = None
  BY <1>a, <1>b DEF Served, Deleting
<1>2. ASSUME NEW c \in Clients, Serving(c)' PROVE object'[c] \in {"bound", "closing"}
  <2>1. CASE Bind
    BY <1>2, <1>c, <2>1 DEF Bind, Serving, Served
  <2>2. CASE ~Bind
    <3>1. Serving(c) /\ object[c] \in {"bound", "closing"}
      BY <1>2, <1>d, <2>2 DEF Serving, Served
    <3>2. CASE AcceptTake
      BY <3>1, <3>2, <1>c DEF AcceptTake, Serving
    <3>3. CASE AcceptDestroy
      BY <3>1, <3>3, <1>c DEF AcceptDestroy, Close
    <3>4. CASE AcceptJoin
      BY <3>1, <3>4, <1>c DEF AcceptJoin, Joined, Free, Serving
    <3>5. CASE AcceptSwap \/ AcceptEnd
      BY <3>1, <3>5 DEF AcceptSwap, AcceptEnd
    <3> QED BY <2>2, <3>2, <3>3, <3>4, <3>5 DEF AcceptStep
  <2> QED BY <2>1, <2>2
<1>3. ASSUME ~late', NEW c \in Clients, Serving(c)'
      PROVE  \/ session_' = c
             \/ accept' \in {"destroy", "join"} /\ old'["accept"] = c
             \/ main' \in Deleting /\ old'["main"] = c
  <2>1. CASE AcceptEnd
    BY <1>3, <1>a, <1>b, <1>d, <2>1 DEF AcceptEnd, Bind, Served, Serving
  <2>2. CASE ~AcceptEnd
    <3>1. ~late /\ ~Stopping
      BY <1>3, <1>b, <2>2
    <3>2. Serving(c) => session_ = c \/ (accept \in {"destroy", "join"} /\ old["accept"] = c)
      BY <3>1, <1>c DEF Served
    <3>3. CASE Bind
      BY <1>3, <1>c, <3>2, <3>3 DEF Bind, Serving
    <3>4. CASE ~Bind
      <4>1. Serving(c)
        BY <1>3, <1>d, <3>4 DEF Serving
      <4>2. CASE AcceptTake \/ AcceptSwap
        BY <1>c, <3>1, <3>2, <4>1, <4>2 DEF AcceptTake, AcceptSwap, TakeOld, Store
      <4>3. CASE AcceptDestroy
        BY <1>c, NoneAssumption, <3>1, <3>2, <4>1, <4>3 DEF AcceptDestroy
      <4>4. CASE AcceptJoin
        BY <1>c, <3>1, <3>2, <4>1, <4>4 DEF AcceptJoin, Joined, Serving
      <4> QED BY <2>2, <3>4, <4>2, <4>3, <4>4 DEF AcceptStep
    <3> QED BY <3>3, <3>4
  <2> QED BY <2>1, <2>2
<1> QED BY <1>1, <1>2, <1>3 DEF Served

LEMMA ServedStep == Base /\ Base' /\ Owned /\ Served /\ [Next]_vars => Served'
<1> SUFFICES ASSUME Base, Base', Owned, Served, [Next]_vars PROVE Served'
  OBVIOUS
<1>1. ASSUME NEW c \in Clients, DispatchStep(c) PROVE Served'
  <2>1. UNCHANGED <<mainVars, ownerVars, acceptVars, object, history, debug_bridge_>>
    BY <1>1, DispatchFrame DEF Base
  <2>2. \A d \in Clients : Serving(d)' => Serving(d)
    BY <1>1, DispatchFrame DEF Base, Serving
  <2> QED BY <2>1, <2>2 DEF Served
<1>2. ASSUME NEW c \in Clients, Client(c) PROVE Served'
  BY <1>2 DEF Client, Accept, Arrive, Late, Served, Serving, Base, VMsOpen, Stopping, StopPCs
<1>3. CASE UNCHANGED vars
  BY <1>3 DEF vars, Served, Serving
<1> QED
  BY <1>1, <1>2, <1>3, ServedMain, ServedAccept DEF Next, Step, Ended

(* What an inbox tells of the request that is taken from it: its client    *)
(* has sent something, and something after it unless it is a disconnect.   *)
LEMMA TakeLast ==
  ASSUME Base, NEW c \in Clients, LastSaid(c), Take(c), said' = said
  PROVE  /\ said[c] # "nothing"
         /\ Head(inbox[c]) = "disconnect" => said[c] = "disconnect"
         /\ Head(inbox[c]) # "disconnect" => ~Leaving(c)'
         /\ LastSaid(c)'
<1>1. inbox[c] \in Seq(Requests) /\ inbox[c] # <<>> /\ inbox'[c] = Tail(inbox[c])
  BY DEF Take, Base, TypeOK, RequestsOK
<1>2. PICK s \in Seq(Requests) : s = inbox[c]
  BY <1>1
<1>3. Len(s) \in Nat \ {0} /\ s[1] = Head(s) /\ \A i \in 1 .. Len(s) : s[i] \in Requests
  BY <1>1, <1>2
<1>4. /\ Len(Tail(s)) = Len(s) - 1
      /\ \A i \in 1 .. Len(s) - 1 : Tail(s)[i] = s[i + 1]
      /\ Tail(s) = <<>> => Len(s) = 1
  <2>1. /\ Len(Tail(s)) = Len(s) - 1
        /\ \A i \in 1 .. Len(s) - 1 : Tail(s)[i] = s[i + 1]
    BY <1>1, <1>2
  <2>2. \A t : t = <<>> => Len(t) = 0
    OBVIOUS
  <2> QED BY <1>3, <2>1, <2>2
<1>5. said[c] = s[Len(s)] /\ \A i \in 1 .. Len(s) - 1 : s[i] # "disconnect"
  BY <1>1, <1>2 DEF LastSaid
<1>6. said[c] # "nothing"
  BY <1>3, <1>5 DEF Requests
<1>7. /\ Head(inbox[c]) = "disconnect" => said[c] = "disconnect"
      /\ Head(inbox[c]) # "disconnect" => ~Leaving(c)'
  <2>1. s[1] = "disconnect" => Len(s) = 1
    <3>1. Len(s) = 1 \/ 1 \in 1 .. Len(s) - 1
      BY <1>3
    <3> QED BY <1>5, <3>1
  <2>2. Tail(s) = <<>> => said[c] = Head(s)
    BY <1>3, <1>4, <1>5
  <2> QED BY <1>1, <1>2, <1>3, <1>5, <2>1, <2>2 DEF Leaving
<1>8. LastSaid(c)'
  <2>1. Tail(s) # <<>> => said[c] = Tail(s)[Len(Tail(s))]
    <3> SUFFICES ASSUME Tail(s) # <<>> PROVE said[c] = Tail(s)[Len(Tail(s))]
      OBVIOUS
    <3>1. Len(s) # 1
      BY <1>1, <1>2, <1>3
    <3> QED BY <1>3, <1>4, <1>5, <3>1
  <2>2. \A i \in 1 .. Len(Tail(s)) - 1 : Tail(s)[i] # "disconnect"
    BY <1>3, <1>4, <1>5
  <2> QED BY <1>1, <1>2, <2>1, <2>2 DEF LastSaid
<1> QED BY <1>6, <1>7, <1>8

(* A request that arrives is the last thing its client has said.           *)
LEMMA ArriveLast ==
  ASSUME Base, NEW c \in Clients, LastSaid(c), NEW r \in Requests, Arrive(c, r)
  PROVE  /\ said[c] # "disconnect" /\ said'[c] # "nothing" /\ ~Leaving(c)'
         /\ LastSaid(c)'
<1>1. inbox[c] \in Seq(Requests) /\ inbox'[c] = Append(inbox[c], r) /\ said'[c] = r
  BY DEF Arrive, Base, TypeOK, RequestsOK
<1>2. said[c] # "disconnect"
  BY DEF Arrive, MayFollow
<1>3. PICK s \in Seq(Requests) : s = inbox[c]
  BY <1>1
<1>4. /\ Len(Append(s, r)) = Len(s) + 1 /\ Len(s) \in Nat
      /\ Append(s, r)[Len(s) + 1] = r
      /\ \A i \in 1 .. Len(s) : Append(s, r)[i] = s[i]
      /\ Append(s, r) # <<>>
      /\ s # <<>> => Len(s) # 0
  OBVIOUS
<1>5. \A i \in 1 .. Len(s) : s[i] # "disconnect"
  <2>1. CASE s = <<>>
    BY <2>1
  <2>2. CASE s # <<>>
    BY <1>2, <1>3, <1>4, <2>2 DEF LastSaid
  <2> QED BY <2>1, <2>2
<1>6. LastSaid(c)'
  BY <1>1, <1>3, <1>4, <1>5 DEF LastSaid
<1> QED BY <1>1, <1>2, <1>3, <1>4, <1>6 DEF Leaving, Requests

LEMMA QueuesStep == Base /\ Base' /\ Queues /\ [Next]_vars => Queues'
<1> SUFFICES ASSUME Base, Base', Queues, [Next]_vars, NEW d \in Clients
             PROVE  /\ LastSaid(d)'
                    /\ dispatch'[d] \in {"initialized", "connect"} =>
                         said'[d] # "nothing" /\ ~Leaving(d)'
  BY DEF Queues
<1> DEFINE Kept == /\ LastSaid(d)'
                   /\ dispatch'[d] \in {"initialized", "connect"} =>
                        said'[d] # "nothing" /\ ~Leaving(d)'
<1>0. /\ LastSaid(d)
      /\ dispatch[d] \in {"initialized", "connect"} => said[d] # "nothing" /\ ~Leaving(d)
      /\ dispatch \in [Clients -> DispatchPCs]
      /\ inbox \in [Clients -> Seq(Requests)]
  BY DEF Queues, Base, TypeOK, ControlOK, RequestsOK
<1>1. CASE Script \/ MainStep
  BY <1>0, <1>1, MainFrame DEF Base, LastSaid, Leaving
<1>2. CASE AcceptStep
  <2>1. UNCHANGED <<inbox, said>>
    BY <1>2 DEF AcceptStep, AcceptTake, AcceptSwap, AcceptDestroy, AcceptJoin, Bind, AcceptEnd
  <2>2. dispatch'[d] = dispatch[d] \/ dispatch'[d] = "idle"
    BY <1>0, <1>2 DEF AcceptStep, AcceptTake, AcceptSwap, AcceptDestroy, AcceptJoin, Bind,
                      AcceptEnd
  <2> QED BY <1>0, <2>1, <2>2 DEF LastSaid, Leaving
<1>3. ASSUME NEW c \in Clients, DispatchStep(c) PROVE Kept
  <2>0. /\ said' = said
        /\ d # c => dispatch'[d] = dispatch[d] /\ inbox'[d] = inbox[d]
    <3>1. said' = said /\ (d # c => dispatch'[d] = dispatch[d])
      BY <1>3, DispatchFrame DEF Base
    <3>2. d # c => inbox'[d] = inbox[d]
      BY <1>0, <1>3 DEF DispatchStep, Initialize, LaunchOrAttach, UseBridge, Disconnect,
            Disconnected, Initialized, OnConnect, DispatchEnd, Take
    <3> QED BY <3>1, <3>2
  <2>1. CASE d # c
    BY <1>0, <2>0, <2>1 DEF LastSaid, Leaving
  <2>2. CASE d = c /\ Take(c)
    <3>1. dispatch'[c] \in {"initialized", "connect"} => Head(inbox[c]) # "disconnect"
      BY <1>0, <1>3, <2>2 DEF DispatchStep, Initialize, LaunchOrAttach, UseBridge, Disconnect,
            Disconnected, Initialized, OnConnect, DispatchEnd, Take
    <3> QED BY <1>0, <2>0, <2>2, <3>1, TakeLast
  <2>3. CASE d = c /\ ~Take(c)
    <3>1. inbox' = inbox
      BY <1>3, <2>3 DEF DispatchStep, Initialize, LaunchOrAttach, UseBridge, Disconnect,
            Disconnected, Initialized, OnConnect, DispatchEnd
    <3>2. dispatch'[c] \in {"initialized", "connect"} =>
            dispatch[c] \in {"initialized", "connect"}
      BY <1>0, <1>3, <2>3 DEF DispatchStep, Initialize, LaunchOrAttach, UseBridge, Disconnect,
            Disconnected, Initialized, OnConnect, DispatchEnd
    <3> QED BY <1>0, <2>0, <2>3, <3>1, <3>2 DEF LastSaid, Leaving
  <2> QED BY <2>1, <2>2, <2>3
<1>4. ASSUME NEW c \in Clients, Client(c) PROVE Kept
  <2>1. CASE Accept(c)
    BY <1>0, <2>1 DEF Accept, LastSaid, Leaving
  <2>2. ASSUME NEW r \in Requests, Arrive(c, r) PROVE Kept
    <3>1. CASE d = c
      BY <1>0, <2>2, <3>1, ArriveLast
    <3>2. CASE d # c
      BY <1>0, <2>2, <3>2 DEF Arrive, LastSaid, Leaving
    <3> QED BY <3>1, <3>2
  <2> QED BY <1>4, <2>1, <2>2 DEF Client
<1>5. CASE UNCHANGED vars
  BY <1>0, <1>5 DEF vars, LastSaid, Leaving
<1> QED
  BY <1>1, <1>2, <1>3, <1>4, <1>5 DEF Next, Step, Ended

(* While the debugger does not stop: whom the accept thread and the one    *)
(* dispatch thread are for.                                                *)
LEMMA Alone ==
  ASSUME Base, ~Stopping
  PROVE  /\ accept \in {"read", "swap", "destroy", "join", "bind"} =>
              arriving \in Clients /\ dispatch[arriving] = "none"
         /\ accept \in {"destroy", "join", "bind"} => session_ = arriving
         /\ accept = "swap" => old["accept"] = session_
         /\ \A c \in Clients : Serving(c) =>
              /\ accept # "bind"
              /\ c = IF accept \in {"destroy", "join"} THEN old["accept"] ELSE session_
  BY DEF Base, ServeInv, Arriving, Single

(* While the debugger does not stop, the main thread touches no session.   *)
LEMMA ConnectedMain ==
  ASSUME Base, Connected, Script \/ MainStep
  PROVE  Connected'
<1> SUFFICES ASSUME ~Stopping' PROVE Connected'
  BY DEF Connected, Handing, Parting, Held, Lost
<1>1. /\ ~Stopping /\ UNCHANGED <<arriving, dispatch, inbox, said, handed, orphaned, object>>
      /\ accept' = accept \/ (accept' \in {"idle", "ended"} /\ accept = "off")
  BY MainFrame DEF Base, ServeInv, Arriving
<1>2. bridge_session' = bridge_session
  BY DEF Script, Listen, TestSession, Stop, InstallDebugger, Reset, MainStep, SendEvent,
         CloseTake, CloseSwap, CloseDestroy, CloseJoin, ServerStop, ServerJoin, ResetBridge,
         CloseVMs, Reopen, Fault
<1>3. main' = "sending" => main = "sending" \/ bridge_session # None
  <2>1. CASE Script
    BY <2>1 DEF Script, Listen, TestSession, Stop, InstallDebugger, Reset, MainGoto
  <2>2. CASE MainStep
    BY <2>2 DEF MainStep, SendEvent, CloseTake, CloseSwap, CloseDestroy, CloseJoin,
                ServerStop, ServerJoin, ResetBridge, CloseVMs, Reopen, Fault, MainGoto
  <2> QED BY <2>1, <2>2
<1>4. \A c \in Clients : \A s : Reached(c, s) => Reached(c, s)'
  BY <1>1 DEF Reached
<1>5. Handing' /\ Parting' /\ Lost'
  BY <1>1, <1>2, <1>3, <1>4 DEF Connected, Handing, Parting, Lost
<1>6. Held'
  <2>1. \A c \in Clients : Holds(c) => Holds(c)'
    BY <1>1, <1>2, <1>4 DEF Holds, Serving, Leaving
  <2> QED BY <1>1, <1>2, <2>1 DEF Connected, Held
<1> QED BY <1>5, <1>6 DEF Connected

(* When the accept thread deletes a session, that was the bridge's only if *)
(* its client has not left; when it has, its thread empties its inbox, and *)
(* so takes the bridge's session back, before it ends.                     *)
LEMMA ConnectedAccept ==
  ASSUME Base, Base', Owned, Connected, AcceptStep
  PROVE  Connected'
<1> SUFFICES ASSUME ~Stopping PROVE Connected'
  <2>1. Stopping' <=> Stopping
    BY DEF AcceptStep, AcceptTake, AcceptSwap, AcceptDestroy, AcceptJoin, Bind, AcceptEnd,
           Stopping
  <2> QED BY <2>1 DEF Connected, Handing, Parting, Held, Lost
<1>a. UNCHANGED <<main, bridge_session, inbox, said, handed>> /\ (orphaned => orphaned')
  <2>1. UNCHANGED <<main, bridge_session, inbox, said, handed>>
    BY DEF AcceptStep, AcceptTake, AcceptSwap, AcceptDestroy, AcceptJoin, Bind, AcceptEnd
  <2>2. orphaned => orphaned'
    BY DEF AcceptStep, AcceptTake, AcceptSwap, AcceptDestroy, AcceptJoin, Bind, AcceptEnd
  <2> QED BY <2>1, <2>2
<1>b. /\ arriving' = arriving
      /\ Bind \/ dispatch' = dispatch
      /\ \A c \in Clients : dispatch'[c] \in {dispatch[c], "idle"}
  <2>1. arriving' = arriving /\ (Bind \/ dispatch' = dispatch)
    BY DEF AcceptStep, AcceptTake, AcceptSwap, AcceptDestroy, AcceptJoin, Bind, AcceptEnd
  <2>2. \A c \in Clients : Bind => dispatch'[c] \in {dispatch[c], "idle"}
    BY DEF Bind, Base, TypeOK, ControlOK
  <2> QED BY <2>1, <2>2
<1>c. Lost'
  BY <1>a DEF Connected, Lost
<1>d. \A c \in Clients : ~Bind /\ Serving(c)' => Serving(c) /\ ~AcceptJoin /\ accept' # "bind"
  <2> SUFFICES ASSUME NEW c \in Clients, ~Bind, Serving(c)'
               PROVE  Serving(c) /\ ~AcceptJoin /\ accept' # "bind"
    OBVIOUS
  <2>1. Serving(c)
    BY <1>b DEF Serving
  <2>2. ~AcceptJoin
    BY <2>1, Alone DEF AcceptJoin, Joined, Serving
  <2>3. accept' # "bind"
    BY <2>1, <2>2, Alone, NoneAssumption
       DEF AcceptStep, AcceptTake, AcceptSwap, AcceptDestroy, AcceptEnd
  <2> QED BY <2>1, <2>2, <2>3
<1>e. \A c \in Clients : \A s : ~Bind /\ Serving(c)' /\ Reached(c, s) => Reached(c, s)'
  BY <1>b, <1>d DEF Reached, AcceptStep, AcceptTake, AcceptSwap, AcceptDestroy, AcceptEnd
<1>1. Handing'
  <2> SUFFICES ASSUME NEW c \in Clients, dispatch'[c] = "connect"
               PROVE  Reached(c, handed[c])'
    BY DEF Handing
  <2>1. dispatch[c] = "connect" /\ Serving(c) /\ ~Bind
    BY <1>b, Alone DEF Serving, Bind
  <2>2. Serving(c)' /\ Reached(c, handed[c])
    BY <1>b, <2>1 DEF Serving, Connected, Handing
  <2>3. PICK s : s = handed[c]
    OBVIOUS
  <2>4. Reached(c, s)'
    BY <1>e, <2>1, <2>2, <2>3
  <2> QED BY <1>a, <2>3, <2>4 DEF Reached
<1>2. Parting'
  <2> SUFFICES ASSUME ~orphaned', NEW c \in Clients, object'[c] = "closing"
               PROVE  said[c] \in {"nothing", "disconnect"}
    BY <1>a DEF Parting
  <2>1. ~orphaned /\ (object[c] = "closing" => said[c] \in {"nothing", "disconnect"})
    BY <1>a DEF Connected, Parting
  <2>2. CASE AcceptDestroy
    BY <2>1, <2>2 DEF AcceptDestroy, Close, Base, TypeOK, ObjectsOK
  <2>3. CASE ~AcceptDestroy
    BY <2>1, <2>3 DEF AcceptStep, AcceptTake, AcceptSwap, AcceptJoin, Bind, AcceptEnd, Free,
                      Base, TypeOK, ObjectsOK
  <2> QED BY <2>2, <2>3
<1>3. Held'
  <2> SUFFICES ASSUME ~orphaned', bridge_session # None
               PROVE  \E c \in Clients : Holds(c)'
    BY <1>a DEF Held
  <2>1. PICK c \in Clients : Holds(c)
    BY <1>a DEF Connected, Held
  <2>2. Serving(c) /\ ~Bind
    BY <2>1, Alone DEF Holds, Bind
  <2>3. Serving(c)'
    BY <1>b, <2>2 DEF Serving
  <2>4. PICK s : s = bridge_session
    OBVIOUS
  <2>5. Reached(c, s)'
    BY <1>e, <2>1, <2>2, <2>3, <2>4 DEF Holds
  <2> QED BY <1>a, <2>1, <2>3, <2>4, <2>5 DEF Holds, Leaving, Reached
<1> QED BY <1>c, <1>1, <1>2, <1>3 DEF Connected

(* The one thread that runs hands the bridge a session it was served by,   *)
(* and takes it back before it ends.                                       *)
LEMMA ConnectedDispatch ==
  ASSUME Base, Base', Queues, Connected, NEW c \in Clients, DispatchStep(c)
  PROVE  Connected'
<1>a. /\ UNCHANGED <<mainVars, ownerVars, acceptVars, object, said, history, debug_bridge_>>
      /\ Serving(c) /\ \A d \in Clients \ {c} : dispatch'[d] = dispatch[d]
  BY DispatchFrame DEF Base
<1> SUFFICES ASSUME ~Stopping PROVE Connected'
  BY <1>a DEF Connected, Handing, Parting, Held, Lost, Stopping
<1>b. /\ \A d \in Clients : Serving(d) => d = c
      /\ c = session_ \/ (accept \in {"destroy", "join"} /\ session_ = arriving)
      /\ accept \in {"destroy", "join"} => arriving # None
      /\ debug_bridge_
  BY <1>a, Alone, NoneAssumption DEF Base, VMsOpen
<1>c. /\ dispatch \in [Clients -> DispatchPCs] /\ handed \in [Clients -> Pointers]
      /\ bridge_session \in Pointers /\ LastSaid(c)
      /\ dispatch[c] \in {"initialized", "connect"} => said[c] # "nothing" /\ ~Leaving(c)
  BY DEF Base, TypeOK, ControlOK, PointersOK, Queues
<1>d. \A d \in Clients : \A s : Reached(d, s)' <=> Reached(d, s)
  BY <1>a DEF Reached
<1>e. dispatch[c] = "connect" => Reached(c, handed[c]) /\ handed[c] # None
  BY <1>b, NoneAssumption DEF Connected, Handing, Reached
<1>1. Handing'
  <2> SUFFICES ASSUME NEW d \in Clients, dispatch'[d] = "connect"
               PROVE  Reached(d, handed[d])'
    BY DEF Handing
  <2>1. d = c
    <3> SUFFICES ASSUME d # c PROVE FALSE
      OBVIOUS
    <3>1. Serving(d)
      BY <1>a DEF Serving
    <3> QED BY <1>b, <3>1
  <2>2. (dispatch[c] = "connect" /\ handed'[c] = handed[c])
        \/ (dispatch[c] = "initialized" /\ handed'[c] = session_)
    BY <1>c, <2>1 DEF DispatchStep, Initialize, LaunchOrAttach, UseBridge, Disconnect,
          Disconnected, Initialized, OnConnect, DispatchEnd, Take
  <2> QED BY <1>a, <1>b, <1>e, <2>1, <2>2 DEF Reached
<1>2. Parting'
  BY <1>a DEF Connected, Parting
<1>3. CASE OnConnect(c)
  <2>1. /\ bridge_session' = handed[c] /\ inbox' = inbox /\ dispatch[c] = "connect"
        /\ dispatch'[c] = "idle"
    BY <1>b, <1>c, <1>3 DEF OnConnect
  <2>2. Holds(c)'
    BY <1>a, <1>c, <1>e, <2>1 DEF Holds, Serving, Leaving, Reached
  <2> QED BY <1>1, <1>2, <1>e, <2>1, <2>2 DEF Connected, Held, Lost
<1>4. CASE Disconnect(c)
  <2>1. bridge_session' = None /\ said[c] = "disconnect" /\ said' = said
    BY <1>a, <1>b, <1>c, <1>4, TakeLast DEF Disconnect, OnDisconnect
  <2> QED BY <1>1, <1>2, <2>1 DEF Connected, Held, Lost
<1>5. CASE ~OnConnect(c) /\ ~Disconnect(c)
  <2>1. bridge_session' = bridge_session
    BY <1>5 DEF DispatchStep, Initialize, LaunchOrAttach, UseBridge, Disconnected,
                Initialized, DispatchEnd
  <2>2. Lost'
    BY <1>a, <2>1 DEF Connected, Lost
  <2>3. Held'
    <3> SUFFICES ASSUME ~orphaned, bridge_session # None PROVE Holds(c)'
      BY <1>a, <2>1 DEF Held
    <3>1. Holds(c)
      <4>1. PICK d \in Clients : Holds(d)
        BY DEF Connected, Held
      <4> QED BY <1>b, <4>1 DEF Holds
    <3>2. ~DispatchEnd(c)
      BY <3>1 DEF DispatchEnd, Connected, Parting, Holds, Leaving
    <3>3. Serving(c)'
      BY <1>a, <1>c, <1>5, <3>2 DEF DispatchStep, Initialize, LaunchOrAttach, UseBridge,
            Disconnected, Initialized, Serving
    <3>4. ~Leaving(c)'
      <4>1. CASE Take(c)
        <5>1. Head(inbox[c]) # "disconnect"
          BY <1>5, <3>2, <4>1 DEF DispatchStep, Initialize, LaunchOrAttach, UseBridge,
                Disconnected, Initialized, Take
        <5> QED BY <1>a, <1>c, <4>1, <5>1, TakeLast
      <4>2. CASE ~Take(c)
        <5>1. inbox' = inbox
          BY <1>5, <3>2, <4>2 DEF DispatchStep, Initialize, LaunchOrAttach, UseBridge,
                Disconnected, Initialized
        <5> QED BY <1>a, <3>1, <5>1 DEF Holds, Leaving
      <4> QED BY <4>1, <4>2
    <3> QED BY <1>a, <1>d, <2>1, <3>1, <3>3, <3>4 DEF Holds, Reached
  <2> QED BY <1>1, <1>2, <2>2, <2>3 DEF Connected
<1> QED BY <1>3, <1>4, <1>5

(* A client that sends a request has not left; one that connects has no    *)
(* session yet.                                                            *)
LEMMA ConnectedClient ==
  ASSUME Base, Base', Queues, Connected, NEW c \in Clients, Client(c)
  PROVE  Connected'
<1>1. CASE Accept(c)
  <2>1. /\ UNCHANGED <<process, mainVars, bridgeVars, ownerVars, sessionVars, said, orphaned>>
        /\ accept = "idle" /\ accept' = "read"
    BY <1>1 DEF Accept
  <2>2. \A d \in Clients : \A s : Reached(d, s)' <=> Reached(d, s)
    BY <2>1 DEF Reached
  <2>3. \A d \in Clients : Holds(d)' <=> Holds(d)
    BY <2>1, <2>2 DEF Holds, Serving, Leaving, Reached
  <2>4. Handing' /\ Parting' /\ Lost'
    BY <2>1 DEF Connected, Handing, Parting, Lost, Stopping, Reached
  <2> QED BY <2>1, <2>3, <2>4 DEF Connected, Held, Stopping
<1>2. ASSUME NEW r \in Requests, Arrive(c, r) PROVE Connected'
  <2>1. /\ UNCHANGED <<process, mainVars, bridgeVars, ownerVars, acceptVars, object, dispatch,
                       handed, orphaned>>
        /\ object[c] = "bound"
        /\ \A d \in Clients \ {c} : said'[d] = said[d] /\ inbox'[d] = inbox[d]
    BY <1>2 DEF Arrive, Base, TypeOK, RequestsOK
  <2>2. said[c] # "disconnect" /\ said'[c] # "nothing" /\ ~Leaving(c)'
    BY <1>2, ArriveLast DEF Queues
  <2>3. \A d \in Clients : Holds(d) => Holds(d)'
    <3> SUFFICES ASSUME NEW d \in Clients, Holds(d) PROVE Holds(d)'
      OBVIOUS
    <3>1. Serving(d)' /\ Reached(d, bridge_session)'
      BY <2>1 DEF Holds, Serving, Reached
    <3>2. said'[d] # "nothing" /\ ~Leaving(d)'
      BY <2>1, <2>2 DEF Holds, Leaving
    <3> QED BY <3>1, <3>2 DEF Holds
  <2>4. Handing' /\ Parting' /\ Lost'
    BY <2>1, <2>2 DEF Connected, Handing, Parting, Lost, Stopping, Reached
  <2>5. Held'
    BY <2>1, <2>3 DEF Connected, Held, Stopping
  <2> QED BY <2>4, <2>5 DEF Connected
<1> QED BY <1>1, <1>2 DEF Client

LEMMA ConnectedStep == Base /\ Base' /\ Owned /\ Queues /\ Connected /\ [Next]_vars => Connected'
<1>1. CASE UNCHANGED vars
  <2>1. \A c \in Clients : Holds(c)' <=> Holds(c)
    BY <1>1 DEF vars, Holds, Serving, Leaving, Reached
  <2> QED BY <1>1, <2>1 DEF vars, Connected, Handing, Parting, Held, Lost, Stopping, Reached
<1> QED
  BY <1>1, ConnectedMain, ConnectedAccept, ConnectedDispatch, ConnectedClient
     DEF Next, Step, Ended

(* Each place a fault may come from, and what it takes.                    *)
LEMMA FaultsStep ==
  Base /\ Base' /\ Owned /\ Served /\ Queues /\ Connected /\ FaultsExplained /\ [Next]_vars
    => FaultsExplained'
<1> SUFFICES ASSUME Base, Base', Owned, Served, Queues, Connected, FaultsExplained, [Next]_vars
             PROVE  FaultsExplained'
  OBVIOUS
<1>1. CASE UNCHANGED vars
  BY <1>1 DEF vars, FaultsExplained, Stopping
<1>2. CASE process' = "alive" \/ process' = "done" \/ process' = "exited"
  BY <1>2 DEF FaultsExplained
<1>3. ASSUME Alive, Step, process' \notin {"alive", "done", "exited"} PROVE FaultsExplained'
  <2>1. CASE SendEvent
    <3>1. ~Stopping /\ UNCHANGED <<main, said, orphaned>>
      BY <1>3, <2>1 DEF SendEvent, Fault, Alive, Stopping, StopPCs
    <3>2. CASE process' = "null_session"
      BY <2>1, <3>1, <3>2 DEF SendEvent, Fault, Connected, Lost, FaultsExplained, Alive
    <3>3. CASE process' = "freed_session" /\ ~orphaned
      <4>1. bridge_session # None /\ object[bridge_session] = "gone"
        BY <1>3, <2>1, <3>3 DEF SendEvent, Fault, Alive
      <4>2. PICK c \in Clients : Holds(c)
        BY <3>1, <3>3, <4>1 DEF Connected, Held
      <4>3. object[c] \in {"bound", "closing"}
        BY <4>2 DEF Holds, Served
      <4>4. accept \in {"destroy", "join"} => object[arriving] = "made"
        BY <3>1 DEF Owned
      <4> QED BY <4>1, <4>2, <4>3, <4>4 DEF Holds, Reached
    <3>4. process' \in {"null_session", "freed_session"}
      BY <1>3, <2>1 DEF SendEvent, Fault, Alive
    <3> QED BY <3>1, <3>2, <3>3, <3>4 DEF FaultsExplained
  <2>2. CASE CloseDestroy
    <3>1. process' = "deleted_twice" /\ late' = late
      BY <1>3, <2>2 DEF CloseDestroy, Fault, Alive
    <3>2. late
      BY <1>3, <2>2 DEF CloseDestroy, Alive, Owned, Live
    <3> QED BY <3>1, <3>2 DEF FaultsExplained
  <2>3. CASE AcceptDestroy
    <3>1. process' = "deleted_twice" /\ late' = (late \/ Stopping)
      BY <1>3, <2>3 DEF AcceptDestroy, Late, Alive
    <3>2. Stopping
      BY <1>3, <2>3 DEF AcceptDestroy, Alive, Owned, Live
    <3> QED BY <3>1, <3>2 DEF FaultsExplained
  <2>4. CASE Bind
    <3>1. process' = "null_session" /\ main' = main /\ session_ = None /\ accept = "bind"
      BY <1>3, <2>4 DEF Bind, Alive
    <3>2. Stopping
      BY <3>1, Alone, NoneAssumption
    <3> QED BY <3>1, <3>2 DEF FaultsExplained, Stopping
  <2>5. ASSUME NEW c \in Clients, UseBridge(c) \/ Disconnect(c) \/ OnConnect(c)
        PROVE  FaultsExplained'
    <3>1. process' = "null_bridge" /\ ~debug_bridge_ /\ late' = late
      BY <1>3, <2>5 DEF UseBridge, Disconnect, OnConnect, Alive
    <3>2. Serving(c)
      BY <2>5 DEF UseBridge, Disconnect, OnConnect, Take, Serving
    <3>3. late
      BY <3>1, <3>2, NoneAssumption DEF Served, Owned, Emptied
    <3> QED BY <3>1, <3>3 DEF FaultsExplained
  <2>6. ASSUME NEW c \in Clients, Initialized(c) PROVE FaultsExplained'
    <3>1. /\ process' = "null_session" /\ main' = main /\ session_ = None
          /\ dispatch[c] = "initialized"
      BY <1>3, <2>6 DEF Initialized, Alive
    <3>2. Stopping
      BY <3>1, Alone, NoneAssumption DEF Serving
    <3> QED BY <3>1, <3>2 DEF FaultsExplained, Stopping
  <2>7. ~ResetBridge
    BY <1>3 DEF ResetBridge, Alive, Base, VMsOpen
  <2>8. ~Script /\ ~(MainStep /\ ~SendEvent /\ ~CloseDestroy /\ ~ResetBridge)
    BY <1>3 DEF Alive, Script, Listen, TestSession, Stop, InstallDebugger, Reset, MainStep,
          CloseTake, CloseSwap, CloseJoin, ServerStop, ServerJoin, CloseVMs, Reopen
  <2>9. ~(AcceptStep /\ ~AcceptDestroy /\ ~Bind)
    BY <1>3 DEF Alive, AcceptStep, AcceptTake, AcceptSwap, AcceptJoin, AcceptEnd
  <2>10. ASSUME NEW c \in Clients, DispatchStep(c) \/ Client(c) PROVE FaultsExplained'
    <3>1. ~(Initialize(c) \/ LaunchOrAttach(c) \/ Disconnected(c) \/ DispatchEnd(c) \/ Client(c))
      BY <1>3 DEF Alive, Initialize, LaunchOrAttach, Disconnected, DispatchEnd, Client, Accept,
                  Arrive
    <3> QED BY <2>5, <2>6, <2>10, <3>1 DEF DispatchStep
  <2> QED BY <1>3, <2>1, <2>2, <2>3, <2>4, <2>7, <2>8, <2>9, <2>10 DEF Step
<1> QED BY <1>1, <1>2, <1>3 DEF Next, Ended

(* What each fault of the sessions needs.                                  *)
THEOREM FaultsNeed == Spec => []FaultsExplained
<1>1. Init => FaultInv
  <2> SUFFICES ASSUME Init PROVE FaultInv
    OBVIOUS
  <2>1. Owned /\ Served
    BY DEF Init, Owned, Live, Emptied, Stopping, StopPCs, Served, Serving, Deleting
  <2>2. Queues
    <3>1. \A c \in Clients : inbox[c] = <<>> /\ dispatch[c] = "none"
      BY DEF Init
    <3>2. \A t : t = <<>> => Len(t) = 0
      OBVIOUS
    <3>3. \A c \in Clients : Len(inbox[c]) = 0
      BY <3>1, <3>2
    <3>4. \A c \in Clients : \A i \in 1 .. Len(inbox[c]) - 1 : FALSE
      <4> SUFFICES ASSUME NEW c \in Clients, NEW i \in 1 .. Len(inbox[c]) - 1 PROVE FALSE
        OBVIOUS
      <4>1. i \in 1 .. 0 - 1
        BY <3>3
      <4> QED BY <4>1
    <3> QED BY <3>1, <3>4 DEF Queues, LastSaid
  <2>3. Connected
    BY DEF Init, Connected, Handing, Parting, Held, Lost
  <2>4. FaultsExplained
    BY DEF Init, FaultsExplained
  <2> QED BY <2>1, <2>2, <2>3, <2>4 DEF FaultInv
<1>2. Base /\ Base' /\ FaultInv /\ [Next]_vars => FaultInv'
  BY OwnedStep, ServedStep, QueuesStep, ConnectedStep, FaultsStep DEF FaultInv
<1>3. FaultInv => FaultsExplained
  BY DEF FaultInv
<1> QED BY <1>1, <1>2, <1>3, BaseHolds, PTL DEF Spec

=============================================================================
