-------------------------- MODULE RunControl_proofs --------------------------
(***************************************************************************)
(* Proofs about RunControl, for every set of requests and callbacks, both  *)
(* session types and every bound on the task list.                         *)
(*                                                                         *)
(* Each lemma about a step has one numbered step per action.  SMT loses    *)
(* the type of a Boolean variable that is assigned a constant, so the      *)
(* Boolean part of the type invariant has a lemma of its own.              *)
(***************************************************************************)
EXTENDS RunControl, TLAPS

USE DEF Halted, Critical, Reasons

-----------------------------------------------------------------------------
(* Type correctness.                                                       *)

(* The Boolean variables keep their type.                                  *)
LEMMA FlagsStep == FlagsOK /\ [Next]_vars => FlagsOK'
<1> SUFFICES ASSUME FlagsOK, [Next]_vars PROVE FlagsOK'
  OBVIOUS
<1> USE DEF FlagsOK, pcs, syncVars, stopVars, sessionVars, stepVars, bpVars
<1>1. CASE Interrupt
  BY <1>1 DEF Interrupt, ProcessTasks, TakePause, Break
<1>2. CASE DebugBreak
  BY <1>2 DEF DebugBreak, Break
<1>3. CASE BreakHere
  BY <1>3 DEF BreakHere, Break
<1>4. CASE DebugStep
  BY <1>4 DEF DebugStep, LuaGoto
<1>5. CASE LuaPrint
  BY <1>5 DEF LuaPrint, LuaGoto
<1>6. CASE Finish
  BY <1>6 DEF Finish, LuaGoto
<1>7. CASE CallProcessor
  BY <1>7 DEF CallProcessor, Break, LuaGoto, Crash
<1>8. CASE PrintSend
  BY <1>8 DEF PrintSend, LuaGoto, Crash
<1>9. CASE Join
  BY <1>9 DEF Join
<1>10. CASE Lock
  BY <1>10 DEF Lock, LuaGoto, Acquire
<1>11. CASE CheckSession
  BY <1>11 DEF CheckSession, LuaGoto, Ignore, Release
<1>12. CASE EntryWake
  BY <1>12 DEF EntryWake, SessionReady, GoOn, LuaGoto, Acquire
<1>13. CASE Hit
  BY <1>13 DEF Hit, Ignore, LuaGoto, Release
<1>14. CASE ConsoleSend
  BY <1>14 DEF ConsoleSend, LuaGoto, Crash
<1>15. CASE Send
  BY <1>15 DEF Send, LuaGoto, Crash
<1>16. CASE Enter
  BY <1>16 DEF Enter, StopVM, LuaGoto
<1>17. CASE Update
  BY <1>17 DEF Update, LuaGoto
<1>18. CASE Wait
  BY <1>18 DEF Wait, MayLeave, Leave, LuaGoto, Release
<1>19. CASE Wake
  BY <1>19 DEF Wake, LuaGoto, Acquire
<1>20. CASE Exec
  BY <1>20 DEF Exec, MainFnReturned, NotifyOne, LuaGoto
<1>21. CASE NestedInterrupt
  BY <1>21 DEF NestedInterrupt, RunsCode, NestedBreak, ProcessTasks
<1>22. CASE NestedDebugBreak
  BY <1>22 DEF NestedDebugBreak, RunsCode, NestedBreak
<1>23. CASE NestedBreakHere
  BY <1>23 DEF NestedBreakHere, RunsCode, NestedBreak
<1>24. CASE NestedDebugStep
  BY <1>24 DEF NestedDebugStep, NestedBreak
<1>25. ASSUME NEW r \in {"initialize", "reconnect"}, OnConnect(r) PROVE FlagsOK'
  BY <1>25, RequestsAssumption DEF OnConnect, Receive, SetSession, NotifyOne, Handle
<1>26. ASSUME NEW r \in Requests, IsDebugBreak(r) PROVE FlagsOK'
  BY <1>26, RequestsAssumption DEF IsDebugBreak, Receive, InBreak, OutOfBreak
<1>27. CASE SetBreakPoints
  BY <1>27 DEF SetBreakPoints, Receive, Post, Handle
<1>28. CASE OnDisconnect
  BY <1>28 DEF OnDisconnect, Receive, Post, Handle
<1>29. CASE SetPause
  BY <1>29 DEF SetPause, DapGoto
<1>30. CASE ReadVM
  BY <1>30 DEF ReadVM, DapGoto
<1>31. CASE EnableDebugStep
  BY <1>31 DEF EnableDebugStep, DapGoto
<1>32. CASE Callbacks
  BY <1>32 DEF Callbacks, DapGoto
<1>33. CASE CallbacksOfNull
  BY <1>33 DEF CallbacksOfNull, Crash
<1>34. CASE SetProcessor
  BY <1>34 DEF SetProcessor, DapGoto
<1>35. CASE ResumeInternal
  BY <1>35 DEF ResumeInternal, DapGoto
<1>36. CASE Notify
  BY <1>36 DEF Notify, NotifyResumed, NotifyOne, DapGoto
<1>37. CASE DropSession
  BY <1>37 DEF DropSession, DapGoto
<1>38. CASE Exit
  BY <1>38 DEF Exit
<1>39. CASE FindVariable
  BY <1>39 DEF FindVariable, DapGoto
<1>40. CASE Assert
  BY <1>40 DEF Assert, DapGoto
<1>41. CASE PostMainFn
  BY <1>41 DEF PostMainFn, NotifyOne, DapGoto
<1>42. CASE DapWake
  BY <1>42 DEF DapWake, MainFnDone, DapGoto
<1>43. CASE Respond
  BY <1>43 DEF Respond, Handle
<1>44. CASE SpuriousWake
  BY <1>44 DEF SpuriousWake
<1>45. CASE UNCHANGED vars
  BY <1>45 DEF vars
<1> QED
  BY <1>1, <1>2, <1>3, <1>4, <1>5, <1>6, <1>7, <1>8, <1>9, <1>10, <1>11,
     <1>12, <1>13, <1>14, <1>15, <1>16, <1>17, <1>18, <1>19, <1>20, <1>21,
     <1>22, <1>23, <1>24, <1>25, <1>26, <1>27, <1>28, <1>29, <1>30, <1>31,
     <1>32, <1>33, <1>34, <1>35, <1>36, <1>37, <1>38, <1>39, <1>40, <1>41,
     <1>42, <1>43, <1>44, <1>45
  DEF Next, Script, LuaStep, Nested, NewRequest, DapStep, Terminated

(* The initial states are of the type.                                     *)
LEMMA TypeInit == Init => TypeOK
<1> SUFFICES ASSUME Init PROVE TypeOK
  OBVIOUS
<1>1. FlagsOK
  BY Zenon DEF Init, FlagsOK
<1>2. armed \subseteq Lines /\ interrupt_tasks_ \in Seq(SUBSET Lines)
  BY DEF Init, Lines
<1>3. lua \in LuaPCs /\ dap \in DapPCs /\ reason \in Reasons
  BY DEF Init, LuaPCs, DapPCs
<1>4. req \in AllRequests /\ break_mutex_ = "free" /\ resume_cv_ = {} /\ session_cv_ = {}
  BY DEF Init, AllRequests
<1> QED BY <1>1, <1>2, <1>3, <1>4 DEF TypeOK

(* Every step keeps the type: in particular a wait set never holds a       *)
(* thread that does not use it, and the breakpoints a task leaves are      *)
(* breakpoints.                                                            *)
LEMMA TypeStep == TypeOK /\ [Next]_vars => TypeOK'
<1> SUFFICES ASSUME TypeOK, [Next]_vars PROVE TypeOK'
  OBVIOUS
<1>0. FlagsOK'
  BY FlagsStep DEF TypeOK
<1> USE DEF TypeOK, LuaPCs, DapPCs, AllRequests, Lines, pcs, syncVars, stopVars, sessionVars, stepVars, bpVars
<1>1. CASE Interrupt
  <2>1. armed' \subseteq Lines
    <3>1. CASE interrupt_tasks_ = <<>>
      BY <1>1, <3>1 DEF Interrupt, ProcessTasks
    <3>2. CASE interrupt_tasks_ # <<>>
      <4>1. Len(interrupt_tasks_) \in 1..Len(interrupt_tasks_)
        BY <3>2
      <4>2. interrupt_tasks_[Len(interrupt_tasks_)] \in SUBSET Lines
        BY <4>1
      <4> QED BY <1>1, <3>2, <4>2 DEF Interrupt, ProcessTasks
    <3> QED BY <3>1, <3>2
  <2>2. interrupt_tasks_' = <<>>
    BY <1>1 DEF Interrupt, ProcessTasks
  <2>3. lua' \in LuaPCs /\ reason' \in Reasons /\ UNCHANGED <<dap, req>>
    BY <1>1 DEF Interrupt, TakePause, Break
  <2>4. UNCHANGED syncVars
    BY <1>1 DEF Interrupt
  <2> QED BY <1>0, <2>1, <2>2, <2>3, <2>4
<1>2. CASE DebugBreak
  BY <1>2, <1>0 DEF DebugBreak, Break
<1>3. CASE BreakHere
  BY <1>3, <1>0 DEF BreakHere, Break
<1>4. CASE DebugStep
  BY <1>4, <1>0 DEF DebugStep, LuaGoto
<1>5. CASE LuaPrint
  BY <1>5, <1>0 DEF LuaPrint, LuaGoto
<1>6. CASE Finish
  BY <1>6, <1>0 DEF Finish, LuaGoto
<1>7. CASE CallProcessor
  <2>1. lua' \in LuaPCs /\ dap' \in DapPCs /\ reason' \in Reasons /\ req' = req
    BY <1>7 DEF CallProcessor, Break, LuaGoto, Crash
  <2>2. UNCHANGED syncVars
    BY <1>7 DEF CallProcessor, Crash
  <2>3. UNCHANGED bpVars
    BY <1>7 DEF CallProcessor, Crash
  <2> QED BY <1>0, <2>1, <2>2, <2>3
<1>8. CASE PrintSend
  <2>1. lua' \in LuaPCs /\ dap' \in DapPCs /\ reason' \in Reasons /\ req' = req
    BY <1>8 DEF PrintSend, LuaGoto, Crash
  <2>2. UNCHANGED syncVars
    BY <1>8 DEF PrintSend, Crash
  <2>3. UNCHANGED bpVars
    BY <1>8 DEF PrintSend, Crash
  <2> QED BY <1>0, <2>1, <2>2, <2>3
<1>9. CASE Join
  BY <1>9, <1>0 DEF Join
<1>10. CASE Lock
  BY <1>10, <1>0 DEF Lock, LuaGoto, Acquire
<1>11. CASE CheckSession
  <2>1. lua' \in LuaPCs /\ dap' \in DapPCs /\ reason' \in Reasons /\ req' = req
    BY <1>11 DEF CheckSession, LuaGoto, Ignore
  <2>2. /\ break_mutex_' \in {"free", "lua"}
        /\ resume_cv_' \subseteq {"lua", "dap"} /\ session_cv_' \subseteq {"lua"}
    BY <1>11 DEF CheckSession, Ignore, Release
  <2>3. UNCHANGED bpVars
    BY <1>11 DEF CheckSession
  <2> QED BY <1>0, <2>1, <2>2, <2>3
<1>12. CASE EntryWake
  <2>1. lua' \in LuaPCs /\ dap' \in DapPCs /\ reason' \in Reasons /\ req' = req
    BY <1>12 DEF EntryWake, GoOn, LuaGoto
  <2>2. /\ break_mutex_' \in {"free", "lua"}
        /\ resume_cv_' \subseteq {"lua", "dap"} /\ session_cv_' \subseteq {"lua"}
    BY <1>12 DEF EntryWake, GoOn, Acquire
  <2>3. UNCHANGED bpVars
    BY <1>12 DEF EntryWake
  <2> QED BY <1>0, <2>1, <2>2, <2>3
<1>13. CASE Hit
  <2>1. lua' \in LuaPCs /\ UNCHANGED <<reason, dap, req>>
    BY <1>13 DEF Hit, Ignore, LuaGoto
  <2>2. break_mutex_' \in {"free", "lua"} /\ UNCHANGED <<resume_cv_, session_cv_>>
    BY <1>13 DEF Hit, Ignore, Release
  <2>3. UNCHANGED bpVars
    BY <1>13 DEF Hit
  <2> QED BY <1>0, <2>1, <2>2, <2>3
<1>14. CASE ConsoleSend
  <2>1. lua' \in LuaPCs /\ dap' \in DapPCs /\ reason' \in Reasons /\ req' = req
    BY <1>14 DEF ConsoleSend, LuaGoto, Crash
  <2>2. UNCHANGED syncVars
    BY <1>14 DEF ConsoleSend, Crash
  <2>3. UNCHANGED bpVars
    BY <1>14 DEF ConsoleSend, Crash
  <2> QED BY <1>0, <2>1, <2>2, <2>3
<1>15. CASE Send
  <2>1. lua' \in LuaPCs /\ dap' \in DapPCs /\ reason' \in Reasons /\ req' = req
    BY <1>15 DEF Send, LuaGoto, Crash
  <2>2. UNCHANGED syncVars
    BY <1>15 DEF Send, Crash
  <2>3. UNCHANGED bpVars
    BY <1>15 DEF Send, Crash
  <2> QED BY <1>0, <2>1, <2>2, <2>3
<1>16. CASE Enter
  BY <1>16, <1>0 DEF Enter, StopVM, LuaGoto
<1>17. CASE Update
  BY <1>17, <1>0 DEF Update, LuaGoto
<1>18. CASE Wait
  <2>1. lua' \in LuaPCs /\ UNCHANGED <<reason, dap, req>>
    BY <1>18 DEF Wait, Leave, LuaGoto
  <2>2. /\ break_mutex_' \in {"free", "lua"}
        /\ resume_cv_' \subseteq {"lua", "dap"} /\ session_cv_' \subseteq {"lua"}
    BY <1>18 DEF Wait, Leave, Release
  <2>3. UNCHANGED bpVars
    BY <1>18 DEF Wait
  <2> QED BY <1>0, <2>1, <2>2, <2>3
<1>19. CASE Wake
  BY <1>19, <1>0 DEF Wake, LuaGoto, Acquire
<1>20. CASE Exec
  <2>1. lua' \in LuaPCs /\ dap' \in DapPCs /\ reason' \in Reasons /\ req' = req
    BY <1>20 DEF Exec, LuaGoto
  <2>2. /\ break_mutex_' \in {"free", "lua"}
        /\ resume_cv_' \subseteq {"lua", "dap"} /\ session_cv_' \subseteq {"lua"}
    BY <1>20 DEF Exec, MainFnReturned, NotifyOne
  <2>3. UNCHANGED bpVars
    BY <1>20 DEF Exec
  <2> QED BY <1>0, <2>1, <2>2, <2>3
<1>21. CASE NestedInterrupt
  <2>1. armed' \subseteq Lines
    <3>1. CASE interrupt_tasks_ = <<>>
      BY <1>21, <3>1 DEF NestedInterrupt, ProcessTasks
    <3>2. CASE interrupt_tasks_ # <<>>
      <4>1. Len(interrupt_tasks_) \in 1..Len(interrupt_tasks_)
        BY <3>2
      <4>2. interrupt_tasks_[Len(interrupt_tasks_)] \in SUBSET Lines
        BY <4>1
      <4> QED BY <1>21, <3>2, <4>2 DEF NestedInterrupt, ProcessTasks
    <3> QED BY <3>1, <3>2
  <2>2. interrupt_tasks_' = <<>>
    BY <1>21 DEF NestedInterrupt, ProcessTasks
  <2>3. lua' \in LuaPCs /\ reason' \in Reasons /\ UNCHANGED <<dap, req>>
    BY <1>21 DEF NestedInterrupt, NestedBreak
  <2>4. UNCHANGED syncVars
    BY <1>21 DEF NestedInterrupt
  <2> QED BY <1>0, <2>1, <2>2, <2>3, <2>4
<1>22. CASE NestedDebugBreak
  BY <1>22, <1>0 DEF NestedDebugBreak, RunsCode, NestedBreak
<1>23. CASE NestedBreakHere
  BY <1>23, <1>0 DEF NestedBreakHere, RunsCode, NestedBreak
<1>24. CASE NestedDebugStep
  BY <1>24, <1>0 DEF NestedDebugStep, NestedBreak
<1>25. ASSUME NEW r \in {"initialize", "reconnect"}, OnConnect(r) PROVE TypeOK'
  BY <1>25, <1>0, RequestsAssumption DEF OnConnect, Receive, SetSession, NotifyOne, Handle
<1>26. ASSUME NEW r \in Requests, IsDebugBreak(r) PROVE TypeOK'
  BY <1>26, <1>0, RequestsAssumption DEF IsDebugBreak, Receive, InBreak, OutOfBreak
<1>27. CASE SetBreakPoints
  BY <1>27, <1>0 DEF SetBreakPoints, Receive, Post, Handle
<1>28. CASE OnDisconnect
  BY <1>28, <1>0 DEF OnDisconnect, Receive, Post, Handle
<1>29. CASE SetPause
  BY <1>29, <1>0 DEF SetPause, DapGoto
<1>30. CASE ReadVM
  BY <1>30, <1>0 DEF ReadVM, DapGoto
<1>31. CASE EnableDebugStep
  BY <1>31, <1>0 DEF EnableDebugStep, DapGoto
<1>32. CASE Callbacks
  BY <1>32, <1>0 DEF Callbacks, DapGoto
<1>33. CASE CallbacksOfNull
  BY <1>33, <1>0 DEF CallbacksOfNull, Crash
<1>34. CASE SetProcessor
  BY <1>34, <1>0 DEF SetProcessor, DapGoto
<1>35. CASE ResumeInternal
  BY <1>35, <1>0 DEF ResumeInternal, DapGoto
<1>36. CASE Notify
  <2>1. lua' \in LuaPCs /\ dap' \in DapPCs /\ reason' \in Reasons /\ req' = req
    BY <1>36 DEF Notify, DapGoto
  <2>2. /\ break_mutex_' \in {"free", "lua"}
        /\ resume_cv_' \subseteq {"lua", "dap"} /\ session_cv_' \subseteq {"lua"}
    BY <1>36 DEF Notify, NotifyResumed, NotifyOne
  <2>3. UNCHANGED bpVars
    BY <1>36 DEF Notify
  <2> QED BY <1>0, <2>1, <2>2, <2>3
<1>37. CASE DropSession
  BY <1>37, <1>0 DEF DropSession, DapGoto
<1>38. CASE Exit
  BY <1>38, <1>0 DEF Exit
<1>39. CASE FindVariable
  BY <1>39, <1>0 DEF FindVariable, DapGoto
<1>40. CASE Assert
  BY <1>40, <1>0 DEF Assert, DapGoto
<1>41. CASE PostMainFn
  <2>1. lua' \in LuaPCs /\ dap' \in DapPCs /\ reason' \in Reasons /\ req' = req
    BY <1>41 DEF PostMainFn, DapGoto
  <2>2. /\ break_mutex_' \in {"free", "lua"}
        /\ resume_cv_' \subseteq {"lua", "dap"} /\ session_cv_' \subseteq {"lua"}
    BY <1>41 DEF PostMainFn, NotifyOne
  <2>3. UNCHANGED bpVars
    BY <1>41 DEF PostMainFn
  <2> QED BY <1>0, <2>1, <2>2, <2>3
<1>42. CASE DapWake
  <2>1. lua' \in LuaPCs /\ dap' \in DapPCs /\ reason' \in Reasons /\ req' = req
    BY <1>42 DEF DapWake, DapGoto
  <2>2. /\ break_mutex_' \in {"free", "lua"}
        /\ resume_cv_' \subseteq {"lua", "dap"} /\ session_cv_' \subseteq {"lua"}
    BY <1>42 DEF DapWake
  <2>3. UNCHANGED bpVars
    BY <1>42 DEF DapWake
  <2> QED BY <1>0, <2>1, <2>2, <2>3
<1>43. CASE Respond
  BY <1>43, <1>0 DEF Respond, Handle
<1>44. CASE SpuriousWake
  <2>1. resume_cv_' \subseteq resume_cv_ /\ session_cv_' \subseteq session_cv_
    BY <1>44 DEF SpuriousWake
  <2>2. UNCHANGED <<pcs, break_mutex_, bpVars>>
    BY <1>44 DEF SpuriousWake
  <2> QED BY <1>0, <2>1, <2>2
<1>45. CASE UNCHANGED vars
  BY <1>45, <1>0 DEF vars
<1> QED
  BY <1>1, <1>2, <1>3, <1>4, <1>5, <1>6, <1>7, <1>8, <1>9, <1>10, <1>11,
     <1>12, <1>13, <1>14, <1>15, <1>16, <1>17, <1>18, <1>19, <1>20, <1>21,
     <1>22, <1>23, <1>24, <1>25, <1>26, <1>27, <1>28, <1>29, <1>30, <1>31,
     <1>32, <1>33, <1>34, <1>35, <1>36, <1>37, <1>38, <1>39, <1>40, <1>41,
     <1>42, <1>43, <1>44, <1>45
  DEF Next, Script, LuaStep, Nested, NewRequest, DapStep, Terminated

(* The type invariant of the stop/resume protocol.                         *)
THEOREM TypeCorrect == Spec => []TypeOK
<1>1. Init => TypeOK
  BY TypeInit
<1>2. TypeOK /\ [Next]_vars => TypeOK'
  BY TypeStep
<1> QED BY <1>1, <1>2, PTL DEF Spec

-----------------------------------------------------------------------------
(* The inductive invariant.                                                *)

(* Nothing is stopped, parked or handed over at the start.                 *)
LEMMA InvInit == Init => IInv
<1> SUFFICES ASSUME Init PROVE IInv
  OBVIOUS
<1>1. TypeOK
  BY TypeInit
<1>2. HaltTogether /\ ProtocolInv
  BY DEF Init, HaltTogether, ProtocolInv, MutexOwned, WaitersParked, StopShape,
         InStop, JobShape, NoLostWakeup, HandlerHolds, VMQuiescent, TouchesVM
<1> QED BY <1>1, <1>2 DEF IInv

(* Every step of either thread keeps the invariant.                        *)
LEMMA InvStep == IInv /\ TypeOK' /\ [Next]_vars => IInv'
<1> SUFFICES ASSUME IInv, TypeOK', [Next]_vars PROVE IInv'
  OBVIOUS
<1> USE DEF IInv, HaltTogether, ProtocolInv, MutexOwned, WaitersParked, StopShape,
          InStop, JobShape, NoLostWakeup, HandlerHolds, VMQuiescent, TouchesVM,
          pcs, syncVars, stopVars, sessionVars, stepVars, bpVars
<1>1. CASE Interrupt
  BY <1>1 DEF TypeOK, Interrupt, ProcessTasks, TakePause, Break
<1>2. CASE DebugBreak
  BY <1>2 DEF TypeOK, DebugBreak, Break
<1>3. CASE BreakHere
  BY <1>3 DEF TypeOK, BreakHere, Break
<1>4. CASE DebugStep
  BY <1>4 DEF TypeOK, DebugStep, LuaGoto
<1>5. CASE LuaPrint
  BY <1>5 DEF TypeOK, LuaPrint, LuaGoto
<1>6. CASE Finish
  BY <1>6 DEF TypeOK, Finish, LuaGoto
<1>7. CASE CallProcessor
  BY <1>7 DEF TypeOK, CallProcessor, Break, LuaGoto, Crash
<1>8. CASE PrintSend
  BY <1>8 DEF TypeOK, PrintSend, LuaGoto, Crash
<1>9. CASE Join
  BY <1>9 DEF TypeOK, Join
<1>10. CASE Lock
  BY <1>10 DEF TypeOK, Lock, LuaGoto, Acquire
<1>11. CASE CheckSession
  BY <1>11 DEF TypeOK, CheckSession, LuaGoto, Ignore, Release
<1>12. CASE EntryWake
  BY <1>12 DEF TypeOK, EntryWake, SessionReady, GoOn, LuaGoto, Acquire
<1>13. CASE Hit
  BY <1>13 DEF TypeOK, Hit, Ignore, LuaGoto, Release
<1>14. CASE ConsoleSend
  BY <1>14 DEF TypeOK, ConsoleSend, LuaGoto, Crash
<1>15. CASE Send
  BY <1>15 DEF TypeOK, Send, LuaGoto, Crash
<1>16. CASE Enter
  BY <1>16 DEF TypeOK, Enter, StopVM, LuaGoto
<1>17. CASE Update
  BY <1>17 DEF TypeOK, Update, LuaGoto
<1>18. CASE Wait
  <2>0. lua = "wait" /\ UNCHANGED <<dap, req, session_>>
    BY <1>18 DEF Wait, Leave, LuaGoto
  <2>1. CASE main_fn_ /\ lua' = "exec" /\ UNCHANGED <<syncVars, stopVars>>
    BY <2>0, <2>1 DEF TypeOK
  <2>2. CASE MayLeave /\ Leave
    BY <2>0, <2>2 DEF TypeOK, MayLeave, Leave, LuaGoto, Release
  <2>3. CASE /\ ~main_fn_ /\ ~resume_ /\ lua' = "waiting"
             /\ resume_cv_' = resume_cv_ \cup {"lua"} /\ break_mutex_' = "free"
             /\ UNCHANGED <<session_cv_, stopVars>>
    BY <2>0, <2>3 DEF TypeOK
  <2> QED BY <1>18, <2>1, <2>2, <2>3 DEF Wait, LuaGoto
<1>19. CASE Wake
  BY <1>19 DEF TypeOK, Wake, LuaGoto, Acquire
<1>20. CASE Exec
  BY <1>20 DEF TypeOK, Exec, MainFnReturned, NotifyOne, LuaGoto
<1>21. CASE NestedInterrupt
  BY <1>21 DEF TypeOK, NestedInterrupt, RunsCode, NestedBreak, ProcessTasks
<1>22. CASE NestedDebugBreak
  BY <1>22 DEF TypeOK, NestedDebugBreak, RunsCode, NestedBreak
<1>23. CASE NestedBreakHere
  BY <1>23 DEF TypeOK, NestedBreakHere, RunsCode, NestedBreak
<1>24. CASE NestedDebugStep
  BY <1>24 DEF TypeOK, NestedDebugStep, NestedBreak
<1>25. ASSUME NEW r \in {"initialize", "reconnect"}, OnConnect(r) PROVE IInv'
  BY <1>25, RequestsAssumption DEF TypeOK, OnConnect, Receive, SetSession, NotifyOne, Handle
<1>26. ASSUME NEW r \in Requests, IsDebugBreak(r) PROVE IInv'
  BY <1>26, RequestsAssumption DEF TypeOK, IsDebugBreak, Receive, InBreak, OutOfBreak
<1>27. CASE SetBreakPoints
  BY <1>27 DEF TypeOK, SetBreakPoints, Receive, Post, Handle
<1>28. CASE OnDisconnect
  BY <1>28 DEF TypeOK, OnDisconnect, Receive, Post, Handle
<1>29. CASE SetPause
  BY <1>29 DEF TypeOK, SetPause, DapGoto
<1>30. CASE ReadVM
  BY <1>30 DEF TypeOK, ReadVM, DapGoto
<1>31. CASE EnableDebugStep
  BY <1>31 DEF TypeOK, EnableDebugStep, DapGoto
<1>32. CASE Callbacks
  BY <1>32 DEF TypeOK, Callbacks, DapGoto
<1>33. CASE CallbacksOfNull
  BY <1>33 DEF TypeOK, CallbacksOfNull, Crash
<1>34. CASE SetProcessor
  BY <1>34 DEF TypeOK, SetProcessor, DapGoto
<1>35. CASE ResumeInternal
  BY <1>35 DEF TypeOK, ResumeInternal, DapGoto
<1>36. CASE Notify
  BY <1>36 DEF TypeOK, Notify, NotifyResumed, NotifyOne, DapGoto
<1>37. CASE DropSession
  BY <1>37 DEF TypeOK, DropSession, DapGoto
<1>38. CASE Exit
  BY <1>38 DEF TypeOK, Exit
<1>39. CASE FindVariable
  BY <1>39 DEF TypeOK, FindVariable, DapGoto
<1>40. CASE Assert
  BY <1>40 DEF TypeOK, Assert, DapGoto
<1>41. CASE PostMainFn
  BY <1>41 DEF TypeOK, PostMainFn, NotifyOne, DapGoto
<1>42. CASE DapWake
  BY <1>42 DEF TypeOK, DapWake, MainFnDone, DapGoto
<1>43. CASE Respond
  BY <1>43 DEF TypeOK, Respond, Handle
<1>44. CASE SpuriousWake
  BY <1>44 DEF TypeOK, SpuriousWake
<1>45. CASE UNCHANGED vars
  BY <1>45 DEF TypeOK, vars
<1> QED
  BY <1>1, <1>2, <1>3, <1>4, <1>5, <1>6, <1>7, <1>8, <1>9, <1>10, <1>11,
     <1>12, <1>13, <1>14, <1>15, <1>16, <1>17, <1>18, <1>19, <1>20, <1>21,
     <1>22, <1>23, <1>24, <1>25, <1>26, <1>27, <1>28, <1>29, <1>30, <1>31,
     <1>32, <1>33, <1>34, <1>35, <1>36, <1>37, <1>38, <1>39, <1>40, <1>41,
     <1>42, <1>43, <1>44, <1>45
  DEF Next, Script, LuaStep, Nested, NewRequest, DapStep, Terminated

(* The inductive invariant holds in every behaviour of the protocol.       *)
THEOREM Invariance == Spec => []IInv
<1>1. Init => IInv
  BY InvInit
<1>2. IInv /\ [Next]_vars => IInv'
  BY InvStep, TypeStep DEF IInv
<1> QED BY <1>1, <1>2, PTL DEF Spec

(* A handler that uses the VM, the registries or the step callbacks        *)
(* without a lock does so while the Lua thread is parked.                  *)
THEOREM Quiescence == Spec => []VMQuiescent
<1>1. IInv => VMQuiescent
  BY DEF IInv, ProtocolInv, HaltTogether, VMQuiescent, TouchesVM
<1> QED BY <1>1, Invariance, PTL

(* No thread is left in a wait set with its predicate true.                *)
THEOREM Wakeups == Spec => [](lua \notin Halted => NoLostWakeup)
<1>1. IInv => (lua \notin Halted => NoLostWakeup)
  BY DEF IInv, ProtocolInv
<1> QED BY <1>1, Invariance, PTL

(* break_mutex_ is held exactly where the code means to hold it.           *)
THEOREM MutexDiscipline == Spec => []MutexOwned
<1>1. IInv => MutexOwned
  BY DEF IInv, ProtocolInv, MutexOwned
<1> QED BY <1>1, Invariance, PTL

-----------------------------------------------------------------------------
(* What holds until a client leaves.                                       *)

(* Only the handler of disconnect leaves a null behind, and only after     *)
(* left is set: until then the session that was tested is the session that *)
(* is used, the processor of a step stays in place while it is called, and *)
(* the client of a stop has been told of it.                               *)
Departures ==
  /\ dap = "dropSession" => req = "disconnect"
  /\ dap \in {"getBreakContext", "enableDebugStep", "callbacks", "setProcessor"}
       => req # "update"
  /\ ~left =>
       /\ req # "disconnect" /\ lua # "crashed"
       /\ lua = "stepping" => single_step_processor_
       /\ lua \in {"print", "hit", "console", "send"} => session_
       /\ lua \in {"enter", "update", "wait", "waiting", "exec"} => session_ /\ told

(* Every step of either thread keeps them.                                 *)
LEMMA DeparturesStep ==
  IInv /\ Departures /\ TypeOK' /\ [Next]_vars => Departures'
<1> SUFFICES ASSUME IInv, Departures, TypeOK', [Next]_vars PROVE Departures'
  OBVIOUS
<1>0. /\ left \in BOOLEAN /\ left' \in BOOLEAN
      /\ session_ \in BOOLEAN /\ session_' \in BOOLEAN
      /\ lua \notin Halted => VMQuiescent /\ StopShape
      /\ lua \in Halted <=> dap \in Halted
  BY DEF IInv, TypeOK, FlagsOK, ProtocolInv, HaltTogether
<1> USE <1>0 DEF Departures, VMQuiescent, TouchesVM, StopShape, InStop,
          pcs, syncVars, stopVars, sessionVars, stepVars, bpVars
<1>1. CASE Interrupt
  BY <1>1 DEF Interrupt, ProcessTasks, TakePause, Break
<1>2. CASE DebugBreak
  BY <1>2 DEF DebugBreak, Break
<1>3. CASE BreakHere
  BY <1>3 DEF BreakHere, Break
<1>4. CASE DebugStep
  BY <1>4 DEF DebugStep, LuaGoto
<1>5. CASE LuaPrint
  BY <1>5 DEF LuaPrint, LuaGoto
<1>6. CASE Finish
  BY <1>6 DEF Finish, LuaGoto
<1>7. CASE CallProcessor
  BY <1>7 DEF CallProcessor, Break, LuaGoto, Crash
<1>8. CASE PrintSend
  BY <1>8 DEF PrintSend, LuaGoto, Crash
<1>9. CASE Join
  BY <1>9 DEF Join
<1>10. CASE Lock
  BY <1>10 DEF Lock, LuaGoto, Acquire
<1>11. CASE CheckSession
  BY <1>11 DEF CheckSession, LuaGoto, Ignore, Release
<1>12. CASE EntryWake
  BY <1>12 DEF EntryWake, SessionReady, GoOn, LuaGoto, Acquire
<1>13. CASE Hit
  BY <1>13 DEF Hit, Ignore, LuaGoto, Release
<1>14. CASE ConsoleSend
  BY <1>14 DEF ConsoleSend, LuaGoto, Crash
<1>15. CASE Send
  BY <1>15 DEF Send, LuaGoto, Crash
<1>16. CASE Enter
  BY <1>16 DEF Enter, StopVM, LuaGoto
<1>17. CASE Update
  BY <1>17 DEF Update, LuaGoto
<1>18. CASE Wait
  BY <1>18 DEF Wait, MayLeave, Leave, LuaGoto, Release
<1>19. CASE Wake
  BY <1>19 DEF Wake, LuaGoto, Acquire
<1>20. CASE Exec
  BY <1>20 DEF Exec, MainFnReturned, NotifyOne, LuaGoto
<1>21. CASE NestedInterrupt
  BY <1>21 DEF NestedInterrupt, RunsCode, NestedBreak, ProcessTasks
<1>22. CASE NestedDebugBreak
  BY <1>22 DEF NestedDebugBreak, RunsCode, NestedBreak
<1>23. CASE NestedBreakHere
  BY <1>23 DEF NestedBreakHere, RunsCode, NestedBreak
<1>24. CASE NestedDebugStep
  BY <1>24 DEF NestedDebugStep, NestedBreak
<1>25. ASSUME NEW r \in {"initialize", "reconnect"}, OnConnect(r) PROVE Departures'
  BY <1>25, RequestsAssumption DEF OnConnect, Receive, SetSession, NotifyOne, Handle
<1>26. ASSUME NEW r \in Requests, IsDebugBreak(r) PROVE Departures'
  BY <1>26, RequestsAssumption DEF IsDebugBreak, Receive, InBreak, OutOfBreak
<1>27. CASE SetBreakPoints
  BY <1>27 DEF SetBreakPoints, Receive, Post, Handle
<1>28. CASE OnDisconnect
  BY <1>28 DEF OnDisconnect, Receive, Post, Handle
<1>29. CASE SetPause
  BY <1>29 DEF SetPause, DapGoto
<1>30. CASE ReadVM
  BY <1>30 DEF ReadVM, DapGoto
<1>31. CASE EnableDebugStep
  BY <1>31 DEF EnableDebugStep, DapGoto
<1>32. CASE Callbacks
  BY <1>32 DEF Callbacks, DapGoto
<1>33. CASE CallbacksOfNull
  BY <1>33 DEF CallbacksOfNull, Crash
<1>34. CASE SetProcessor
  BY <1>34 DEF SetProcessor, DapGoto
<1>35. CASE ResumeInternal
  BY <1>35 DEF ResumeInternal, DapGoto
<1>36. CASE Notify
  BY <1>36 DEF Notify, NotifyResumed, NotifyOne, DapGoto
<1>37. CASE DropSession
  BY <1>37 DEF DropSession, DapGoto
<1>38. CASE Exit
  BY <1>38 DEF Exit
<1>39. CASE FindVariable
  BY <1>39 DEF FindVariable, DapGoto
<1>40. CASE Assert
  BY <1>40 DEF Assert, DapGoto
<1>41. CASE PostMainFn
  BY <1>41 DEF PostMainFn, NotifyOne, DapGoto
<1>42. CASE DapWake
  BY <1>42 DEF DapWake, MainFnDone, DapGoto
<1>43. CASE Respond
  BY <1>43 DEF Respond, Handle
<1>44. CASE SpuriousWake
  BY <1>44 DEF SpuriousWake
<1>45. CASE UNCHANGED vars
  BY <1>45 DEF vars
<1> QED
  BY <1>1, <1>2, <1>3, <1>4, <1>5, <1>6, <1>7, <1>8, <1>9, <1>10, <1>11,
     <1>12, <1>13, <1>14, <1>15, <1>16, <1>17, <1>18, <1>19, <1>20, <1>21,
     <1>22, <1>23, <1>24, <1>25, <1>26, <1>27, <1>28, <1>29, <1>30, <1>31,
     <1>32, <1>33, <1>34, <1>35, <1>36, <1>37, <1>38, <1>39, <1>40, <1>41,
     <1>42, <1>43, <1>44, <1>45
  DEF Next, Script, LuaStep, Nested, NewRequest, DapStep, Terminated

(* Until a client leaves, what it was told and what the Lua thread relies  *)
(* on hold in every behaviour.                                             *)
LEMMA DeparturesHold == Spec => []Departures
<1>1. Init => Departures
  BY DEF Init, Departures
<1>2. IInv /\ Departures /\ IInv' /\ [Next]_vars => Departures'
  BY DeparturesStep DEF IInv
<1> QED BY <1>1, <1>2, Invariance, PTL DEF Spec

(* Until a client leaves, nothing is reached through a null session,       *)
(* processor or VM.                                                        *)
THEOREM NoNullUsed == Spec => []NoCrash
<1>1. Departures => NoCrash
  BY DEF Departures, NoCrash
<1> QED BY <1>1, DeparturesHold, PTL

(* Until a client leaves, a client that is connected while the program is  *)
(* stopped has been sent the event of that stop.                           *)
THEOREM ClientTold == Spec => []StoppedClientTold
<1>1. Departures => StoppedClientTold
  BY DEF Departures, StoppedClientTold
<1> QED BY <1>1, DeparturesHold, PTL

(* The handler of setVariable is the only one whose sent-callback hands a  *)
(* function over while the program runs.                                   *)
LEMMA AssertStep ==
  ASSUME "setVariable" \notin Requests, IInv, ExecuteOnlyInBreak, [Next]_vars
  PROVE  ExecuteOnlyInBreak'
<1>0. /\ resume_ \in BOOLEAN
      /\ lua \notin Halted => VMQuiescent /\ HandlerHolds
      /\ lua \in Halted <=> dap \in Halted
  BY DEF IInv, TypeOK, FlagsOK, ProtocolInv, HaltTogether
<1> USE <1>0 DEF ExecuteOnlyInBreak, VMQuiescent, HandlerHolds, TouchesVM,
          pcs, syncVars, stopVars, sessionVars, stepVars, bpVars
<1>1. CASE Interrupt
  BY <1>1 DEF Interrupt, ProcessTasks, TakePause, Break
<1>2. CASE DebugBreak
  BY <1>2 DEF DebugBreak, Break
<1>3. CASE BreakHere
  BY <1>3 DEF BreakHere, Break
<1>4. CASE DebugStep
  BY <1>4 DEF DebugStep, LuaGoto
<1>5. CASE LuaPrint
  BY <1>5 DEF LuaPrint, LuaGoto
<1>6. CASE Finish
  BY <1>6 DEF Finish, LuaGoto
<1>7. CASE CallProcessor
  BY <1>7 DEF CallProcessor, Break, LuaGoto, Crash
<1>8. CASE PrintSend
  BY <1>8 DEF PrintSend, LuaGoto, Crash
<1>9. CASE Join
  BY <1>9 DEF Join
<1>10. CASE Lock
  BY <1>10 DEF Lock, LuaGoto, Acquire
<1>11. CASE CheckSession
  BY <1>11 DEF CheckSession, LuaGoto, Ignore, Release
<1>12. CASE EntryWake
  BY <1>12 DEF EntryWake, SessionReady, GoOn, LuaGoto, Acquire
<1>13. CASE Hit
  BY <1>13 DEF Hit, Ignore, LuaGoto, Release
<1>14. CASE ConsoleSend
  BY <1>14 DEF ConsoleSend, LuaGoto, Crash
<1>15. CASE Send
  BY <1>15 DEF Send, LuaGoto, Crash
<1>16. CASE Enter
  BY <1>16 DEF Enter, StopVM, LuaGoto
<1>17. CASE Update
  BY <1>17 DEF Update, LuaGoto
<1>18. CASE Wait
  BY <1>18 DEF Wait, MayLeave, Leave, LuaGoto, Release
<1>19. CASE Wake
  BY <1>19 DEF Wake, LuaGoto, Acquire
<1>20. CASE Exec
  BY <1>20 DEF Exec, MainFnReturned, NotifyOne, LuaGoto
<1>21. CASE NestedInterrupt
  BY <1>21 DEF NestedInterrupt, RunsCode, NestedBreak, ProcessTasks
<1>22. CASE NestedDebugBreak
  BY <1>22 DEF NestedDebugBreak, RunsCode, NestedBreak
<1>23. CASE NestedBreakHere
  BY <1>23 DEF NestedBreakHere, RunsCode, NestedBreak
<1>24. CASE NestedDebugStep
  BY <1>24 DEF NestedDebugStep, NestedBreak
<1>25. ASSUME NEW r \in {"initialize", "reconnect"}, OnConnect(r) PROVE ExecuteOnlyInBreak'
  BY <1>25, RequestsAssumption DEF OnConnect, Receive, SetSession, NotifyOne, Handle
<1>26. ASSUME NEW r \in Requests, IsDebugBreak(r) PROVE ExecuteOnlyInBreak'
  BY <1>26, RequestsAssumption DEF IsDebugBreak, Receive, InBreak, OutOfBreak
<1>27. CASE SetBreakPoints
  BY <1>27 DEF SetBreakPoints, Receive, Post, Handle
<1>28. CASE OnDisconnect
  BY <1>28 DEF OnDisconnect, Receive, Post, Handle
<1>29. CASE SetPause
  BY <1>29 DEF SetPause, DapGoto
<1>30. CASE ReadVM
  BY <1>30 DEF ReadVM, DapGoto
<1>31. CASE EnableDebugStep
  BY <1>31 DEF EnableDebugStep, DapGoto
<1>32. CASE Callbacks
  BY <1>32 DEF Callbacks, DapGoto
<1>33. CASE CallbacksOfNull
  BY <1>33 DEF CallbacksOfNull, Crash
<1>34. CASE SetProcessor
  BY <1>34 DEF SetProcessor, DapGoto
<1>35. CASE ResumeInternal
  BY <1>35 DEF ResumeInternal, DapGoto
<1>36. CASE Notify
  BY <1>36 DEF Notify, NotifyResumed, NotifyOne, DapGoto
<1>37. CASE DropSession
  BY <1>37 DEF DropSession, DapGoto
<1>38. CASE Exit
  BY <1>38 DEF Exit
<1>39. CASE FindVariable
  BY <1>39 DEF FindVariable, DapGoto
<1>40. CASE Assert
  BY <1>40 DEF Assert, DapGoto
<1>41. CASE PostMainFn
  BY <1>41 DEF PostMainFn, NotifyOne, DapGoto
<1>42. CASE DapWake
  BY <1>42 DEF DapWake, MainFnDone, DapGoto
<1>43. CASE Respond
  BY <1>43 DEF Respond, Handle
<1>44. CASE SpuriousWake
  BY <1>44 DEF SpuriousWake
<1>45. CASE UNCHANGED vars
  BY <1>45 DEF vars
<1> QED
  BY <1>1, <1>2, <1>3, <1>4, <1>5, <1>6, <1>7, <1>8, <1>9, <1>10, <1>11,
     <1>12, <1>13, <1>14, <1>15, <1>16, <1>17, <1>18, <1>19, <1>20, <1>21,
     <1>22, <1>23, <1>24, <1>25, <1>26, <1>27, <1>28, <1>29, <1>30, <1>31,
     <1>32, <1>33, <1>34, <1>35, <1>36, <1>37, <1>38, <1>39, <1>40, <1>41,
     <1>42, <1>43, <1>44, <1>45
  DEF Next, Script, LuaStep, Nested, NewRequest, DapStep, Terminated

(* For clients that assign no variable, the assertion of                  *)
(* executeInMainThread holds.                                              *)
THEOREM ExecutesInBreak ==
  ASSUME "setVariable" \notin Requests
  PROVE  Spec => []ExecuteOnlyInBreak
<1>1. Init => ExecuteOnlyInBreak
  BY DEF Init, ExecuteOnlyInBreak
<1>2. IInv /\ ExecuteOnlyInBreak /\ [Next]_vars => ExecuteOnlyInBreak'
  BY AssertStep
<1> QED BY <1>1, <1>2, Invariance, PTL DEF Spec

-----------------------------------------------------------------------------
(* What the protocol promises.                                             *)

(* A stop ends only when a dispatcher released it, with no function of a   *)
(* dispatcher left behind.                                                 *)
THEOREM Leaving == Spec => LeavesReleased
<1>1. [Next]_vars => (InStop /\ ~InStop' /\ lua' = "run" => resume_ /\ ~main_fn_)
  <2> SUFFICES ASSUME [Next]_vars, InStop, lua' = "run"
               PROVE resume_ /\ ~main_fn_
    BY DEF InStop
  <2>1. CASE Wait
    BY <2>1 DEF Wait, MayLeave, LuaGoto
  <2>2. CASE LuaStep /\ ~Wait
    BY <2>2 DEF LuaStep, CallProcessor, PrintSend, Join, Lock, CheckSession,
       EntryWake, Hit, ConsoleSend, Send, Enter, Update, Wake, Exec, InStop,
       LuaGoto
  <2>3. CASE Script
    BY <2>3 DEF Script, Interrupt, DebugBreak, BreakHere, DebugStep, LuaPrint,
       Finish, InStop
  <2>4. CASE Nested
    BY <2>4 DEF Nested, NestedInterrupt, NestedDebugBreak, NestedBreakHere,
       NestedDebugStep, NestedBreak, InStop, pcs
  <2>5. CASE NewRequest
    BY <2>5 DEF NewRequest, OnConnect, IsDebugBreak, SetBreakPoints,
       OnDisconnect, Handle, InStop
  <2>6. CASE DapStep
    BY <2>6 DEF DapStep, SetPause, ReadVM, EnableDebugStep, Callbacks,
       CallbacksOfNull, SetProcessor, ResumeInternal, Notify, DropSession,
       Exit, FindVariable, Assert, PostMainFn, DapWake, Respond, Crash,
       DapGoto, Handle, InStop, pcs
  <2>7. CASE SpuriousWake \/ UNCHANGED vars
    BY <2>7 DEF SpuriousWake, vars, pcs, InStop
  <2> QED
    BY <2>1, <2>2, <2>3, <2>4, <2>5, <2>6, <2>7 DEF Next, Terminated
<1> QED BY <1>1, PTL DEF Spec, LeavesReleased

(* Every step of the two threads is a step of the contract, or one it      *)
(* does not see.                                                           *)
LEMMA StepRefines == IInv /\ IInv' /\ [Next]_vars 
          => [Contract!Next]_<<vmState, jobState>>
<1> SUFFICES ASSUME IInv, IInv', [Next]_vars 
                 PROVE [Contract!Next]_<<vmState, jobState>>
  OBVIOUS
<1> USE DEF IInv, HaltTogether, ProtocolInv, MutexOwned, StopShape, InStop,
          JobShape, HandlerHolds, VMQuiescent, TouchesVM, vmState, jobState,
          Contract!Next, Contract!Stop, Contract!Release, Contract!Resume,
          Contract!Ask, Contract!Serve, Contract!Answer, Contract!Halt,
          pcs, syncVars, stopVars, sessionVars, stepVars, bpVars
<1>1. CASE Interrupt
  BY <1>1 DEF Interrupt, ProcessTasks, TakePause, Break
<1>2. CASE DebugBreak
  BY <1>2 DEF DebugBreak, Break
<1>3. CASE BreakHere
  BY <1>3 DEF BreakHere, Break
<1>4. CASE DebugStep
  BY <1>4 DEF DebugStep, LuaGoto
<1>5. CASE LuaPrint
  BY <1>5 DEF LuaPrint, LuaGoto
<1>6. CASE Finish
  BY <1>6 DEF Finish, LuaGoto
<1>7. CASE CallProcessor
  BY <1>7 DEF CallProcessor, Break, LuaGoto, Crash
<1>8. CASE PrintSend
  BY <1>8 DEF PrintSend, LuaGoto, Crash
<1>9. CASE Join
  BY <1>9 DEF Join
<1>10. CASE Lock
  BY <1>10 DEF Lock, LuaGoto, Acquire
<1>11. CASE CheckSession
  BY <1>11 DEF CheckSession, LuaGoto, Ignore, Release
<1>12. CASE EntryWake
  BY <1>12 DEF EntryWake, SessionReady, GoOn, LuaGoto, Acquire
<1>13. CASE Hit
  BY <1>13 DEF Hit, Ignore, LuaGoto, Release
<1>14. CASE ConsoleSend
  BY <1>14 DEF ConsoleSend, LuaGoto, Crash
<1>15. CASE Send
  BY <1>15 DEF Send, LuaGoto, Crash
<1>16. CASE Enter
  BY <1>16 DEF Enter, StopVM, LuaGoto
<1>17. CASE Update
  BY <1>17 DEF Update, LuaGoto
<1>18. CASE Wait
  <2>0. lua = "wait" /\ dap' = dap
    BY <1>18 DEF Wait, Leave, LuaGoto
  <2>1. CASE MayLeave /\ Leave
    BY <2>0, <2>1 DEF MayLeave, Leave, LuaGoto, Release
  <2>2. CASE lua' \in {"exec", "waiting"} /\ UNCHANGED stopVars
    BY <2>0, <2>2
  <2> QED BY <1>18, <2>1, <2>2 DEF Wait, LuaGoto
<1>19. CASE Wake
  BY <1>19 DEF Wake, LuaGoto, Acquire
<1>20. CASE Exec
  BY <1>20 DEF Exec, MainFnReturned, NotifyOne, LuaGoto
<1>21. CASE NestedInterrupt
  BY <1>21 DEF NestedInterrupt, RunsCode, NestedBreak, ProcessTasks
<1>22. CASE NestedDebugBreak
  BY <1>22 DEF NestedDebugBreak, RunsCode, NestedBreak
<1>23. CASE NestedBreakHere
  BY <1>23 DEF NestedBreakHere, RunsCode, NestedBreak
<1>24. CASE NestedDebugStep
  BY <1>24 DEF NestedDebugStep, NestedBreak
<1>25. ASSUME NEW r \in {"initialize", "reconnect"}, OnConnect(r)
      PROVE [Contract!Next]_<<vmState, jobState>>
  BY <1>25, RequestsAssumption DEF OnConnect, Receive, SetSession, NotifyOne, Handle
<1>26. ASSUME NEW r \in Requests, IsDebugBreak(r)
      PROVE [Contract!Next]_<<vmState, jobState>>
  BY <1>26, RequestsAssumption DEF IsDebugBreak, Receive, InBreak, OutOfBreak
<1>27. CASE SetBreakPoints
  BY <1>27 DEF SetBreakPoints, Receive, Post, Handle
<1>28. CASE OnDisconnect
  BY <1>28 DEF OnDisconnect, Receive, Post, Handle
<1>29. CASE SetPause
  BY <1>29 DEF SetPause, DapGoto
<1>30. CASE ReadVM
  BY <1>30 DEF ReadVM, DapGoto
<1>31. CASE EnableDebugStep
  BY <1>31 DEF EnableDebugStep, DapGoto
<1>32. CASE Callbacks
  BY <1>32 DEF Callbacks, DapGoto
<1>33. CASE CallbacksOfNull
  BY <1>33 DEF CallbacksOfNull, Crash
<1>34. CASE SetProcessor
  BY <1>34 DEF SetProcessor, DapGoto
<1>35. CASE ResumeInternal
  BY <1>35 DEF ResumeInternal, DapGoto
<1>36. CASE Notify
  BY <1>36 DEF Notify, NotifyResumed, NotifyOne, DapGoto
<1>37. CASE DropSession
  BY <1>37 DEF DropSession, DapGoto
<1>38. CASE Exit
  BY <1>38 DEF Exit
<1>39. CASE FindVariable
  BY <1>39 DEF FindVariable, DapGoto
<1>40. CASE Assert
  BY <1>40 DEF Assert, DapGoto
<1>41. CASE PostMainFn
  BY <1>41 DEF PostMainFn, NotifyOne, DapGoto
<1>42. CASE DapWake
  BY <1>42 DEF DapWake, MainFnDone, DapGoto
<1>43. CASE Respond
  BY <1>43 DEF Respond, Handle
<1>44. CASE SpuriousWake
  BY <1>44 DEF SpuriousWake
<1>45. CASE UNCHANGED vars
  BY <1>45 DEF vars
<1> QED
  BY <1>1, <1>2, <1>3, <1>4, <1>5, <1>6, <1>7, <1>8, <1>9, <1>10, <1>11,
     <1>12, <1>13, <1>14, <1>15, <1>16, <1>17, <1>18, <1>19, <1>20, <1>21,
     <1>22, <1>23, <1>24, <1>25, <1>26, <1>27, <1>28, <1>29, <1>30, <1>31,
     <1>32, <1>33, <1>34, <1>35, <1>36, <1>37, <1>38, <1>39, <1>40, <1>41,
     <1>42, <1>43, <1>44, <1>45
  DEF Next, Script, LuaStep, Nested, NewRequest, DapStep, Terminated

(* The protocol implements the contract, its liveness apart: a function    *)
(* that is handed over runs within a stop, once, before it is answered,    *)
(* and no stop ends before it ran.                                         *)
THEOREM Refinement == Spec => KeepsContract
<1>1. Init => Contract!Init
  BY DEF Init, Contract!Init, vmState, jobState
<1>2. IInv /\ IInv' /\ [Next]_vars => [Contract!Next]_<<vmState, jobState>>
  BY StepRefines
<1> QED BY <1>1, <1>2, Invariance, PTL DEF Spec, KeepsContract, Contract!Spec

=============================================================================
