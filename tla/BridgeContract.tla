--------------------------- MODULE BridgeContract ---------------------------
(***************************************************************************)
(* What the debugger promises about a stopped program, with no threads,    *)
(* locks or condition variables: a job the client's side hands over        *)
(* (executeInMainThread) runs only between a stop and its end, only once,  *)
(* and is answered only after it ran; a stopped VM runs on only after it   *)
(* was released, and never leaves a job it was asked to run behind.        *)
(***************************************************************************)
VARIABLES
  vm,    \* "running", "stopped", or "released": told to run on,
         \* or "gone" with the process
  job    \* "none", "asked", or "served": done and not yet answered

Init == vm = "running" /\ job = "none"

Stop    == vm = "running" /\ vm' = "stopped" /\ UNCHANGED job
Release == vm = "stopped" /\ job = "none" /\ vm' = "released" /\ UNCHANGED job
Resume  == vm = "released" /\ job # "asked" /\ vm' = "running" /\ UNCHANGED job

Ask    == job = "none" /\ job' = "asked" /\ UNCHANGED vm
Serve  == job = "asked" /\ vm # "running" /\ job' = "served" /\ UNCHANGED vm
Answer == job = "served" /\ job' = "none" /\ UNCHANGED vm

Halt == vm' = "gone" /\ job' = "none"

Next == vm # "gone" /\ (Stop \/ Release \/ Resume \/ Ask \/ Serve \/ Answer \/ Halt)

Spec == Init /\ [][Next]_<<vm, job>>

(* A stopped VM runs the job it was asked to run, the job is answered, and *)
(* a released VM runs on.                                                  *)
Fairness == /\ WF_<<vm, job>>(Serve)
            /\ WF_<<vm, job>>(Answer)
            /\ WF_<<vm, job>>(Resume)

FairSpec == Spec /\ Fairness

=============================================================================
