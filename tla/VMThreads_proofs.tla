-------------------------- MODULE VMThreads_proofs --------------------------
(***************************************************************************)
(* Proofs about VMThreads, for any number of addresses and lines and any   *)
(* depth: the registry's threads are the VM's, and the stack of resumers   *)
(* is what the chain of running threads says.                              *)
(***************************************************************************)
EXTENDS VMThreads, Induction

(* What cutting the last element off leaves.                               *)
LEMMA CutOne ==
  ASSUME NEW S, NEW s \in Seq(S), s # <<>>
  PROVE  /\ Len(s) \in Nat \ {0}
         /\ Cut(s, 1) \in Seq(S)
         /\ Len(Cut(s, 1)) = Len(s) - 1
         /\ \A i \in 1..(Len(s) - 1) : Cut(s, 1)[i] = s[i]
<1>1. Len(s) \in Nat \ {0}
  OBVIOUS
<1>2. \A i \in 1..(Len(s) - 1) : s[i] \in S
  BY <1>1
<1>3. Cut(s, 1) = [i \in 1..(Len(s) - 1) |-> s[i]]
  BY <1>1, SubSeq(s, 1, Len(s) - 1) = [i \in 1..(Len(s) - 1) |-> s[i]] DEF Cut
<1> QED
  BY <1>1, <1>2, <1>3

(* What appending one element adds.                                        *)
LEMMA AppendOne ==
  ASSUME NEW S, NEW s \in Seq(S), NEW e \in S
  PROVE  /\ Append(s, e) \in Seq(S)
         /\ Len(Append(s, e)) = Len(s) + 1
         /\ Append(s, e) # <<>>
         /\ \A i \in 1..Len(s) : Append(s, e)[i] = s[i]
         /\ Append(s, e)[Len(s) + 1] = e
  OBVIOUS

(* The fields of a link.                                                   *)
LEMMA LinkFields ==
  ASSUME NEW l \in Link
  PROVE  l.thread \in Threads /\ l.by \in {"host", "resume", "require"} /\ l.base \in Nat
  BY DEF Link

LEMMA InitKeeps == Init => IInv
<1> SUFFICES ASSUME Init PROVE IInv
  OBVIOUS
<1>1. chain = <<>> /\ thread_stack_ = <<>> /\ at = "exec"
  BY DEF Init
<1>2. chain \in Seq(Link) /\ thread_stack_ \in Seq(Threads)
  BY <1>1
<1>3. Len(chain) = 0 /\ Len(thread_stack_) = 0 /\ DOMAIN chain = {} /\ DOMAIN thread_stack_ = {}
  BY <1>1
<1>4. RegistryOK
  BY <1>1, <1>2 DEF Init, RegistryOK
<1>5. ChainActive
  BY <1>1, <1>3 DEF ChainActive
<1>6. Bases
  BY <1>1, <1>3 DEF Bases
<1>7. Pushed
  BY <1>3 DEF Pushed
<1> QED
  BY <1>4, <1>5, <1>6, <1>7 DEF IInv, Init

-----------------------------------------------------------------------------
(* Steps that leave threads and resumers alone.                            *)
LEMMA QuietKeeps ==
  ASSUME IInv, UNCHANGED <<status, chain, registry>>,
         at' \in {"hook", "exec", "unwinding", "stopped"},
         at' # "exec" => chain # <<>>
  PROVE  IInv'
  BY DEF IInv, RegistryOK, ChainActive, Bases, Pushed, registry, Top

(* The program starts: a thread at a free address.                         *)
LEMMA RunFileKeeps ==
  ASSUME IInv, NEW t \in Threads, NEW line \in Lines, RunFile(t, line)
  PROVE  IInv'
<1> DEFINE link == [thread |-> t, by |-> "host", base |-> 0]
<1>1. chain = <<>> /\ chain' = <<link>> /\ link \in Link
  BY DEF RunFile, Link
<1>2. Len(chain') = 1 /\ DOMAIN chain' = {1} /\ chain'[1] = link /\ chain' \in Seq(Link)
  BY <1>1
<1>3. thread_stack_' = thread_stack_ /\ Len(thread_stack_) = 0
  BY <1>1 DEF RunFile, IInv, Bases
<1>4. DOMAIN thread_stack_ = {}
  BY <1>3 DEF IInv, RegistryOK
<1>5. RegistryOK'
  BY <1>2, <1>3 DEF RunFile, IInv, RegistryOK, MarkAlive
<1>6. ChainActive'
  BY <1>2, chain' # <<>> DEF RunFile, IInv, RegistryOK, ChainActive
<1>7. Bases'
  BY <1>2, <1>3 DEF Bases, Top
<1>8. Pushed'
  BY <1>2, <1>3, <1>4 DEF Pushed
<1>9. (alive_threads_ = {u \in Threads : status[u] # "free"})'
  BY DEF RunFile, MarkAlive, IInv, RegistryOK
<1> QED
  BY <1>5, <1>6, <1>7, <1>8, <1>9 DEF IInv

(* The VM is closed.                                                       *)
LEMMA ResetKeeps == ASSUME IInv, Reset PROVE IInv'
<1>1. chain = <<>> /\ chain' = chain /\ thread_stack_' = thread_stack_ /\ at' = at
  BY DEF Reset
<1>2. DOMAIN chain = {} /\ Len(chain) = 0
  BY <1>1
<1>3. RegistryOK'
  BY <1>1 DEF Reset, IInv, RegistryOK
<1>4. ChainActive' /\ Bases' /\ Pushed'
  BY <1>1, <1>2 DEF IInv, ChainActive, Bases, Pushed, Top
<1> QED
  BY <1>3, <1>4 DEF IInv, Reset

(* A thread that does not run changes its status.                          *)
LEMMA BystanderKeeps ==
  ASSUME IInv, NEW t \in Threads, NEW new \in {"free", "fresh"},
         status[t] # "active", status' = [status EXCEPT ![t] = new],
         UNCHANGED <<chain, thread_stack_>>, chain # <<>>, at' \in {"hook", "exec"},
         alive_threads_' = IF new = "free" THEN alive_threads_ \ {t}
                           ELSE alive_threads_ \cup {t}
  PROVE  IInv'
<1>1. RegistryOK'
  BY DEF IInv, RegistryOK
<1>2. ChainActive'
  BY DEF IInv, RegistryOK, ChainActive, Link
<1>3. Bases' /\ Pushed'
  BY DEF IInv, Bases, Pushed, Top
<1>4. (alive_threads_ = {u \in Threads : status[u] # "free"})'
  BY DEF IInv, RegistryOK
<1> QED
  BY <1>1, <1>2, <1>3, <1>4 DEF IInv


-----------------------------------------------------------------------------
(* Another thread starts to run, or goes on.                               *)
LEMMA RunKeeps ==
  ASSUME IInv, NEW t \in Threads, NEW by \in {"resume", "require"}, NEW line,
         chain # <<>>, status[t] # "active", Run(t, by, line), at' = "hook",
         IF by = "resume" THEN PushStack(Running) ELSE UNCHANGED thread_stack_,
         alive_threads_' = alive_threads_ \cup {t}
  PROVE  IInv'
<1> DEFINE n == Len(chain)
           m == Len(thread_stack_)
           link == [thread |-> t, by |-> by,
                    base |-> Top(chain).base + (IF by = "resume" THEN 1 ELSE 0)]
<1>1. chain \in Seq(Link) /\ thread_stack_ \in Seq(Threads) /\ n \in Nat \ {0} /\ m \in Nat
  BY DEF IInv, RegistryOK
<1>2. Top(chain) \in Link /\ Top(chain) = chain[n] /\ Running \in Threads /\ Running = chain[n].thread
  <2>1. chain[n] \in Link
    BY <1>1
  <2> QED
    BY <2>1, LinkFields DEF Top, Running
<1>3. link \in Link /\ link.thread = t /\ link.by = by
      /\ link.base = chain[n].base + (IF by = "resume" THEN 1 ELSE 0)
  BY <1>2 DEF Link
<1>4. chain' = Append(chain, link) /\ status' = [status EXCEPT ![t] = "active"]
  BY DEF Run
<1> HIDE DEF link
<1>5. /\ chain' \in Seq(Link) /\ Len(chain') = n + 1 /\ chain' # <<>>
      /\ \A i \in 1..n : chain'[i] = chain[i]
      /\ chain'[n + 1] = link
  BY <1>1, <1>3, <1>4, AppendOne
<1>6. m = chain[n].base
  BY <1>1, <1>2 DEF IInv, Bases
<1>7. /\ thread_stack_' \in Seq(Threads) /\ Len(thread_stack_') = link.base
      /\ \A k \in 1..m : thread_stack_'[k] = thread_stack_[k]
      /\ by = "resume" => thread_stack_'[m + 1] = chain[n].thread
  <2>1. CASE by = "resume"
    <3>1. thread_stack_' = Append(thread_stack_, Running)
      BY <2>1 DEF PushStack
    <3> QED
      BY <1>1, <1>2, <1>3, <1>6, <2>1, <3>1, AppendOne
  <2>2. CASE by = "require"
    BY <1>1, <1>3, <1>6, <2>2
  <2> QED
    BY <2>1, <2>2
<1>8. RegistryOK'
  BY <1>4, <1>5, <1>7 DEF IInv, RegistryOK
<1>9. ChainActive'
  <2>1. \A i \in 1..n : chain[i].thread # t /\ status[chain[i].thread] = "active"
                        /\ chain[i].thread \in Threads
    <3>1. \A i \in 1..n : chain[i] \in Link
      BY <1>1
    <3> QED
      BY <1>1, <3>1, LinkFields DEF IInv, ChainActive
  <2>2. \A i \in 1..(n + 1) : status'[chain'[i].thread] = "active"
    BY <1>1, <1>3, <1>4, <1>5, <2>1 DEF IInv, RegistryOK
  <2>3. \A i, j \in 1..(n + 1) : chain'[i].thread = chain'[j].thread => i = j
    BY <1>1, <1>3, <1>5, <2>1 DEF IInv, ChainActive
  <2>4. DOMAIN chain' = 1..(n + 1)
    BY <1>5
  <2> QED
    BY <1>5, <2>2, <2>3, <2>4 DEF ChainActive
<1>10. Bases'
  <2>1. chain'[1] = chain[1]
    BY <1>1, <1>5
  <2>2. \A i \in 2..(n + 1) :
          /\ chain'[i].by \in {"resume", "require"}
          /\ chain'[i].base = chain'[i - 1].base
                              + (IF chain'[i].by = "resume" THEN 1 ELSE 0)
    <3> SUFFICES ASSUME NEW i \in 2..(n + 1)
                 PROVE  /\ chain'[i].by \in {"resume", "require"}
                        /\ chain'[i].base = chain'[i - 1].base
                              + (IF chain'[i].by = "resume" THEN 1 ELSE 0)
      OBVIOUS
    <3>1. CASE i = n + 1
      BY <1>1, <1>3, <1>5, <3>1
    <3>2. CASE i \in 2..n
      <4>1. chain'[i] = chain[i] /\ chain'[i - 1] = chain[i - 1]
        BY <1>1, <1>5, <3>2
      <4> QED
        BY <3>2, <4>1 DEF IInv, Bases
    <3> QED
      BY <1>1, <3>1, <3>2
  <2>3. Len(thread_stack_') = Top(chain').base
    BY <1>1, <1>5, <1>7 DEF Top
  <2> QED
    BY <1>5, <2>1, <2>2, <2>3 DEF IInv, Bases
<1>11. Pushed'
  <2>1. DOMAIN thread_stack_ = 1..m /\ DOMAIN thread_stack_' = 1..link.base
        /\ link.base = m + (IF by = "resume" THEN 1 ELSE 0)
    BY <1>1, <1>3, <1>6, <1>7
  <2>2. ASSUME NEW i \in 2..(n + 1), chain'[i].by = "resume"
        PROVE  /\ chain'[i].base \in 1..link.base
               /\ thread_stack_'[chain'[i].base] = chain'[i - 1].thread
    <3>1. CASE i = n + 1
      <4>1. chain'[i] = link /\ chain'[i - 1] = chain[n] /\ by = "resume"
        BY <1>1, <1>3, <1>5, <2>2, <3>1
      <4>2. link.base = m + 1
        BY <2>1, <4>1
      <4> QED
        BY <1>1, <1>7, <4>1, <4>2
    <3>2. CASE i \in 2..n
      <4>1. chain'[i] = chain[i] /\ chain'[i - 1] = chain[i - 1]
        BY <1>1, <1>5, <3>2
      <4>2. chain[i].base \in 1..m /\ thread_stack_[chain[i].base] = chain[i - 1].thread
        BY <2>1, <2>2, <3>2, <4>1 DEF IInv, Pushed
      <4>3. chain[i].base \in 1..link.base
        BY <1>1, <2>1, <4>2
      <4> QED
        BY <1>7, <4>1, <4>2, <4>3
    <3> QED
      BY <1>1, <3>1, <3>2
  <2>3. ASSUME NEW k \in 1..link.base
        PROVE  \E i \in 2..(n + 1) : chain'[i].by = "resume" /\ chain'[i].base = k
    <3>1. CASE k \in 1..m
      <4>1. PICK i \in 2..n : chain[i].by = "resume" /\ chain[i].base = k
        BY <2>1, <3>1 DEF IInv, Pushed
      <4> QED
        BY <1>1, <1>5, <4>1
    <3>2. CASE k = m + 1 /\ by = "resume"
      BY <1>1, <1>3, <1>5, <1>6, <3>2
    <3> QED
      BY <1>1, <2>1, <3>1, <3>2
  <2> QED
    BY <1>5, <2>1, <2>2, <2>3 DEF Pushed
<1>12. (alive_threads_ = {u \in Threads : status[u] # "free"})'
  BY <1>4 DEF IInv, RegistryOK
<1> QED
  BY <1>8, <1>9, <1>10, <1>11, <1>12 DEF IInv


-----------------------------------------------------------------------------
(* The thread that runs stops.                                             *)
LEMMA LeaveKeeps ==
  ASSUME IInv, chain # <<>>, NEW new \in {"yielded", "done"}, NEW left,
         NEW pc \in {"hook", "unwinding"}, Leave(new, left, pc)
  PROVE  IInv'
<1> DEFINE n == Len(chain)
           m == Len(thread_stack_)
<1>1. chain \in Seq(Link) /\ thread_stack_ \in Seq(Threads) /\ n \in Nat \ {0} /\ m \in Nat
      /\ DOMAIN chain = 1..n /\ DOMAIN thread_stack_ = 1..m
  BY DEF IInv, RegistryOK
<1>2. \A i \in 1..n : /\ chain[i].thread \in Threads /\ chain[i].base \in Nat
                      /\ chain[i].by \in {"host", "resume", "require"}
  BY <1>1, LinkFields
<1>3. Running = chain[n].thread /\ Top(chain) = chain[n]
  BY DEF Running, Top
<1>4. /\ chain' \in Seq(Link) /\ Len(chain') = n - 1 /\ DOMAIN chain' = 1..(n - 1)
      /\ \A i \in 1..(n - 1) : chain'[i] = chain[i]
  <2>1. chain' = Cut(chain, 1)
    BY DEF Leave
  <2>2. /\ Cut(chain, 1) \in Seq(Link) /\ Len(Cut(chain, 1)) = n - 1
        /\ \A i \in 1..(n - 1) : Cut(chain, 1)[i] = chain[i]
    BY <1>1, CutOne
  <2> HIDE DEF n
  <2> QED
    BY <2>1, <2>2
<1>5. m = chain[n].base
  BY <1>3 DEF IInv, Bases
<1>6. status' = [status EXCEPT ![Running] = new] /\ alive_threads_' = alive_threads_
  BY DEF Leave
<1>7. n > 1 => /\ chain[n].by \in {"resume", "require"}
               /\ m = chain[n - 1].base + (IF chain[n].by = "resume" THEN 1 ELSE 0)
  BY <1>1, <1>5 DEF IInv, Bases
<1>8. n = 1 => chain[n].by = "host" /\ m = 0
  BY <1>5 DEF IInv, Bases
<1>9. /\ thread_stack_' \in Seq(Threads)
      /\ Len(thread_stack_') = IF n = 1 THEN 0 ELSE chain[n - 1].base
      /\ \A k \in 1..Len(thread_stack_') : thread_stack_'[k] = thread_stack_[k]
      /\ chain[n].by = "resume" => Len(thread_stack_') = m - 1
      /\ chain[n].by # "resume" => Len(thread_stack_') = m
  <2>1. CASE chain[n].by = "resume"
    <3>1. thread_stack_' = Cut(thread_stack_, 1)
      BY <1>3, <2>1 DEF Leave, PopResumer, PopStack
    <3>2. n > 1 /\ chain[n - 1].base \in Nat /\ m = chain[n - 1].base + 1
      BY <1>1, <1>2, <1>7, <1>8, <2>1
    <3>3. thread_stack_ # <<>>
      BY <1>1, <3>2
    <3> QED
      <4>1. /\ Cut(thread_stack_, 1) \in Seq(Threads)
            /\ Len(Cut(thread_stack_, 1)) = m - 1
            /\ \A k \in 1..(m - 1) : Cut(thread_stack_, 1)[k] = thread_stack_[k]
        BY <1>1, <3>3, CutOne
      <4>2. m - 1 = chain[n - 1].base /\ n # 1
        BY <1>1, <3>2
      <4> HIDE DEF n, m
      <4> QED
        BY <2>1, <3>1, <4>1, <4>2
  <2>2. CASE chain[n].by # "resume"
    <3>1. thread_stack_' = thread_stack_
      BY <1>3, <2>2 DEF Leave, PopResumer
    <3>2. n # 1 => m = chain[n - 1].base
      BY <1>1, <1>2, <1>7, <2>2
    <3> QED
      BY <1>1, <1>8, <2>2, <3>1, <3>2
  <2> QED
    BY <2>1, <2>2
<1>10. RegistryOK'
  <2>1. at' \in {"hook", "exec", "unwinding", "stopped"}
    BY DEF Leave
  <2>2. status' \in [Threads -> {"free", "fresh", "active", "yielded", "done"}]
    BY <1>6 DEF IInv, RegistryOK
  <2> QED
    BY <1>4, <1>6, <1>9, <2>1, <2>2 DEF IInv, RegistryOK
<1>11. ChainActive'
  <2>1. \A i \in 1..(n - 1) : chain[i].thread # Running /\ status[chain[i].thread] = "active"
    BY <1>1, <1>3 DEF IInv, ChainActive
  <2>2. \A i \in 1..(n - 1) : status'[chain'[i].thread] = "active"
    BY <1>1, <1>2, <1>4, <1>6, <2>1 DEF IInv, RegistryOK
  <2>3. \A i, j \in 1..(n - 1) : chain'[i].thread = chain'[j].thread => i = j
    BY <1>1, <1>4 DEF IInv, ChainActive
  <2>4. at' # "exec" => chain' # <<>>
    BY <1>1, <1>4 DEF Leave
  <2> QED
    BY <1>4, <2>2, <2>3, <2>4 DEF ChainActive
<1>12. Bases'
  <2>1. chain' # <<>> => n > 1 /\ chain'[1] = chain[1] /\ Top(chain') = chain[n - 1]
    BY <1>1, <1>4 DEF Top
  <2>2. \A i \in 2..(n - 1) :
          /\ chain'[i].by \in {"resume", "require"}
          /\ chain'[i].base = chain'[i - 1].base
                              + (IF chain'[i].by = "resume" THEN 1 ELSE 0)
    <3>1. \A i \in 2..(n - 1) : /\ i \in 2..n
                                /\ chain'[i] = chain[i] /\ chain'[i - 1] = chain[i - 1]
      BY <1>1, <1>4
    <3> QED
      BY <3>1 DEF IInv, Bases
  <2>3. Len(thread_stack_') = IF chain' = <<>> THEN 0 ELSE Top(chain').base
    BY <1>1, <1>4, <1>9, <2>1
  <2> QED
    BY <1>1, <1>4, <2>1, <2>2, <2>3 DEF IInv, Bases
<1>13. Pushed'
  <2>1. DOMAIN thread_stack_' = 1..Len(thread_stack_') /\ Len(thread_stack_') \in Nat
    BY <1>9
  <2>2. ASSUME NEW i \in 2..(n - 1), chain'[i].by = "resume"
        PROVE  /\ chain'[i].base \in 1..Len(thread_stack_')
               /\ thread_stack_'[chain'[i].base] = chain'[i - 1].thread
    <3>1. chain'[i] = chain[i] /\ chain'[i - 1] = chain[i - 1]
      BY <1>1, <1>4
    <3>2. chain[i].base \in 1..m /\ thread_stack_[chain[i].base] = chain[i - 1].thread
      BY <1>1, <2>2, <3>1 DEF IInv, Pushed
    <3>3. chain[n].by = "resume" => chain[i].base # m
      <4>1. chain[n].by = "resume" => thread_stack_[m] = chain[n - 1].thread
        BY <1>1, <1>5 DEF IInv, Pushed
      <4>2. chain[i - 1].thread # chain[n - 1].thread
        <5>1. i - 1 \in DOMAIN chain /\ n - 1 \in DOMAIN chain /\ i - 1 # n - 1
          <6> HIDE DEF n
          <6> QED
            BY <1>1
        <5> QED
          BY <5>1 DEF IInv, ChainActive
      <4> QED
        BY <3>2, <4>1, <4>2
    <3>4. chain[i].base \in 1..Len(thread_stack_')
      <4> HIDE DEF n, m
      <4> QED
        BY <1>1, <1>9, <3>2, <3>3
    <3> QED
      BY <1>9, <3>1, <3>2, <3>4
  <2>3. ASSUME NEW k \in 1..Len(thread_stack_')
        PROVE  \E i \in 2..(n - 1) : chain'[i].by = "resume" /\ chain'[i].base = k
    <3>1. k \in 1..m /\ (chain[n].by = "resume" => k # m)
      <4> HIDE DEF n, m
      <4> QED
        BY <1>1, <1>9
    <3>2. PICK i \in 2..n : chain[i].by = "resume" /\ chain[i].base = k
      BY <1>1, <3>1 DEF IInv, Pushed
    <3>3. i # n
      BY <1>5, <3>1, <3>2
    <3> QED
      <4>1. i \in 2..(n - 1)
        <5> HIDE DEF n
        <5> QED
          BY <1>1, <3>3
      <4> QED
        BY <1>4, <3>2, <4>1
  <2> QED
    BY <1>4, <2>1, <2>2, <2>3 DEF Pushed
<1>14. (alive_threads_ = {u \in Threads : status[u] # "free"})'
  <2>1. status[Running] = "active"
    BY <1>1, <1>3 DEF IInv, ChainActive
  <2> QED
    BY <1>6, <2>1 DEF IInv, RegistryOK
<1> QED
  BY <1>10, <1>11, <1>12, <1>13, <1>14 DEF IInv

-----------------------------------------------------------------------------
(* Every step keeps the invariant.                                         *)
LEMMA StepKeeps == IInv /\ [Next]_vars => IInv'
<1> SUFFICES ASSUME IInv, [Next]_vars PROVE IInv'
  OBVIOUS
<1> USE DEF Executes
<1>0. chain # <<>> => Top(chain).by \in {"host", "resume", "require"} /\ Running \in Threads
  <2> SUFFICES ASSUME chain # <<>>
               PROVE  Top(chain) \in Link
    BY LinkFields DEF Running
  <2> QED
    BY DEF Top, IInv, RegistryOK
<1>1. ASSUME NEW t \in Threads, NEW line \in Lines, RunFile(t, line) PROVE IInv'
  BY <1>1, RunFileKeeps
<1>2. CASE Reset
  BY <1>2, ResetKeeps
<1>3. ASSUME NEW t \in Threads, NewThread(t) PROVE IInv'
  BY <1>3, BystanderKeeps DEF NewThread, MarkAlive
<1>4. ASSUME NEW t \in Threads, Collect(t) PROVE IInv'
  BY <1>4, BystanderKeeps DEF Collect, MarkDead
<1>5. ASSUME NEW t \in Threads, NEW line \in Lines, Resume(t, line) PROVE IInv'
  <2>1. alive_threads_' = alive_threads_ \cup {t} /\ status[t] # "active"
    BY <1>5 DEF Resume, IInv, RegistryOK
  <2> QED
    BY <1>5, <2>1, RunKeeps DEF Resume
<1>6. ASSUME NEW t \in Threads, NEW line \in Lines, Require(t, line) PROVE IInv'
  BY <1>6, RunKeeps DEF Require, MarkAlive
<1>7. CASE Yield
  BY <1>7, LeaveKeeps DEF Yield
<1>8. CASE Finish
  BY <1>8, LeaveKeeps DEF Finish
<1>9. CASE Unwind
  <2>1. chain # <<>>
    BY <1>9 DEF Unwind, IInv, ChainActive
  <2> QED
    BY <1>9, <2>1, LeaveKeeps DEF Unwind
<1>10. ASSUME NEW line \in Lines, NextLine(line) \/ Call(line) PROVE IInv'
  BY <1>10, QuietKeeps DEF NextLine, Call
<1>11. CASE Return
  BY <1>11, QuietKeeps DEF Return
<1>12. CASE Raise
  BY <1>12, QuietKeeps DEF Raise, program
<1>13. CASE Catch
  BY <1>13, QuietKeeps DEF Catch, IInv, ChainActive
<1>14. CASE Hook
  BY <1>14, QuietKeeps DEF Hook, program, IInv, ChainActive
<1>15. CASE DebugBreak
  BY <1>15, QuietKeeps DEF DebugBreak, program
<1>16. CASE BreakHere
  BY <1>16, QuietKeeps DEF BreakHere
<1>17. CASE Continue
  BY <1>17, QuietKeeps DEF Continue, GoOn, IInv, ChainActive
<1>18. ASSUME NEW kind, TakeStep(kind) PROVE IInv'
  BY <1>18, QuietKeeps DEF TakeStep, GoOn, IInv, ChainActive
<1>19. CASE UNCHANGED vars
  BY <1>19, QuietKeeps DEF vars, program, registry, IInv, RegistryOK, ChainActive
<1> QED
  BY <1>1, <1>2, <1>3, <1>4, <1>5, <1>6, <1>7, <1>8, <1>9, <1>10, <1>11, <1>12, <1>13,
     <1>14, <1>15, <1>16, <1>17, <1>18, <1>19 DEF Next, Host, Threading, Program, Debugger

(* The invariant holds in every reachable state.                           *)
THEOREM Invariance == Spec => []IInv
<1> QED
  BY InitKeeps, StepKeeps, PTL DEF Spec

-----------------------------------------------------------------------------
(* What follows from it.                                                   *)

(* Each resumer on the stack waits, below the thread that runs.            *)
LEMMA WaitsBelow ==
  ASSUME IInv, NEW k \in DOMAIN thread_stack_
  PROVE  \E i \in 2..Len(chain) :
           /\ chain[i].by = "resume" /\ chain[i].base = k
           /\ thread_stack_[k] = chain[i - 1].thread
           /\ i - 1 \in DOMAIN chain
<1>1. Len(chain) \in Nat /\ DOMAIN chain = 1..Len(chain)
  BY DEF IInv, RegistryOK
<1>2. PICK i \in 2..Len(chain) : chain[i].by = "resume" /\ chain[i].base = k
  BY DEF IInv, Pushed
<1>3. thread_stack_[k] = chain[i - 1].thread
  BY <1>2 DEF IInv, Pushed
<1> QED
  BY <1>1, <1>2, <1>3

LEMMA NoneDangles == IInv => NothingDangles
<1> SUFFICES ASSUME IInv, NEW k \in DOMAIN thread_stack_
             PROVE  status[thread_stack_[k]] = "active"
  BY DEF NothingDangles, IInv
<1> QED
  BY WaitsBelow DEF IInv, ChainActive

LEMMA AllWait == IInv => ResumersWait
<1> SUFFICES ASSUME IInv PROVE ResumersWait
  OBVIOUS
<1>1. Len(chain) \in Nat /\ DOMAIN chain = 1..Len(chain)
  BY DEF IInv, RegistryOK
<1>2. ASSUME NEW j \in DOMAIN thread_stack_, NEW k \in DOMAIN thread_stack_,
             thread_stack_[j] = thread_stack_[k]
      PROVE  j = k
  <2>1. PICK a \in 2..Len(chain) : chain[a].base = j /\ thread_stack_[j] = chain[a - 1].thread
                                   /\ a - 1 \in DOMAIN chain
    BY WaitsBelow
  <2>2. PICK b \in 2..Len(chain) : chain[b].base = k /\ thread_stack_[k] = chain[b - 1].thread
                                   /\ b - 1 \in DOMAIN chain
    BY WaitsBelow
  <2>3. a - 1 = b - 1
    BY <1>2, <2>1, <2>2 DEF IInv, ChainActive
  <2>4. a = b
    BY <2>3
  <2> QED
    BY <2>1, <2>2, <2>4
<1>3. ASSUME chain # <<>> PROVE Positions(Running) = {}
  <2> SUFFICES ASSUME NEW k \in DOMAIN thread_stack_, thread_stack_[k] = Running PROVE FALSE
    BY DEF Positions
  <2>1. PICK a \in 2..Len(chain) : thread_stack_[k] = chain[a - 1].thread
                                   /\ a - 1 \in DOMAIN chain
    BY WaitsBelow
  <2>2. Running = chain[Len(chain)].thread /\ Len(chain) \in DOMAIN chain
    BY <1>1, <2>1 DEF Running, Top
  <2>3. a - 1 = Len(chain)
    BY <2>1, <2>2 DEF IInv, ChainActive
  <2> QED
    BY <1>1, <2>3
<1> QED
  BY <1>2, <1>3 DEF ResumersWait

-----------------------------------------------------------------------------
(* The loop over getParent.                                                *)

(* No thread is on the stack twice.                                        *)
StackOK ==
  /\ thread_stack_ \in Seq(Threads)
  /\ \A j, k \in DOMAIN thread_stack_ : thread_stack_[j] = thread_stack_[k] => j = k

(* How much of the stack is below L, and L with the last n of that.        *)
Height(L) ==
  IF Positions(L) = {} THEN Len(thread_stack_) ELSE Min(Positions(L)) - 1
Line(L, n) ==
  [k \in 1..(n + 1) |-> IF k = 1 THEN L ELSE thread_stack_[Height(L) + 2 - k]]

(* The first b of the stack, the last one first: the resumers of a thread  *)
(* whose base is b.                                                        *)
Below(stack, b) == [k \in 1..b |-> stack[b + 1 - k]]

(* The one place of a thread on the stack.                                 *)
LEMMA PlaceIs ==
  ASSUME StackOK, NEW j \in DOMAIN thread_stack_
  PROVE  Positions(thread_stack_[j]) = {j} /\ Height(thread_stack_[j]) = j - 1
<1>1. Positions(thread_stack_[j]) = {j}
  BY DEF StackOK, Positions
<1>2. Min({j}) = j
  BY DEF StackOK, Min
<1> QED
  BY <1>1, <1>2 DEF Height

LEMMA ParentIs ==
  ASSUME StackOK, NEW L \in Threads
  PROVE  /\ Height(L) \in 0..Len(thread_stack_)
         /\ GetParent(L) = IF Height(L) = 0 THEN NoThread ELSE thread_stack_[Height(L)]
<1>1. CASE Positions(L) = {}
  BY <1>1 DEF StackOK, Height, GetParent, Top
<1>2. CASE Positions(L) # {}
  <2>1. PICK j \in DOMAIN thread_stack_ : thread_stack_[j] = L
    BY <1>2 DEF Positions
  <2>2. Positions(L) = {j} /\ Height(L) = j - 1
    BY <2>1, PlaceIs
  <2>3. j \in 1..Len(thread_stack_) /\ Len(thread_stack_) \in Nat
    BY DEF StackOK
  <2>4. Min(Positions(L)) = j
    BY <2>2, <2>3 DEF Min
  <2> QED
    BY <1>2, <2>1, <2>2, <2>3, <2>4 DEF GetParent
<1> QED
  BY <1>1, <1>2

(* One turn of the loop.                                                   *)
LEMMA TurnIs ==
  ASSUME StackOK, NEW L \in Threads, NEW m \in 0..Height(L)
  PROVE  /\ Line(L, m) \in Seq(Threads) /\ Len(Line(L, m)) = m + 1
         /\ Top(Line(L, m)) \in Threads
         /\ m = Height(L) => GetParent(Top(Line(L, m))) = NoThread
         /\ m # Height(L) => /\ GetParent(Top(Line(L, m))) # NoThread
                             /\ Append(Line(L, m), GetParent(Top(Line(L, m)))) = Line(L, m + 1)
<1> DEFINE h == Height(L)
<1>1. h \in Nat /\ h <= Len(thread_stack_) /\ m \in Nat /\ m <= h /\ DOMAIN thread_stack_ = 1..Len(thread_stack_)
      /\ \A k \in 1..Len(thread_stack_) : thread_stack_[k] \in Threads
  BY ParentIs DEF StackOK
<1>2. \A k \in 2..(m + 1) : h + 2 - k \in 1..Len(thread_stack_)
  <2> HIDE DEF h
  <2> QED
    BY <1>1
<1>3. Line(L, m) \in Seq(Threads) /\ Len(Line(L, m)) = m + 1
  <2>1. \A k \in 1..(m + 1) : (IF k = 1 THEN L ELSE thread_stack_[h + 2 - k]) \in Threads
    <3> HIDE DEF h
    <3> QED
      BY <1>1, <1>2
  <2>2. Line(L, m) \in [1..(m + 1) -> Threads]
    BY <2>1 DEF Line
  <2> QED
    BY <1>1, <2>2
<1>4. Top(Line(L, m)) = IF m = 0 THEN L ELSE thread_stack_[h + 1 - m]
  <2>1. Top(Line(L, m)) = Line(L, m)[m + 1]
    BY <1>3 DEF Top
  <2>2. Line(L, m)[m + 1] = IF m + 1 = 1 THEN L ELSE thread_stack_[h + 2 - (m + 1)]
    BY <1>1 DEF Line
  <2>3. h + 2 - (m + 1) = h + 1 - m /\ (m + 1 = 1 <=> m = 0)
    <3> HIDE DEF h
    <3> QED
      BY <1>1
  <2> QED
    BY <2>1, <2>2, <2>3
<1>5. Top(Line(L, m)) \in Threads /\ Height(Top(Line(L, m))) = h - m
  <2>1. CASE m = 0
    BY <1>1, <1>4, <2>1
  <2>2. CASE m # 0
    <3>1. h + 1 - m \in 1..Len(thread_stack_)
      <4> HIDE DEF h
      <4> QED
        BY <1>1, <2>2
    <3>2. Height(thread_stack_[h + 1 - m]) = h + 1 - m - 1 /\ thread_stack_[h + 1 - m] \in Threads
      BY <1>1, <3>1, PlaceIs
    <3>3. h + 1 - m - 1 = h - m
      <4> HIDE DEF h
      <4> QED
        BY <1>1
    <3> QED
      BY <1>4, <2>2, <3>2, <3>3
  <2> QED
    BY <2>1, <2>2
<1>6. GetParent(Top(Line(L, m))) = IF h - m = 0 THEN NoThread ELSE thread_stack_[h - m]
  BY <1>5, ParentIs
<1>7. ASSUME m # h
      PROVE  /\ GetParent(Top(Line(L, m))) # NoThread
             /\ Append(Line(L, m), GetParent(Top(Line(L, m)))) = Line(L, m + 1)
  <2>1. h - m # 0 /\ h - m \in 1..Len(thread_stack_)
    <3> HIDE DEF h
    <3> QED
      BY <1>1, <1>7
  <2>2. GetParent(Top(Line(L, m))) = thread_stack_[h - m] /\ thread_stack_[h - m] \in Threads
    BY <1>1, <1>6, <2>1
  <2>3. Append(Line(L, m), thread_stack_[h - m])
          = [k \in 1..(m + 2) |-> IF k = m + 2 THEN thread_stack_[h - m] ELSE Line(L, m)[k]]
    <3>1. m + 1 + 1 = m + 2
      BY <1>1
    <3> QED
      BY <1>3, <3>1
  <2>4. \A k \in 1..(m + 2) :
          (IF k = m + 2 THEN thread_stack_[h - m] ELSE Line(L, m)[k])
            = IF k = 1 THEN L ELSE thread_stack_[h + 2 - k]
    <3> SUFFICES ASSUME NEW k \in 1..(m + 2)
                 PROVE  (IF k = m + 2 THEN thread_stack_[h - m] ELSE Line(L, m)[k])
                           = IF k = 1 THEN L ELSE thread_stack_[h + 2 - k]
      OBVIOUS
    <3>1. CASE k = m + 2
      <4>1. h + 2 - k = h - m /\ k # 1
        <5> HIDE DEF h
        <5> QED
          BY <1>1, <3>1
      <4> QED
        BY <3>1, <4>1
    <3>2. CASE k # m + 2
      <4>1. k \in 1..(m + 1)
        BY <1>1, <3>2
      <4> QED
        BY <3>2, <4>1 DEF Line
    <3> QED
      BY <3>1, <3>2
  <2>5. Line(L, m + 1) = [k \in 1..(m + 2) |-> IF k = 1 THEN L ELSE thread_stack_[h + 2 - k]]
    <3>1. m + 1 + 1 = m + 2
      BY <1>1
    <3> QED
      BY <3>1 DEF Line
  <2> QED
    BY <2>1, <2>2, <2>3, <2>4, <2>5, <1>1, NoThread \notin Threads, AddressAssumption
<1>8. ASSUME m = h PROVE GetParent(Top(Line(L, m))) = NoThread
  <2>1. h - m = 0
    <3> HIDE DEF h
    <3> QED
      BY <1>1, <1>8
  <2> QED
    BY <1>6, <2>1
<1> QED
  BY <1>3, <1>5, <1>7, <1>8

(* The loop yields the thread and then what is below it on the stack, from *)
(* the top.                                                                *)
LEMMA AncestorsAre ==
  ASSUME StackOK, NEW L \in Threads
  PROVE  GetAncestors(L) = Line(L, Height(L))
<1> DEFINE size == Len(thread_stack_)
           To(n) == Line(L, IF n < Height(L) THEN n ELSE Height(L))
           Turn(s) == LET p == GetParent(Top(s))
                      IN  IF p = NoThread THEN s ELSE Append(s, p)
           Walk(w) == w = [n \in 0..size |-> IF n = 0 THEN <<L>> ELSE Turn(w[n - 1])]
<1>1. size \in Nat /\ Height(L) \in 0..size
  BY ParentIs DEF StackOK
<1>2. To(0) = <<L>>
  <2>1. Line(L, 0) = [k \in 1..1 |-> L]
    BY DEF Line
  <2>2. [k \in 1..1 |-> L] = <<L>>
    OBVIOUS
  <2> QED
    BY <1>1, <2>1, <2>2
<1>3. \A n \in 1..size : Turn(To(n - 1)) = To(n)
  <2> SUFFICES ASSUME NEW n \in 1..size PROVE Turn(To(n - 1)) = To(n)
    OBVIOUS
  <2>1. CASE n - 1 < Height(L)
    <3>1. n - 1 \in 0..Height(L) /\ n - 1 # Height(L) /\ n - 1 + 1 = n
          /\ (IF n < Height(L) THEN n ELSE Height(L)) = n
      BY <1>1, <2>1
    <3>2. To(n - 1) = Line(L, n - 1) /\ To(n) = Line(L, n)
      BY <2>1, <3>1
    <3>3. /\ GetParent(Top(Line(L, n - 1))) # NoThread
          /\ Append(Line(L, n - 1), GetParent(Top(Line(L, n - 1)))) = Line(L, n)
      BY <3>1, TurnIs
    <3> HIDE DEF To
    <3> QED
      BY <3>2, <3>3
  <2>2. CASE ~ (n - 1 < Height(L))
    <3>1. ~ (n < Height(L)) /\ Height(L) \in 0..Height(L)
      BY <1>1, <2>2
    <3>2. To(n - 1) = Line(L, Height(L)) /\ To(n) = Line(L, Height(L))
      BY <2>2, <3>1
    <3>3. GetParent(Top(Line(L, Height(L)))) = NoThread
      BY <3>1, TurnIs
    <3> HIDE DEF To
    <3> QED
      BY <3>2, <3>3
  <2> QED
    BY <2>1, <2>2
<1> HIDE DEF To, Turn
<1>4. \E w : Walk(w)
  <2>1. Walk([n \in 0..size |-> To(n)])
    <3>1. \A n \in 1..size : n - 1 \in 0..size
      BY <1>1
    <3> QED
      BY <1>1, <1>2, <1>3, <3>1
  <2> QED
    BY <2>1
<1> DEFINE w == CHOOSE v : Walk(v)
<1>5. GetAncestors(L) = w[size]
  BY DEF GetAncestors, Turn
<1>6. Walk(w)
  <2> HIDE DEF Walk
  <2> QED
    BY <1>4
<1>7. w[size] = To(size)
  <2> DEFINE M == {n \in Nat : n <= size => w[n] = To(n)}
  <2> HIDE DEF w
  <2>1. 0 \in M
    BY <1>1, <1>2, <1>6
  <2>2. \A n \in Nat : n \in M => n + 1 \in M
    <3> SUFFICES ASSUME NEW n \in Nat, n \in M, n + 1 <= size PROVE w[n + 1] = To(n + 1)
      OBVIOUS
    <3>1. n + 1 \in 0..size /\ n + 1 \in 1..size /\ n + 1 # 0 /\ n + 1 - 1 = n /\ n <= size
      BY <1>1
    <3>2. w[n + 1] = Turn(w[n])
      BY <1>6, <3>1
    <3>3. Turn(To(n)) = To(n + 1)
      BY <1>3, <3>1
    <3> QED
      BY <3>1, <3>2, <3>3
  <2>3. size \in M
    <3> HIDE DEF M
    <3> QED
      BY <1>1, <2>1, <2>2, Induct
  <2> QED
    BY <1>1, <2>3
<1>8. To(size) = Line(L, Height(L))
  BY <1>1 DEF To
<1> QED
  BY <1>5, <1>7, <1>8

(* The debugger holds a thread alive exactly while the VM has it, and the  *)
(* threads it follows from parent to parent are not freed ones.            *)
THEOREM Alive == Spec => []NothingDangles
<1> QED
  BY Invariance, NoneDangles, PTL

(* No resumer is the thread that runs, or is twice on the stack.           *)
THEOREM Waiting == Spec => []ResumersWait
<1> QED
  BY Invariance, AllWait, PTL

(* The loop over getParent ends, and comes to the resumers and to no other *)
(* thread, whichever thread it starts from.                                *)
LEMMA ParentsAre == StackOK => ParentsFollowed
<1> SUFFICES ASSUME StackOK, NEW t \in Threads
             PROVE  {u \in Threads : \E k \in 2..Len(GetAncestors(t)) : GetAncestors(t)[k] = u}
                      = Parents(t)
  BY DEF ParentsFollowed
<1> DEFINE h == Height(t)
<1>1. h \in Nat /\ h <= Len(thread_stack_) /\ Len(thread_stack_) \in Nat
      /\ DOMAIN thread_stack_ = 1..Len(thread_stack_)
  BY ParentIs DEF StackOK
<1>2. GetAncestors(t) = Line(t, h) /\ Len(Line(t, h)) = h + 1
  BY <1>1, AncestorsAre, TurnIs
<1>3. \A k \in 2..(h + 1) : Line(t, h)[k] = thread_stack_[h + 2 - k]
  BY <1>1 DEF Line
<1>4. {j \in DOMAIN thread_stack_ : \A k \in Positions(t) : j < k} = 1..h
  <2>1. CASE Positions(t) = {}
    BY <1>1, <2>1 DEF Height
  <2>2. CASE Positions(t) # {}
    <3>1. PICK p \in DOMAIN thread_stack_ : thread_stack_[p] = t
      BY <2>2 DEF Positions
    <3>2. Positions(t) = {p} /\ h = p - 1
      BY <3>1, PlaceIs
    <3> HIDE DEF h
    <3> QED
      BY <1>1, <3>2
  <2> QED
    BY <2>1, <2>2
<1>5. Parents(t) = {thread_stack_[j] : j \in 1..h}
  BY <1>4 DEF Parents
<1>6. \A j \in 1..h : thread_stack_[j] \in Threads
  <2>1. \A j \in 1..h : j \in 1..Len(thread_stack_)
    <3> HIDE DEF h
    <3> QED
      BY <1>1
  <2> QED
    BY <2>1 DEF StackOK
<1> HIDE DEF h
<1>7. ASSUME NEW u \in Threads, NEW k \in 2..(h + 1), Line(t, h)[k] = u PROVE u \in Parents(t)
  <2>1. h + 2 - k \in 1..h
    BY <1>1
  <2> QED
    BY <1>3, <1>5, <1>7, <2>1
<1>8. ASSUME NEW j \in 1..h
      PROVE  \E k \in 2..(h + 1) : Line(t, h)[k] = thread_stack_[j]
  <2>1. h + 2 - j \in 2..(h + 1) /\ h + 2 - (h + 2 - j) = j
    BY <1>1
  <2> QED
    BY <1>3, <2>1
<1> QED
  BY <1>2, <1>5, <1>6, <1>7, <1>8

(* Where no module is required, each link of the chain is one resumer      *)
(* above the one before it.                                                *)
LEMMA BasesCount ==
  ASSUME IInv, \A i \in DOMAIN chain : chain[i].by # "require"
  PROVE  \A i \in DOMAIN chain : chain[i].base = i - 1
<1> DEFINE n == Len(chain)
           M == {m \in Nat : m + 1 <= n => chain[m + 1].base = m}
<1>1. n \in Nat /\ DOMAIN chain = 1..n
  BY DEF IInv, RegistryOK
<1>2. 0 \in M
  <2>1. 0 + 1 <= n => chain # <<>>
    BY <1>1
  <2> QED
    BY <2>1 DEF IInv, Bases
<1>3. \A m \in Nat : m \in M => m + 1 \in M
  <2> SUFFICES ASSUME NEW m \in Nat, m \in M, m + 1 + 1 <= n
               PROVE  chain[m + 1 + 1].base = m + 1
    BY <1>1
  <2>1. m + 1 + 1 \in 2..n /\ m + 1 + 1 \in DOMAIN chain /\ m + 1 + 1 - 1 = m + 1 /\ m + 1 <= n
    BY <1>1
  <2>2. chain[m + 1 + 1].base = chain[m + 1].base + 1
    BY <2>1 DEF IInv, Bases
  <2> QED
    BY <2>1, <2>2
<1>4. ASSUME NEW i \in DOMAIN chain PROVE chain[i].base = i - 1
  <2>1. i - 1 \in Nat /\ i - 1 + 1 = i /\ i <= n
    BY <1>1
  <2>2. i - 1 \in M
    <3> HIDE DEF M
    <3> QED
      BY <1>2, <1>3, <2>1, Induct
  <2> QED
    BY <2>1, <2>2
<1> QED
  BY <1>4

(* The trace from the thread that runs goes through the whole chain.       *)
LEMMA TraceIs == IInv => TraceComplete
<1> SUFFICES ASSUME IInv, chain # <<>>, \A i \in DOMAIN chain : chain[i].by # "require"
             PROVE  GetAncestors(Running)
                      = [i \in DOMAIN chain |-> chain[Len(chain) + 1 - i].thread]
  BY DEF TraceComplete
<1> DEFINE n == Len(chain)
<1>1. n \in Nat \ {0} /\ DOMAIN chain = 1..n /\ chain \in Seq(Link)
  BY DEF IInv, RegistryOK
<1>2. Running = chain[n].thread /\ Running \in Threads /\ Top(chain) = chain[n]
  <2>1. chain[n] \in Link
    BY <1>1
  <2> QED
    BY <2>1, LinkFields DEF Running, Top
<1>3. StackOK /\ Positions(Running) = {}
  BY AllWait DEF ResumersWait, StackOK, IInv, RegistryOK
<1>4. Len(thread_stack_) = n - 1 /\ Height(Running) = n - 1
  BY <1>1, <1>2, <1>3, BasesCount DEF IInv, Bases, Height
<1>5. GetAncestors(Running) = Line(Running, n - 1)
  BY <1>2, <1>3, <1>4, AncestorsAre
<1>6. Line(Running, n - 1)
        = [k \in 1..n |-> IF k = 1 THEN Running ELSE thread_stack_[n + 1 - k]]
  <2>1. n - 1 + 1 = n /\ n - 1 + 2 = n + 1
    BY <1>1
  <2> QED
    BY <1>4, <2>1 DEF Line
<1>7. ASSUME NEW k \in 1..n
      PROVE  (IF k = 1 THEN Running ELSE thread_stack_[n + 1 - k]) = chain[n + 1 - k].thread
  <2>1. CASE k = 1
    BY <1>1, <1>2, <2>1, n + 1 - 1 = n
  <2>2. CASE k # 1
    <3>1. n + 2 - k \in 2..n /\ n + 2 - k - 1 = n + 1 - k /\ n + 2 - k \in DOMAIN chain
      BY <1>1, <2>2
    <3>2. chain[n + 2 - k].by = "resume" /\ chain[n + 2 - k].base = n + 1 - k
      BY <3>1, BasesCount DEF IInv, Bases
    <3>3. thread_stack_[n + 1 - k] = chain[n + 1 - k].thread
      BY <3>1, <3>2 DEF IInv, Pushed
    <3> QED
      BY <2>2, <3>3
  <2> QED
    BY <2>1, <2>2
<1> QED
  BY <1>1, <1>5, <1>6, <1>7

(* The loops over getParent come to every resumer and to nothing else.     *)
THEOREM Followed == Spec => []ParentsFollowed
<1>1. IInv => ParentsFollowed
  BY AllWait, ParentsAre DEF IInv, RegistryOK, ResumersWait, StackOK
<1> QED
  BY <1>1, Invariance, PTL

(* Without required modules the stack trace lists every thread of the      *)
(* chain, in order.                                                        *)
THEOREM Complete == Spec => []TraceComplete
<1> QED
  BY TraceIs, Invariance, PTL

=============================================================================
