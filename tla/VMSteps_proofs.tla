--------------------------- MODULE VMSteps_proofs ---------------------------
(***************************************************************************)
(* Proofs about the steps of VMThreads, for any number of addresses and    *)
(* lines and any depth: what the call stacks look like, the types of all   *)
(* variables, and where a step over and a step out stop.                   *)
(*                                                                         *)
(* A step compares sums: the depth its context recorded and the one at     *)
(* this instruction, each over a chain of resumers.  OutOK keeps what      *)
(* makes them comparable, the place of old_ctx.L_ in the chain and the     *)
(* resumers below it.                                                      *)
(***************************************************************************)
EXTENDS VMThreads_proofs

Frame == Lines \cup {CLine}

(* The call stack of a thread that is in no C function.                    *)
Lua(f) == f \in Seq(Lines) /\ f # <<>>

(* A thread that executes, or has yielded, is in no C function; one that   *)
(* waits is in those of its resume or require, one that is stopped at most *)
(* in break_here.                                                          *)
Shape ==
  /\ frames \in [Threads -> Seq(Frame)]
  /\ chain # <<>> /\ at # "stopped" => Lua(frames[Running])
  /\ at = "stopped" => \/ Lua(frames[Running])
                       \/ /\ frames[Running] # <<>> /\ Top(frames[Running]) = CLine
                          /\ Lua(Cut(frames[Running], 1))
  /\ \A i \in 2..Len(chain) :
       Lua(Cut(frames[chain[i - 1].thread], Len(CFrames(chain[i].by))))
  /\ \A t \in Threads : status[t] = "yielded" => Lua(frames[t])

(* Cutting off as much as there is, or less.                               *)
LEMMA CutSome ==
  ASSUME NEW S, NEW s \in Seq(S), NEW n \in 0..Len(s)
  PROVE  /\ Cut(s, n) \in Seq(S) /\ Len(Cut(s, n)) = Len(s) - n
         /\ \A k \in 1..(Len(s) - n) : Cut(s, n)[k] = s[k]
<1>1. \A k \in 1..(Len(s) - n) : s[k] \in S
  OBVIOUS
<1>2. Cut(s, n) = [k \in 1..(Len(s) - n) |-> s[k]]
  BY SubSeq(s, 1, Len(s) - n) = [k \in 1..(Len(s) - n) |-> s[k]] DEF Cut
<1> QED
  BY <1>1, <1>2

LEMMA CutBack ==
  ASSUME NEW S, NEW s \in Seq(S), NEW c \in Seq(S)
  PROVE  Cut(s \o c, Len(c)) = s
<1>1. s \o c \in Seq(S) /\ Len(s \o c) = Len(s) + Len(c) /\ Len(c) \in 0..Len(s \o c)
  OBVIOUS
<1>2. /\ Cut(s \o c, Len(c)) \in Seq(S) /\ Len(Cut(s \o c, Len(c))) = Len(s)
      /\ \A k \in 1..Len(s) : Cut(s \o c, Len(c))[k] = (s \o c)[k]
  <2>1. Len(s \o c) - Len(c) = Len(s)
    BY <1>1
  <2> QED
    BY <1>1, <2>1, CutSome
<1>3. \A k \in 1..Len(s) : (s \o c)[k] = s[k]
  OBVIOUS
<1> HIDE DEF Cut
<1>4. \A u \in Seq(S) : Len(u) = Len(s) /\ (\A k \in 1..Len(s) : u[k] = s[k]) => u = s
  OBVIOUS
<1> QED
  BY <1>2, <1>3, <1>4

(* The C functions of a resume or a require.                               *)
LEMMA CFramesAre ==
  ASSUME NEW by
  PROVE  /\ CFrames(by) \in Seq(Frame)
         /\ Len(CFrames(by)) = IF by = "resume" THEN 2 ELSE 1
  BY DEF CFrames, Frame

(* A call stack of lines is one of frames, and no line is CLine.           *)
LEMMA LuaIs ==
  ASSUME NEW f, Lua(f)
  PROVE  /\ f \in Seq(Frame) /\ Len(f) \in Nat \ {0}
         /\ \A k \in 1..Len(f) : f[k] \in Lines /\ f[k] # CLine
         /\ Top(f) \in Lines /\ Top(f) # CLine
<1>1. f \in Seq(Lines) /\ f # <<>>
  BY DEF Lua
<1>2. Len(f) \in Nat \ {0}
  BY <1>1
<1>3. \A k \in 1..Len(f) : f[k] \in Lines
  BY <1>1
<1>4. CLine \notin Lines
  BY LinesAssumption DEF CLine
<1>5. f \in Seq(Frame)
  BY <1>1 DEF Frame
<1> QED
  BY <1>2, <1>3, <1>4, <1>5 DEF Top

(* What IInv says of the thread that runs and of those that wait.          *)
LEMMA ChainIs ==
  ASSUME IInv
  PROVE  /\ Len(chain) \in Nat /\ DOMAIN chain = 1..Len(chain)
         /\ \A i \in 1..Len(chain) : /\ chain[i].thread \in Threads
                                     /\ chain[i].base \in Nat
                                     /\ status[chain[i].thread] = "active"
         /\ \A i, j \in 1..Len(chain) : chain[i].thread = chain[j].thread => i = j
         /\ chain # <<>> => /\ Len(chain) > 0 /\ Running = chain[Len(chain)].thread
                            /\ Top(chain) = chain[Len(chain)]
                            /\ Running \in Threads /\ status[Running] = "active"
                            /\ Len(thread_stack_) = chain[Len(chain)].base
<1>1. Len(chain) \in Nat /\ DOMAIN chain = 1..Len(chain) /\ chain \in Seq(Link)
  BY DEF IInv, RegistryOK
<1>2. \A i \in 1..Len(chain) : /\ chain[i].thread \in Threads /\ chain[i].base \in Nat
                               /\ status[chain[i].thread] = "active"
  <2>1. \A i \in 1..Len(chain) : chain[i] \in Link
    BY <1>1
  <2> QED
    BY <1>1, <2>1, LinkFields DEF IInv, ChainActive
<1>3. \A i, j \in 1..Len(chain) : chain[i].thread = chain[j].thread => i = j
  BY <1>1 DEF IInv, ChainActive
<1>4. chain # <<>> => Len(chain) > 0
  BY <1>1
<1>5. chain # <<>> => /\ Running = chain[Len(chain)].thread
                      /\ Top(chain) = chain[Len(chain)]
                      /\ Len(thread_stack_) = chain[Len(chain)].base
  BY DEF Running, Top, IInv, Bases
<1> QED
  BY <1>1, <1>2, <1>3, <1>4, <1>5

-----------------------------------------------------------------------------
(* The shape of the call stacks.                                           *)

LEMMA InitShape == Init => Shape
<1> SUFFICES ASSUME Init PROVE Shape
  OBVIOUS
<1>1. chain = <<>> /\ at = "exec" /\ Len(chain) = 0
  BY DEF Init
<1>2. frames \in [Threads -> Seq(Frame)]
  <2>1. <<>> \in Seq(Frame)
    OBVIOUS
  <2> QED
    BY <2>1 DEF Init
<1>3. \A t \in Threads : status[t] # "yielded"
  BY DEF Init
<1> QED
  BY <1>1, <1>2, <1>3 DEF Shape

(* The thread that runs calls, returns, catches, stops or goes on.         *)
LEMMA FrameShape ==
  ASSUME IInv, Shape, UNCHANGED <<status, chain>>, chain # <<>>, NEW f \in Seq(Frame),
         frames' = [frames EXCEPT ![Running] = f],
         at' # "stopped" => Lua(f),
         at' = "stopped" => Lua(f) \/ (f # <<>> /\ Top(f) = CLine /\ Lua(Cut(f, 1)))
  PROVE  Shape'
<1>1. /\ Running \in Threads /\ Running' = Running /\ status[Running] = "active"
      /\ Running = chain[Len(chain)].thread /\ Len(chain) \in Nat
  BY ChainIs DEF Running, Top
<1>2. frames'[Running] = f /\ \A t \in Threads : t # Running => frames'[t] = frames[t]
  BY <1>1 DEF Shape
<1>3. frames' \in [Threads -> Seq(Frame)]
  BY <1>1 DEF Shape
<1>4. \A i \in 2..Len(chain) :
        Lua(Cut(frames'[chain[i - 1].thread], Len(CFrames(chain[i].by))))
  <2> SUFFICES ASSUME NEW i \in 2..Len(chain)
               PROVE  frames'[chain[i - 1].thread] = frames[chain[i - 1].thread]
    BY DEF Shape
  <2>1. i - 1 \in 1..Len(chain) /\ i - 1 # Len(chain) /\ Len(chain) \in 1..Len(chain)
    BY <1>1
  <2>2. chain[i - 1].thread # Running /\ chain[i - 1].thread \in Threads
    BY <1>1, <2>1, ChainIs
  <2> QED
    BY <1>2, <2>2
<1>5. \A t \in Threads : status[t] = "yielded" => Lua(frames'[t])
  BY <1>1, <1>2 DEF Shape
<1> QED
  BY <1>1, <1>2, <1>3, <1>4, <1>5 DEF Shape

(* A thread that does not run changes.                                     *)
LEMMA BystanderShape ==
  ASSUME IInv, Shape, NEW t \in Threads, status[t] # "active", NEW f \in Seq(Frame),
         NEW new, new # "yielded", status' = [status EXCEPT ![t] = new],
         frames' = [frames EXCEPT ![t] = f], chain' = chain, chain # <<>>,
         at' # "stopped", at # "stopped"
  PROVE  Shape'
<1>1. Running \in Threads /\ Running' = Running /\ Running # t /\ Len(chain) \in Nat
  BY ChainIs DEF Running, Top
<1>2. frames' \in [Threads -> Seq(Frame)] /\ \A u \in Threads : u # t => frames'[u] = frames[u]
  BY DEF Shape
<1>3. \A i \in 2..Len(chain) :
        Lua(Cut(frames'[chain[i - 1].thread], Len(CFrames(chain[i].by))))
  <2> SUFFICES ASSUME NEW i \in 2..Len(chain)
               PROVE  frames'[chain[i - 1].thread] = frames[chain[i - 1].thread]
    BY DEF Shape
  <2>1. i - 1 \in 1..Len(chain)
    BY <1>1
  <2> QED
    BY <1>2, <2>1, ChainIs
<1>4. \A u \in Threads : status'[u] = "yielded" => u # t /\ status[u] = "yielded"
  BY DEF IInv, RegistryOK
<1> QED
  BY <1>1, <1>2, <1>3, <1>4 DEF Shape

(* The first thread of a program.                                          *)
LEMMA RunFileShape ==
  ASSUME IInv, Shape, NEW t \in Threads, NEW line \in Lines, RunFile(t, line)
  PROVE  Shape'
<1> DEFINE link == [thread |-> t, by |-> "host", base |-> 0]
<1>1. chain' = <<link>> /\ at' = "hook" /\ frames' = [frames EXCEPT ![t] = <<line>>]
  BY DEF RunFile
<1>2. Running' = t /\ Len(chain') = 1
  BY <1>1 DEF Running, Top
<1>3. Lua(<<line>>)
  BY DEF Lua
<1>4. frames' \in [Threads -> Seq(Frame)] /\ frames'[t] = <<line>>
      /\ \A u \in Threads : u # t => frames'[u] = frames[u]
  BY <1>1, <1>3, LuaIs DEF Shape
<1>5. \A u \in Threads : status'[u] = "yielded" => u # t /\ status[u] = "yielded"
  BY DEF RunFile, IInv, RegistryOK
<1> QED
  BY <1>1, <1>2, <1>3, <1>4, <1>5 DEF Shape

LEMMA ResetShape == ASSUME IInv, Shape, Reset PROVE Shape'
<1>1. chain' = <<>> /\ at' = at /\ at = "exec" /\ Len(chain') = 0
  BY DEF Reset, IInv, ChainActive
<1>2. frames' \in [Threads -> Seq(Frame)]
  <2>1. <<>> \in Seq(Frame)
    OBVIOUS
  <2> QED
    BY <2>1 DEF Reset
<1>3. \A t \in Threads : status'[t] # "yielded"
  BY DEF Reset
<1> QED
  BY <1>1, <1>2, <1>3 DEF Shape

(* What Run does to the call stacks.                                       *)
LEMMA RunFrames ==
  ASSUME IInv, Shape, chain # <<>>, at = "exec", NEW t \in Threads, status[t] # "active",
         NEW by \in {"resume", "require"}, NEW line \in Lines, Run(t, by, line),
         at' = "hook"
  PROVE  /\ t # Running /\ Running' = t
         /\ frames' \in [Threads -> Seq(Frame)]
         /\ frames'[Running] = frames[Running] \o CFrames(by)
         /\ Lua(frames'[t])
         /\ \A u \in Threads : u # t /\ u # Running => frames'[u] = frames[u]
         /\ Len(chain') = Len(chain) + 1
         /\ \A i \in 1..Len(chain) : chain'[i] = chain[i]
         /\ chain'[Len(chain) + 1].by = by /\ chain'[Len(chain) + 1].thread = t
<1> DEFINE link == [thread |-> t, by |-> by,
                    base |-> Top(chain).base + (IF by = "resume" THEN 1 ELSE 0)]
<1>1. Running \in Threads /\ status[Running] = "active" /\ Len(chain) \in Nat
  BY ChainIs
<1>2. chain' = Append(chain, link) /\ Len(chain') = Len(chain) + 1
      /\ (\A i \in 1..Len(chain) : chain'[i] = chain[i]) /\ chain'[Len(chain) + 1] = link
  BY DEF Run, IInv, RegistryOK
<1>3. Running' = t
  BY <1>2 DEF Running, Top
<1>4. frames[Running] \o CFrames(by) \in Seq(Frame)
  <2>1. frames[Running] \in Seq(Frame)
    BY <1>1 DEF Shape
  <2> QED
    BY <2>1, CFramesAre
<1>5. Lua(<<line>>)
  BY DEF Lua
<1>6. Lua(IF status[t] = "yielded" THEN frames[t] ELSE <<line>>)
  BY <1>5 DEF Shape
<1>7. frames' = [u \in Threads |->
                   IF u = t THEN IF status[t] = "yielded" THEN frames[t] ELSE <<line>>
                   ELSE IF u = Running THEN frames[Running] \o CFrames(by) ELSE frames[u]]
  BY <1>1 DEF Run, Shape
<1>8. frames' \in [Threads -> Seq(Frame)]
  BY <1>4, <1>6, <1>7, LuaIs DEF Shape
<1>9. t # Running
  BY <1>1
<1> QED
  BY <1>1, <1>2, <1>3, <1>6, <1>7, <1>8, <1>9

LEMMA RunShape ==
  ASSUME IInv, Shape, chain # <<>>, at = "exec", NEW t \in Threads, status[t] # "active",
         NEW by \in {"resume", "require"}, NEW line \in Lines, Run(t, by, line),
         at' = "hook"
  PROVE  Shape'
<1> DEFINE n == Len(chain)
<1>1. /\ Running \in Threads /\ n \in Nat \ {0} /\ Running = chain[n].thread
      /\ \A i \in 1..n : chain[i].thread \in Threads
      /\ \A i \in 1..n : status[chain[i].thread] = "active"
      /\ \A i, j \in 1..n : chain[i].thread = chain[j].thread => i = j
  BY ChainIs
<1>2. /\ t # Running /\ Running' = t
      /\ frames' \in [Threads -> Seq(Frame)]
      /\ frames'[Running] = frames[Running] \o CFrames(by)
      /\ Lua(frames'[t])
      /\ \A u \in Threads : u # t /\ u # Running => frames'[u] = frames[u]
      /\ Len(chain') = n + 1
      /\ \A i \in 1..n : chain'[i] = chain[i]
      /\ chain'[n + 1].by = by
  BY RunFrames
<1>3. Lua(frames[Running]) /\ frames[Running] \in Seq(Frame)
  BY <1>1 DEF Shape
<1>4. Cut(frames'[Running], Len(CFrames(by))) = frames[Running]
  BY <1>2, <1>3, CutBack, CFramesAre
<1>5. ASSUME NEW i \in 2..(n + 1)
      PROVE  Lua(Cut(frames'[chain'[i - 1].thread], Len(CFrames(chain'[i].by))))
  <2>1. CASE i = n + 1
    <3>1. chain'[i - 1] = chain[n] /\ chain'[i].by = by
      <4>1. i - 1 = n /\ n \in 1..n
        BY <1>1, <2>1
      <4> QED
        BY <1>2, <2>1, <4>1
    <3> QED
      BY <1>1, <1>3, <1>4, <3>1
  <2>2. CASE i # n + 1
    <3>1. i \in 1..n /\ i - 1 \in 1..n /\ i - 1 # n /\ n \in 1..n /\ i \in 2..n
      <4> HIDE DEF n
      <4> QED
        BY <1>1, <2>2
    <3>2. chain'[i - 1] = chain[i - 1] /\ chain'[i] = chain[i]
      BY <1>2, <3>1
    <3>3. chain[i - 1].thread \in Threads /\ chain[i - 1].thread # Running
          /\ chain[i - 1].thread # t
      BY <1>1, <3>1
    <3>4. frames'[chain'[i - 1].thread] = frames[chain[i - 1].thread]
      BY <1>2, <3>2, <3>3
    <3> QED
      BY <3>1, <3>2, <3>4 DEF Shape
  <2> QED
    BY <2>1, <2>2
<1>6. \A u \in Threads : status'[u] = "yielded" => Lua(frames'[u])
  <2> SUFFICES ASSUME NEW u \in Threads, status'[u] = "yielded" PROVE Lua(frames'[u])
    OBVIOUS
  <2>1. status' = [status EXCEPT ![t] = "active"] /\ status \in [Threads -> {"free", "fresh", "active", "yielded", "done"}]
    BY DEF Run, IInv, RegistryOK
  <2>2. u # t /\ status[u] = "yielded" /\ status[Running] = "active"
    BY <2>1, ChainIs
  <2> QED
    BY <1>2, <2>2 DEF Shape
<1> QED
  BY <1>2, <1>5, <1>6 DEF Shape

(* What Leave does to the call stacks.                                     *)
LEMMA LeaveFrames ==
  ASSUME IInv, Shape, chain # <<>>, NEW new, NEW left \in Seq(Frame), NEW pc,
         Leave(new, left, pc)
  PROVE  /\ frames' \in [Threads -> Seq(Frame)] /\ frames'[Running] = left
         /\ \A u \in Threads : u # Running /\ (Len(chain) > 1 => u # chain[Len(chain) - 1].thread)
                                 => frames'[u] = frames[u]
         /\ Len(chain') = Len(chain) - 1
         /\ \A i \in 1..(Len(chain) - 1) : chain'[i] = chain[i]
         /\ Len(chain) > 1 =>
              /\ Running' = chain[Len(chain) - 1].thread /\ Running' \in Threads
              /\ Running' # Running /\ chain' # <<>>
              /\ frames'[Running'] = Cut(frames[Running'], Len(CFrames(Top(chain).by)))
              /\ Lua(frames'[Running'])
<1> DEFINE n == Len(chain)
           waiter == chain[n - 1].thread
<1>1. /\ Running \in Threads /\ n \in Nat \ {0} /\ Running = chain[n].thread
      /\ Top(chain) = chain[n]
      /\ \A i \in 1..n : chain[i].thread \in Threads
      /\ \A i, j \in 1..n : chain[i].thread = chain[j].thread => i = j
  BY ChainIs
<1>2. /\ Len(chain') = n - 1 /\ \A i \in 1..(n - 1) : chain'[i] = chain[i]
      /\ n > 1 => chain' # <<>> /\ Running' = waiter
  <2>1. chain' = Cut(chain, 1) /\ chain \in Seq(Link)
    BY DEF Leave, IInv, RegistryOK
  <2>2. Len(chain') = n - 1 /\ \A i \in 1..(n - 1) : chain'[i] = chain[i]
    BY <2>1, CutOne
  <2>3. n > 1 => n - 1 \in 1..(n - 1) /\ Len(chain') # 0
    <3> HIDE DEF n
    <3> QED
      BY <1>1, <2>2
  <2> QED
    BY <2>2, <2>3 DEF Running, Top
<1>3. CASE n = 1
  <2>1. frames' = [frames EXCEPT ![Running] = left]
    BY <1>3 DEF Leave
  <2>2. /\ frames' \in [Threads -> Seq(Frame)] /\ frames'[Running] = left
        /\ \A u \in Threads : u # Running => frames'[u] = frames[u]
    BY <1>1, <2>1 DEF Shape
  <2>3. ~ (n > 1)
    BY <1>3
  <2> QED
    BY <1>2, <2>2, <2>3
<1>4. CASE n # 1
  <2>1. n > 1 /\ n - 1 \in 1..n /\ n \in 1..n /\ n - 1 # n /\ n \in 2..n
    <3> HIDE DEF n
    <3> QED
      BY <1>1, <1>4
  <2>2. waiter \in Threads /\ waiter # Running
    BY <1>1, <2>1
  <2>3. Lua(Cut(frames[waiter], Len(CFrames(Top(chain).by))))
    BY <1>1, <2>1 DEF Shape
  <2> HIDE DEF waiter
  <2>4. frames' = [frames EXCEPT ![Running] = left,
                                 ![waiter] = Cut(@, Len(CFrames(Top(chain).by)))]
    BY <1>4 DEF Leave, waiter
  <2>5. frames' = [u \in Threads |->
                     IF u = waiter THEN Cut(frames[waiter], Len(CFrames(Top(chain).by)))
                     ELSE IF u = Running THEN left ELSE frames[u]]
    BY <1>1, <2>2, <2>4 DEF Shape
  <2>6. frames' \in [Threads -> Seq(Frame)]
    <3>1. Cut(frames[waiter], Len(CFrames(Top(chain).by))) \in Seq(Frame)
      BY <2>3, LuaIs
    <3> QED
      BY <2>5, <3>1 DEF Shape
  <2>7. frames'[Running] = left /\ \A u \in Threads : u # Running /\ u # waiter => frames'[u] = frames[u]
    BY <1>1, <2>2, <2>5
  <2>8. frames'[waiter] = Cut(frames[waiter], Len(CFrames(Top(chain).by)))
    BY <2>2, <2>5
  <2>9. Running' = waiter
    BY <1>2, <2>1 DEF waiter
  <2> QED
    BY <1>2, <2>1, <2>2, <2>3, <2>6, <2>7, <2>8, <2>9 DEF waiter
<1> QED
  BY <1>3, <1>4

LEMMA LeaveShape ==
  ASSUME IInv, Shape, chain # <<>>, NEW new \in {"yielded", "done"}, NEW left \in Seq(Frame),
         NEW pc \in {"hook", "unwinding"}, Leave(new, left, pc),
         new = "yielded" => Lua(left)
  PROVE  Shape'
<1> DEFINE n == Len(chain)
<1>1. /\ Running \in Threads /\ n \in Nat \ {0} /\ Running = chain[n].thread
      /\ \A i \in 1..n : chain[i].thread \in Threads
      /\ \A i \in 1..n : status[chain[i].thread] = "active"
      /\ \A i, j \in 1..n : chain[i].thread = chain[j].thread => i = j
  BY ChainIs
<1>2. /\ frames' \in [Threads -> Seq(Frame)] /\ frames'[Running] = left
      /\ \A u \in Threads : u # Running /\ (n > 1 => u # chain[n - 1].thread)
                              => frames'[u] = frames[u]
      /\ Len(chain') = n - 1
      /\ \A i \in 1..(n - 1) : chain'[i] = chain[i]
      /\ n > 1 => Lua(frames'[Running'])
  BY LeaveFrames
<1>3. chain' # <<>> => n > 1
  <2>1. chain' \in Seq(Link)
    BY LeaveKeeps DEF IInv, RegistryOK
  <2> HIDE DEF n
  <2> QED
    BY <1>1, <1>2, <2>1
<1>4. at' # "stopped"
  BY DEF Leave
<1>5. ASSUME NEW i \in 2..(n - 1)
      PROVE  Lua(Cut(frames'[chain'[i - 1].thread], Len(CFrames(chain'[i].by))))
  <2>1. /\ i \in 2..n /\ i \in 1..(n - 1) /\ i - 1 \in 1..(n - 1) /\ i - 1 \in 1..n
        /\ n - 1 \in 1..n /\ n \in 1..n /\ i - 1 # n - 1 /\ i - 1 # n
    <3> HIDE DEF n
    <3> QED
      BY <1>1
  <2>2. chain'[i - 1] = chain[i - 1] /\ chain'[i] = chain[i]
    BY <1>2, <2>1
  <2>3. /\ chain[i - 1].thread \in Threads /\ chain[i - 1].thread # Running
        /\ chain[i - 1].thread # chain[n - 1].thread
    BY <1>1, <2>1
  <2>4. frames'[chain[i - 1].thread] = frames[chain[i - 1].thread]
    BY <1>2, <2>3
  <2> QED
    BY <2>1, <2>2, <2>4 DEF Shape
<1>6. ASSUME NEW u \in Threads, status'[u] = "yielded" PROVE Lua(frames'[u])
  <2>1. /\ status' = [status EXCEPT ![Running] = new]
        /\ status \in [Threads -> {"free", "fresh", "active", "yielded", "done"}]
    BY DEF Leave, IInv, RegistryOK
  <2>2. CASE u = Running
    BY <1>1, <1>2, <1>6, <2>1, <2>2
  <2>3. CASE u # Running
    <3>1. status[u] = "yielded"
      BY <1>6, <2>1, <2>3
    <3>2. n > 1 => u # chain[n - 1].thread
      <4>1. n > 1 => n - 1 \in 1..n
        <5> HIDE DEF n
        <5> QED
          BY <1>1
      <4> QED
        BY <1>1, <3>1, <4>1
    <3> QED
      BY <1>2, <2>3, <3>1, <3>2 DEF Shape
  <2> QED
    BY <2>2, <2>3
<1> HIDE DEF n
<1> QED
  BY <1>2, <1>3, <1>4, <1>5, <1>6 DEF Shape

(* Every step keeps the shape.                                             *)
LEMMA StepShape == IInv /\ Shape /\ [Next]_vars => Shape'
<1> SUFFICES ASSUME IInv, Shape, [Next]_vars PROVE Shape'
  OBVIOUS
<1> USE DEF Executes
<1>0. chain # <<>> => Running \in Threads /\ frames[Running] \in Seq(Frame)
  BY ChainIs DEF Shape
<1>q. ASSUME UNCHANGED <<status, frames, chain>>, chain # <<>>,
             at' = "stopped" \/ at # "stopped"
      PROVE  Shape'
  <2>1. Running' = Running
    BY <1>q DEF Running, Top
  <2> QED
    BY <1>q, <2>1 DEF Shape
<1>1. ASSUME NEW t \in Threads, NEW line \in Lines, RunFile(t, line) PROVE Shape'
  BY <1>1, RunFileShape
<1>2. CASE Reset
  BY <1>2, ResetShape
<1>3. ASSUME NEW t \in Threads, NewThread(t) PROVE Shape'
  <2>1. frames' = [frames EXCEPT ![t] = frames[t]] /\ frames[t] \in Seq(Frame)
    BY <1>3 DEF NewThread, Shape
  <2> QED
    BY <1>3, <2>1, BystanderShape DEF NewThread
<1>4. ASSUME NEW t \in Threads, Collect(t) PROVE Shape'
  <2>1. <<>> \in Seq(Frame)
    OBVIOUS
  <2> QED
    BY <1>4, <2>1, BystanderShape DEF Collect
<1>5. ASSUME NEW t \in Threads, NEW line \in Lines, Resume(t, line) PROVE Shape'
  BY <1>5, RunShape DEF Resume
<1>6. ASSUME NEW t \in Threads, NEW line \in Lines, Require(t, line) PROVE Shape'
  BY <1>6, RunShape DEF Require
<1>7. CASE Yield
  <2>1. Lua(frames[Running])
    BY <1>7 DEF Yield, Shape
  <2> QED
    BY <1>0, <1>7, <2>1, LeaveShape DEF Yield
<1>e. <<>> \in Seq(Frame)
  OBVIOUS
<1>8. CASE Finish
  BY <1>e, <1>8, LeaveShape DEF Finish
<1>9. CASE Unwind
  <2>1. chain # <<>>
    BY <1>9 DEF Unwind, IInv, ChainActive
  <2> QED
    BY <1>e, <1>9, <2>1, LeaveShape DEF Unwind
<1>10. ASSUME NEW line \in Lines, NextLine(line) PROVE Shape'
  <2>1. Lua(frames[Running])
    BY <1>10 DEF NextLine, Shape
  <2>2. Cut(frames[Running], 1) \in Seq(Lines)
    BY <2>1, CutOne DEF Lua
  <2>3. Lua(Append(Cut(frames[Running], 1), line))
    BY <2>2, AppendOne DEF Lua
  <2> QED
    BY <1>10, <2>3, FrameShape, LuaIs DEF NextLine
<1>11. ASSUME NEW line \in Lines, Call(line) PROVE Shape'
  <2>1. Lua(frames[Running])
    BY <1>11 DEF Call, Shape
  <2>2. Lua(Append(frames[Running], line))
    BY <2>1 DEF Lua
  <2> QED
    BY <1>11, <2>2, FrameShape, LuaIs DEF Call
<1>12. CASE Return
  <2>1. Lua(frames[Running]) /\ Len(frames[Running]) > 1
    BY <1>12 DEF Return, Shape
  <2>2. Lua(Cut(frames[Running], 1))
    <3>1. Cut(frames[Running], 1) \in Seq(Lines) /\ Len(Cut(frames[Running], 1)) = Len(frames[Running]) - 1
          /\ Len(frames[Running]) \in Nat
      BY <2>1, CutOne DEF Lua
    <3> HIDE DEF Cut
    <3> QED
      BY <2>1, <3>1 DEF Lua
  <2> QED
    BY <1>12, <2>2, FrameShape, LuaIs DEF Return
<1>13. CASE Raise
  BY <1>13, <1>q DEF Raise, program
<1>14. CASE Catch
  <2>1. chain # <<>> /\ Lua(frames[Running])
    BY <1>14 DEF Catch, IInv, ChainActive, Shape
  <2>2. PICK k \in LuaFrames(Running) :
          frames' = [frames EXCEPT ![Running] = SubSeq(@, 1, k)]
    BY <1>14 DEF Catch
  <2>3. frames[Running] \in Seq(Lines) /\ k \in 1..Len(frames[Running])
    BY <2>1 DEF LuaFrames, Lua
  <2>4. SubSeq(frames[Running], 1, k) \in Seq(Lines) /\ Len(SubSeq(frames[Running], 1, k)) = k
    BY <2>3
  <2>5. Lua(SubSeq(frames[Running], 1, k))
    BY <2>3, <2>4 DEF Lua
  <2> QED
    BY <1>14, <2>1, <2>2, <2>5, FrameShape, LuaIs DEF Catch
<1>15. CASE Hook
  BY <1>15, <1>q DEF Hook, program, IInv, ChainActive
<1>16. CASE DebugBreak
  BY <1>16, <1>q DEF DebugBreak, program
<1>17. CASE BreakHere
  <2> DEFINE f == Append(frames[Running], CLine)
  <2>1. Lua(frames[Running]) /\ CLine \in Frame
    BY <1>17 DEF BreakHere, Shape, Frame
  <2>2. f \in Seq(Frame) /\ f # <<>> /\ Top(f) = CLine
    BY <1>0, <1>17, <2>1 DEF Top, BreakHere
  <2>3. Cut(f, 1) = frames[Running]
    <3>1. f = frames[Running] \o <<CLine>> /\ Len(<<CLine>>) = 1 /\ <<CLine>> \in Seq(Frame)
      BY <1>0, <1>17, <2>1 DEF BreakHere
    <3> QED
      BY <1>0, <1>17, <3>1, CutBack DEF BreakHere
  <2> HIDE DEF f
  <2>4. frames' = [frames EXCEPT ![Running] = f]
    BY <1>0, <1>17 DEF BreakHere, f
  <2> QED
    BY <1>17, <2>1, <2>2, <2>3, <2>4, FrameShape DEF BreakHere
<1>g. ASSUME at = "stopped", GoOn PROVE Shape'
  <2>1. chain # <<>> /\ UNCHANGED <<status, chain>>
    BY <1>g DEF GoOn, IInv, ChainActive
  <2>2. CASE Top(frames[Running]) = CLine
    <3>1. ~ Lua(frames[Running])
      BY <2>2, LuaIs
    <3>2. Lua(Cut(frames[Running], 1))
      BY <1>g, <3>1 DEF Shape
    <3> QED
      BY <1>g, <2>1, <2>2, <3>2, FrameShape, LuaIs DEF GoOn
  <2>3. CASE Top(frames[Running]) # CLine
    <3>1. Lua(frames[Running])
      BY <1>g, <2>3 DEF Shape
    <3>2. frames' = [frames EXCEPT ![Running] = frames[Running]] /\ at' = "exec"
      BY <1>g, <2>3 DEF GoOn, Shape
    <3> QED
      BY <1>g, <2>1, <2>3, <3>1, <3>2, FrameShape, LuaIs
  <2> QED
    BY <2>2, <2>3
<1>18. CASE Continue
  BY <1>18, <1>g DEF Continue
<1>19. ASSUME NEW kind, TakeStep(kind) PROVE Shape'
  BY <1>19, <1>g DEF TakeStep
<1>20. CASE UNCHANGED vars
  BY <1>20 DEF vars, program, Shape, Running, Top
<1> QED
  BY <1>1, <1>2, <1>3, <1>4, <1>5, <1>6, <1>7, <1>8, <1>9, <1>10, <1>11, <1>12, <1>13, <1>14,
     <1>15, <1>16, <1>17, <1>18, <1>19, <1>20 DEF Next, Host, Threading, Program, Debugger

-----------------------------------------------------------------------------
(* The calls of several threads.                                           *)

(* d holds the calls of the first threads of ts, for each number of them.  *)
Sums(d, f, ts) ==
  /\ d \in [0..Len(ts) -> Nat] /\ d[0] = 0
  /\ \A n \in 1..Len(ts) : d[n] = d[n - 1] + Len(f[ts[n]])

(* The recursive function of Calls exists, and counts in naturals.         *)
LEMMA CallsAre ==
  ASSUME NEW f \in [Threads -> Seq(Frame)], NEW ts \in Seq(Threads)
  PROVE  \E d : Sums(d, f, ts) /\ Calls(f, ts) = d[Len(ts)]
<1> DEFINE size == Len(ts)
           Solves(d) == d = [n \in 0..size |-> IF n = 0 THEN 0 ELSE d[n - 1] + Len(f[ts[n]])]
           step == [p \in (1..size) \X Nat |-> p[2] + Len(f[ts[p[1]]])]
<1>1. size \in Nat /\ \A n \in 1..size : ts[n] \in Threads /\ Len(f[ts[n]]) \in Nat
  <2>1. \A n \in 1..size : ts[n] \in Threads
    OBVIOUS
  <2>2. \A n \in 1..size : f[ts[n]] \in Seq(Frame)
    BY <2>1
  <2> QED
    BY <2>1, <2>2
<1>2. \A k \in 1..size : \A x \in Nat : /\ step[<<k, x>>] = x + Len(f[ts[k]])
                                       /\ step[<<k, x>>] \in Nat
  BY <1>1
<1>3. PICK e : e \in [0..size -> Nat] /\ Iterates(e, size, 0, step)
  <2> HIDE DEF step, size
  <2>1. 0 \in Nat
    OBVIOUS
  <2> QED
    BY <1>1, <1>2, <2>1, RecursiveExists
<1>4. Solves(e)
  <2> SUFFICES ASSUME NEW k \in 0..size
               PROVE  e[k] = IF k = 0 THEN 0 ELSE e[k - 1] + Len(f[ts[k]])
    BY <1>3
  <2>1. CASE k = 0
    BY <1>3, <2>1 DEF Iterates
  <2>2. CASE k # 0
    <3>1. k \in 1..size /\ k - 1 \in 0..size
      BY <1>1, <2>2
    <3>2. e[k] = step[<<k, e[k - 1]>>] /\ e[k - 1] \in Nat
      BY <1>3, <3>1 DEF Iterates
    <3> HIDE DEF step
    <3> QED
      BY <1>2, <2>2, <3>1, <3>2
  <2> QED
    BY <2>1, <2>2
<1> DEFINE d == CHOOSE v : Solves(v)
<1>5. Calls(f, ts) = d[size]
  BY DEF Calls
<1>6. Solves(d)
  <2> HIDE DEF Solves
  <2> QED
    BY <1>4
<1> HIDE DEF d
<1>7. DOMAIN d = 0..size /\ d = [n \in 0..size |-> d[n]]
  BY <1>6
<1>8. d[0] = 0
  <2>1. 0 \in 0..size
    BY <1>1
  <2> QED
    BY <1>6, <2>1
<1>9. \A n \in 1..size : d[n] = d[n - 1] + Len(f[ts[n]])
  <2>1. \A n \in 1..size : n \in 0..size /\ n # 0
    BY <1>1
  <2> QED
    BY <1>6, <2>1
<1>10. \A n \in 0..size : d[n] \in Nat
  <2> DEFINE M == {n \in Nat : n <= size => d[n] \in Nat}
  <2>1. 0 \in M
    BY <1>8
  <2>2. \A n \in Nat : n \in M => n + 1 \in M
    <3> SUFFICES ASSUME NEW n \in Nat, n \in M, n + 1 <= size PROVE d[n + 1] \in Nat
      BY <1>1
    <3>1. n + 1 \in 1..size /\ n + 1 - 1 = n /\ n <= size
      BY <1>1
    <3>2. d[n + 1] = d[n] + Len(f[ts[n + 1]])
      BY <1>9, <3>1
    <3> QED
      BY <1>1, <3>1, <3>2
  <2>3. Nat \subseteq M
    <3> HIDE DEF M
    <3> QED
      BY <2>1, <2>2, Induct
  <2> QED
    BY <1>1, <2>3
<1>11. d \in [0..size -> Nat]
  BY <1>7, <1>10
<1> QED
  BY <1>5, <1>8, <1>9, <1>11 DEF Sums

(* Only the lengths of the call stacks count.                              *)
LEMMA CallsSame ==
  ASSUME NEW f \in [Threads -> Seq(Frame)], NEW ts \in Seq(Threads),
         NEW g \in [Threads -> Seq(Frame)], NEW us \in Seq(Threads),
         Len(ts) = Len(us), \A n \in 1..Len(ts) : Len(f[ts[n]]) = Len(g[us[n]])
  PROVE  Calls(f, ts) = Calls(g, us)
<1> DEFINE size == Len(ts)
<1>0. size \in Nat
  OBVIOUS
<1>1. PICK d : Sums(d, f, ts) /\ Calls(f, ts) = d[Len(ts)]
  BY CallsAre
<1>2. PICK e : Sums(e, g, us) /\ Calls(g, us) = e[Len(us)]
  BY CallsAre
<1>3. d[0] = e[0] /\ \A n \in 1..size : /\ d[n] = d[n - 1] + Len(f[ts[n]])
                                        /\ e[n] = e[n - 1] + Len(f[ts[n]])
  BY <1>1, <1>2 DEF Sums
<1> DEFINE M == {n \in Nat : n <= size => d[n] = e[n]}
<1>4. 0 \in M
  BY <1>3
<1>5. \A n \in Nat : n \in M => n + 1 \in M
  <2> SUFFICES ASSUME NEW n \in Nat, n \in M, n + 1 <= size PROVE d[n + 1] = e[n + 1]
    BY <1>0
  <2>1. n + 1 \in 1..size /\ n + 1 - 1 = n /\ n <= size
    BY <1>0
  <2> QED
    BY <1>3, <2>1
<1>6. size \in M
  <2> HIDE DEF M
  <2> QED
    BY <1>0, <1>4, <1>5, Induct
<1> QED
  BY <1>0, <1>1, <1>2, <1>6

(* The first thread's calls and those of the rest.                         *)
LEMMA CallsOfFirst ==
  ASSUME NEW f \in [Threads -> Seq(Frame)], NEW ts \in Seq(Threads), NEW us \in Seq(Threads),
         Len(ts) = Len(us) + 1, \A n \in 1..Len(us) : ts[n + 1] = us[n]
  PROVE  /\ Calls(f, us) \in Nat /\ Calls(f, ts) \in Nat
         /\ Calls(f, ts) = Len(f[ts[1]]) + Calls(f, us)
<1> DEFINE size == Len(us)
<1>0. size \in Nat /\ Len(ts) = size + 1
  OBVIOUS
<1>1. PICK d : Sums(d, f, ts) /\ Calls(f, ts) = d[Len(ts)]
  BY CallsAre
<1>2. PICK e : Sums(e, f, us) /\ Calls(f, us) = e[Len(us)]
  BY CallsAre
<1>3. \A n \in 1..(size + 1) : ts[n] \in Threads /\ Len(f[ts[n]]) \in Nat
  <2>1. \A n \in 1..(size + 1) : ts[n] \in Threads
    BY <1>0
  <2>2. \A n \in 1..(size + 1) : f[ts[n]] \in Seq(Frame)
    BY <2>1
  <2> QED
    BY <2>1, <2>2
<1>4. /\ d[0] = 0 /\ e[0] = 0
      /\ \A n \in 1..(size + 1) : d[n] = d[n - 1] + Len(f[ts[n]])
      /\ \A n \in 1..size : e[n] = e[n - 1] + Len(f[us[n]])
      /\ \A n \in 0..size : e[n] \in Nat
      /\ \A n \in 0..(size + 1) : d[n] \in Nat
  BY <1>0, <1>1, <1>2 DEF Sums
<1> DEFINE M == {n \in Nat : n <= size => d[n + 1] = Len(f[ts[1]]) + e[n]}
<1>5. 0 \in M
  <2>1. 0 + 1 \in 1..(size + 1) /\ 0 + 1 - 1 = 0 /\ 0 + 1 = 1
    BY <1>0
  <2>2. d[0 + 1] = d[0] + Len(f[ts[1]])
    BY <1>4, <2>1
  <2>3. d[0 + 1] = Len(f[ts[1]]) + e[0]
    BY <1>3, <1>4, <2>1, <2>2
  <2> QED
    BY <2>3
<1>6. \A n \in Nat : n \in M => n + 1 \in M
  <2> SUFFICES ASSUME NEW n \in Nat, n \in M, n + 1 <= size
               PROVE  d[n + 1 + 1] = Len(f[ts[1]]) + e[n + 1]
    BY <1>0
  <2>1. n + 1 \in 1..size /\ n + 1 - 1 = n /\ n <= size /\ n \in 0..size
        /\ n + 1 + 1 \in 1..(size + 1) /\ n + 1 + 1 - 1 = n + 1 /\ 1 \in 1..(size + 1)
    BY <1>0
  <2>2. d[n + 1 + 1] = d[n + 1] + Len(f[ts[n + 1 + 1]])
    BY <1>4, <2>1
  <2>3. e[n + 1] = e[n] + Len(f[us[n + 1]]) /\ e[n] \in Nat
    BY <1>4, <2>1
  <2>4. ts[n + 1 + 1] = us[n + 1] /\ Len(f[ts[n + 1 + 1]]) \in Nat /\ Len(f[ts[1]]) \in Nat
    BY <1>3, <2>1
  <2>5. d[n + 1] = Len(f[ts[1]]) + e[n]
    BY <2>1
  <2> HIDE DEF size
  <2> QED
    BY <2>2, <2>3, <2>4, <2>5
<1>7. size \in M
  <2> HIDE DEF M
  <2> QED
    BY <1>0, <1>5, <1>6, Induct
<1> QED
  BY <1>0, <1>1, <1>2, <1>4, <1>7

(* The resumers below a base, and those below the next.                    *)
LEMMA BelowIs ==
  ASSUME NEW stack \in Seq(Threads), NEW f \in [Threads -> Seq(Frame)], NEW b \in 0..Len(stack)
  PROVE  /\ Below(stack, b) \in Seq(Threads) /\ Len(Below(stack, b)) = b
         /\ \A k \in 1..b : Below(stack, b)[k] = stack[b + 1 - k]
         /\ Calls(f, Below(stack, b)) \in Nat
         /\ b # 0 => Calls(f, Below(stack, b)) = Len(f[stack[b]]) + Calls(f, Below(stack, b - 1))
<1>1. b \in Nat /\ Len(stack) \in Nat
  OBVIOUS
<1>2. ASSUME NEW c \in 0..Len(stack)
      PROVE  /\ Below(stack, c) \in Seq(Threads) /\ Len(Below(stack, c)) = c
             /\ \A k \in 1..c : Below(stack, c)[k] = stack[c + 1 - k]
  <2>1. \A k \in 1..c : c + 1 - k \in 1..Len(stack)
    BY <1>1
  <2>2. \A k \in 1..c : stack[c + 1 - k] \in Threads
    BY <2>1
  <2>3. Below(stack, c) \in [1..c -> Threads]
    BY <2>2 DEF Below
  <2> QED
    BY <2>3 DEF Below
<1>3. PICK d : Sums(d, f, Below(stack, b)) /\ Calls(f, Below(stack, b)) = d[Len(Below(stack, b))]
  BY <1>2, CallsAre
<1>4. Calls(f, Below(stack, b)) \in Nat
  BY <1>2, <1>3 DEF Sums
<1>5. ASSUME b # 0
      PROVE  Calls(f, Below(stack, b)) = Len(f[stack[b]]) + Calls(f, Below(stack, b - 1))
  <2>1. b - 1 \in 0..Len(stack) /\ b - 1 + 1 = b /\ 1 \in 1..b /\ b + 1 - 1 = b
    BY <1>1, <1>5
  <2>2. \A k \in 1..(b - 1) : Below(stack, b)[k + 1] = Below(stack, b - 1)[k]
    <3> SUFFICES ASSUME NEW k \in 1..(b - 1) PROVE Below(stack, b)[k + 1] = Below(stack, b - 1)[k]
      OBVIOUS
    <3>1. k + 1 \in 1..b /\ b + 1 - (k + 1) = b - k /\ b - 1 + 1 - k = b - k
      BY <1>1
    <3>2. Below(stack, b)[k + 1] = stack[b + 1 - (k + 1)]
      BY <1>2, <3>1
    <3>3. Below(stack, b - 1)[k] = stack[b - 1 + 1 - k]
      BY <1>2, <2>1
    <3> QED
      BY <3>1, <3>2, <3>3
  <2>3. Below(stack, b)[1] = stack[b]
    <3>1. Below(stack, b)[1] = stack[b + 1 - 1]
      BY <1>2, <2>1
    <3> QED
      BY <2>1, <3>1
  <2>4. /\ Below(stack, b) \in Seq(Threads) /\ Below(stack, b - 1) \in Seq(Threads)
        /\ Len(Below(stack, b)) = b /\ Len(Below(stack, b - 1)) = b - 1
    BY <1>2, <2>1
  <2>5. Len(Below(stack, b)) = Len(Below(stack, b - 1)) + 1
    BY <1>1, <2>4
  <2>6. Calls(f, Below(stack, b)) = Len(f[Below(stack, b)[1]]) + Calls(f, Below(stack, b - 1))
    BY <2>2, <2>4, <2>5, CallsOfFirst
  <2> QED
    BY <2>3, <2>6
<1> QED
  BY <1>2, <1>4, <1>5

(* The depth of a thread that is not on the stack, as the one that runs.   *)
LEMMA DepthIs ==
  ASSUME StackOK, frames \in [Threads -> Seq(Frame)], NEW L \in Threads, Positions(L) = {}
  PROVE  /\ GetStackDepth(L) \in Nat
         /\ GetStackDepth(L) = Len(frames[L]) + Calls(frames, Below(thread_stack_, Len(thread_stack_)))
<1> DEFINE b == Len(thread_stack_)
<1>1. b \in Nat /\ Height(L) = b /\ b \in 0..b /\ thread_stack_ \in Seq(Threads)
  BY DEF StackOK, Height
<1>2. /\ GetAncestors(L) = Line(L, b) /\ Line(L, b) \in Seq(Threads)
      /\ Len(Line(L, b)) = b + 1
  <2>1. b \in 0..Height(L)
    BY <1>1
  <2> QED
    BY <1>1, <2>1, AncestorsAre, TurnIs
<1>3. Below(thread_stack_, b) \in Seq(Threads) /\ Len(Below(thread_stack_, b)) = b
      /\ \A k \in 1..b : Below(thread_stack_, b)[k] = thread_stack_[b + 1 - k]
  BY <1>1, BelowIs
<1>4. Line(L, b)[1] = L
  BY <1>1 DEF Line
<1>5. \A k \in 1..b : Line(L, b)[k + 1] = Below(thread_stack_, b)[k]
  <2> SUFFICES ASSUME NEW k \in 1..b PROVE Line(L, b)[k + 1] = Below(thread_stack_, b)[k]
    OBVIOUS
  <2>1. k + 1 \in 1..(b + 1) /\ k + 1 # 1 /\ b + 2 - (k + 1) = b + 1 - k
    <3> HIDE DEF b
    <3> QED
      BY <1>1
  <2> QED
    BY <1>1, <1>3, <2>1 DEF Line
<1> HIDE DEF b
<1>6. /\ Calls(frames, Line(L, b)) \in Nat
      /\ Calls(frames, Line(L, b)) = Len(frames[L]) + Calls(frames, Below(thread_stack_, b))
  BY <1>2, <1>3, <1>4, <1>5, CallsOfFirst
<1> QED
  BY <1>2, <1>6 DEF GetStackDepth, b

(* Of the thread that runs: its own calls and those of all resumers.       *)
DepthSums ==
  chain # <<>> =>
    /\ GetStackDepth(Running) \in Nat
    /\ GetStackDepth(Running)
         = Len(frames[Running]) + Calls(frames, Below(thread_stack_, chain[Len(chain)].base))

LEMMA DepthOfRunning == IInv /\ Shape => DepthSums
<1> SUFFICES ASSUME IInv, Shape, chain # <<>>
             PROVE  /\ GetStackDepth(Running) \in Nat
                    /\ GetStackDepth(Running)
                         = Len(frames[Running]) + Calls(frames, Below(thread_stack_, chain[Len(chain)].base))
  BY DEF DepthSums
<1>1. StackOK /\ Positions(Running) = {}
  BY AllWait DEF ResumersWait, StackOK, IInv, RegistryOK
<1> QED
  BY <1>1, ChainIs, DepthIs DEF Shape

-----------------------------------------------------------------------------
(* The types.                                                              *)

StepperOK ==
  /\ debugstep \in BOOLEAN
  /\ single_step_processor_ \in Step \cup {NoStep}
  /\ home \in Nat /\ strayed \in BOOLEAN /\ outside \in BOOLEAN

LEMMA ContextIs ==
  ASSUME IInv, Shape, at = "stopped"
  PROVE  /\ Running \in Threads /\ chain # <<>>
         /\ GetBreakContext(Running) \in Context
         /\ Len(frames[Running]) \in Nat
<1>1. chain # <<>> /\ Running \in Threads
  BY ChainIs DEF IInv, ChainActive
<1>2. frames[Running] \in Seq(Frame) /\ frames[Running] # <<>>
  BY <1>1 DEF Shape, Lua
<1>3. Top(frames[Running]) \in Frame /\ Len(frames[Running]) \in Nat
  BY <1>2 DEF Top
<1>4. GetStackDepth(Running) \in Nat
  BY <1>1, DepthOfRunning DEF DepthSums
<1> QED
  BY <1>1, <1>3, <1>4 DEF GetBreakContext, Context, Frame

LEMMA StepTypes == IInv /\ Shape /\ StepperOK /\ [Next]_vars => StepperOK'
<1> SUFFICES ASSUME IInv, Shape, StepperOK, [Next]_vars PROVE StepperOK'
  OBVIOUS
<1> USE DEF StepperOK
<1>q. ASSUME UNCHANGED <<stepper, history>> PROVE StepperOK'
  BY <1>q DEF stepper, history
<1>l. ASSUME NEW new, NEW left, NEW pc, Leave(new, left, pc) PROVE StepperOK'
  BY <1>l DEF Leave, stepper
<1>1. CASE Host
  <2>1. CASE Reset
    BY <2>1 DEF Reset, history
  <2> QED
    BY <1>1, <1>q, <2>1 DEF Host, RunFile
<1>2. CASE Threading
  <2>1. ASSUME NEW t \in Threads, NEW line \in Lines, Require(t, line) PROVE StepperOK'
    BY <2>1 DEF Require, stepper
  <2> QED
    BY <1>2, <1>q, <1>l, <2>1 DEF Threading, NewThread, Collect, Resume, Yield, Finish
<1>3. CASE Program
  BY <1>3, <1>q, <1>l DEF Program, NextLine, Call, Return, Raise, Catch, Unwind
<1>4. CASE Debugger
  <2>1. CASE Continue
    BY <2>1 DEF Continue
  <2>2. ASSUME NEW kind \in {"in", "out", "over"}, TakeStep(kind) PROVE StepperOK'
    <3>1. [kind |-> kind, old_ctx |-> GetBreakContext(Running)] \in Step
      BY <2>2, ContextIs DEF TakeStep, Step
    <3>2. outside' \in BOOLEAN
      BY <2>2 DEF TakeStep
    <3> QED
      BY <2>2, <3>1, <3>2, ContextIs DEF TakeStep
  <2> QED
    BY <1>4, <1>q, <2>1, <2>2 DEF Debugger, Hook, DebugBreak, BreakHere
<1>5. CASE UNCHANGED vars
  BY <1>5, <1>q DEF vars
<1> QED
  BY <1>1, <1>2, <1>3, <1>4, <1>5 DEF Next

(* What holds of everything but the depths.                                *)
Typed == IInv /\ Shape /\ StepperOK

LEMMA InitTyped == Init => Typed
<1>1. Init => single_step_processor_ \in Step \cup {NoStep}
  BY DEF Init
<1>2. Init => debugstep \in BOOLEAN /\ strayed \in BOOLEAN /\ outside \in BOOLEAN
  BY DEF Init
<1>3. Init => home \in Nat
  BY DEF Init
<1>4. Init => StepperOK
  BY <1>1, <1>2, <1>3 DEF StepperOK
<1> QED
  BY <1>4, InitKeeps, InitShape DEF Typed

LEMMA AlwaysTyped == Spec => []Typed
<1>2. Typed /\ [Next]_vars => Typed'
  BY StepKeeps, StepShape, StepTypes DEF Typed
<1> QED
  BY InitTyped, <1>2, PTL DEF Spec

(* Every variable has its type: a stopped thread has a line, and a step    *)
(* the depth of a stack.                                                   *)
THEOREM Types == Spec => []TypeOK
<1>1. Typed => TypeOK
  BY DEF Typed, IInv, Shape, StepperOK, TypeOK, Frame
<1> QED
  BY <1>1, AlwaysTyped, PTL

-----------------------------------------------------------------------------
(* The depth that a step remembers.                                        *)

(* While the thread where the step began waits or runs, what is below it   *)
(* has as many calls as then: old_ctx.depth_ is home and those.            *)
HasPlace ==
  single_step_processor_ # NoStep /\ ~strayed =>
    \E i \in DOMAIN chain : /\ chain[i].thread = Origin.L
                            /\ Origin.depth = home + Calls(frames, Below(thread_stack_, chain[i].base))

(* A later link has no fewer resumers below it, and one that was resumed   *)
(* has more.                                                               *)
LEMMA BasesRise ==
  ASSUME IInv
  PROVE  \A i, j \in DOMAIN chain : i <= j => chain[i].base <= chain[j].base
<1> DEFINE n == Len(chain)
           M == {m \in Nat : \A i \in 1..n : i + m <= n => chain[i].base <= chain[i + m].base}
<1>1. n \in Nat /\ DOMAIN chain = 1..n /\ \A i \in 1..n : chain[i].base \in Nat
  BY ChainIs
<1>2. 0 \in M
  BY <1>1
<1>3. \A m \in Nat : m \in M => m + 1 \in M
  <2> SUFFICES ASSUME NEW m \in Nat, m \in M PROVE m + 1 \in M
    OBVIOUS
  <2> SUFFICES ASSUME NEW i \in 1..n, i + (m + 1) <= n
               PROVE  chain[i].base <= chain[i + (m + 1)].base
    <3>1. m + 1 \in Nat
      OBVIOUS
    <3> QED
      BY <3>1
  <2>1. i + m <= n /\ i + (m + 1) \in 2..n /\ i + (m + 1) - 1 = i + m /\ i + m \in 1..n
        /\ i + (m + 1) \in 1..n
    <3> HIDE DEF n, M
    <3> QED
      BY <1>1
  <2>2. chain[i + (m + 1)].base
          = chain[i + m].base + (IF chain[i + (m + 1)].by = "resume" THEN 1 ELSE 0)
    BY <2>1 DEF IInv, Bases
  <2>3. chain[i].base <= chain[i + m].base
    BY <2>1
  <2> HIDE DEF n, M
  <2> QED
    BY <1>1, <2>1, <2>2, <2>3
<1>4. Nat \subseteq M
  <2> HIDE DEF M
  <2> QED
    BY <1>2, <1>3, Induct
<1>5. ASSUME NEW i \in 1..n, NEW j \in 1..n, i <= j PROVE chain[i].base <= chain[j].base
  <2>1. j - i \in Nat /\ i + (j - i) = j
    BY <1>1, <1>5
  <2>2. j - i \in M
    BY <1>4, <2>1
  <2> QED
    BY <1>1, <2>1, <2>2
<1> QED
  BY <1>1, <1>5

(* What is on the stack below a link waits in a link before it.            *)
LEMMA WaitsBefore ==
  ASSUME IInv, NEW i \in DOMAIN chain, NEW k \in 1..chain[i].base
  PROVE  /\ k \in DOMAIN thread_stack_
         /\ \E j \in 1..(i - 1) : j \in DOMAIN chain /\ thread_stack_[k] = chain[j].thread
<1> DEFINE n == Len(chain)
<1>1. /\ n \in Nat /\ DOMAIN chain = 1..n /\ \A j \in 1..n : chain[j].base \in Nat
      /\ n > 0 /\ Len(thread_stack_) = chain[n].base
  <2>1. chain # <<>>
    BY ChainIs
  <2> QED
    BY <2>1, ChainIs
<1>2. chain[i].base <= chain[n].base
  BY <1>1, BasesRise
<1>3. k \in DOMAIN thread_stack_
  <2>1. k \in 1..Len(thread_stack_)
    <3> HIDE DEF n
    <3> QED
      BY <1>1, <1>2
  <2> QED
    BY <2>1 DEF IInv, RegistryOK
<1>4. PICK m \in 2..n : /\ chain[m].by = "resume" /\ chain[m].base = k
                        /\ thread_stack_[k] = chain[m - 1].thread
                        /\ m - 1 \in DOMAIN chain
  BY <1>3, WaitsBelow
<1>5. m <= i
  <2> SUFFICES ASSUME m > i PROVE FALSE
    BY <1>1
  <2>1. chain[m].base = chain[m - 1].base + 1
    BY <1>4 DEF IInv, Bases
  <2>2. chain[i].base <= chain[m - 1].base
    BY <1>1, <1>4, BasesRise
  <2> HIDE DEF n
  <2> QED
    BY <1>1, <1>4, <2>1, <2>2
<1> QED
  BY <1>1, <1>3, <1>4, <1>5

(* The calls below a link change only with the threads before it.          *)
LEMMA BelowKept ==
  ASSUME IInv, IInv', Shape, Shape', NEW i \in DOMAIN chain,
         i \in DOMAIN chain', chain'[i] = chain[i],
         \A k \in 1..chain[i].base : thread_stack_'[k] = thread_stack_[k],
         \A j \in 1..(i - 1) : frames'[chain[j].thread] = frames[chain[j].thread]
  PROVE  Calls(frames', Below(thread_stack_', chain'[i].base)) = Calls(frames, Below(thread_stack_, chain[i].base))
<1> DEFINE b == chain[i].base
<1>1. b \in Nat /\ i \in Nat
  BY ChainIs
<1>2. \A k \in 1..b : /\ k \in DOMAIN thread_stack_
                      /\ \E j \in 1..(i - 1) : thread_stack_[k] = chain[j].thread
  BY WaitsBefore
<1>3. ASSUME NEW k \in 1..b
      PROVE  /\ b + 1 - k \in 1..b
             /\ thread_stack_'[b + 1 - k] = thread_stack_[b + 1 - k]
             /\ frames'[thread_stack_[b + 1 - k]] = frames[thread_stack_[b + 1 - k]]
  <2>1. b + 1 - k \in 1..b
    <3> HIDE DEF b
    <3> QED
      BY <1>1
  <2> QED
    BY <1>2, <2>1
<1>4. Below(thread_stack_', chain'[i].base) = Below(thread_stack_, b)
  BY <1>3 DEF Below
<1>5. b \in 0..Len(thread_stack_) /\ thread_stack_ \in Seq(Threads)
  <2>1. /\ Len(thread_stack_) \in Nat /\ DOMAIN thread_stack_ = 1..Len(thread_stack_)
        /\ thread_stack_ \in Seq(Threads)
    BY DEF IInv, RegistryOK
  <2>2. b # 0 => b \in 1..b
    <3> HIDE DEF b
    <3> QED
      BY <1>1
  <2>3. b # 0 => b \in 1..Len(thread_stack_)
    BY <1>2, <2>1, <2>2
  <2> HIDE DEF b
  <2> QED
    BY <1>1, <2>1, <2>3
<1> HIDE DEF b
<1>6. /\ Below(thread_stack_, b) \in Seq(Threads) /\ Len(Below(thread_stack_, b)) = b
      /\ \A k \in 1..b : Below(thread_stack_, b)[k] = thread_stack_[b + 1 - k]
  BY <1>5, BelowIs DEF Shape
<1> DEFINE ts == Below(thread_stack_, b)
<1>7. \A k \in 1..Len(ts) : Len(frames[ts[k]]) = Len(frames'[ts[k]])
  <2> SUFFICES ASSUME NEW k \in 1..b PROVE frames[ts[k]] = frames'[ts[k]]
    BY <1>6
  <2>1. ts[k] = thread_stack_[b + 1 - k]
    BY <1>6
  <2> HIDE DEF ts
  <2> QED
    BY <1>3, <2>1 DEF b
<1>8. frames \in [Threads -> Seq(Frame)] /\ frames' \in [Threads -> Seq(Frame)]
  BY DEF Shape
<1>9. Calls(frames, ts) = Calls(frames', ts)
  <2>1. ts \in Seq(Threads)
    BY <1>6
  <2> HIDE DEF ts
  <2> QED
    BY <1>7, <1>8, <2>1, CallsSame
<1> QED
  BY <1>4, <1>9 DEF b

(* What the two steps that change the chain leave alone.                   *)
LEMMA RunStack ==
  ASSUME IInv, chain # <<>>, NEW by,
         IF by = "resume" THEN PushStack(Running) ELSE UNCHANGED thread_stack_
  PROVE  \A i \in DOMAIN chain : \A k \in 1..chain[i].base : thread_stack_'[k] = thread_stack_[k]
<1> SUFFICES ASSUME NEW i \in DOMAIN chain, NEW k \in 1..chain[i].base
             PROVE  thread_stack_'[k] = thread_stack_[k]
  OBVIOUS
<1>1. k \in 1..Len(thread_stack_) /\ thread_stack_ \in Seq(Threads) /\ Running \in Threads
  BY WaitsBefore, ChainIs DEF IInv, RegistryOK
<1>2. CASE by = "resume"
  <2>1. thread_stack_' = Append(thread_stack_, Running)
    BY <1>2 DEF PushStack
  <2> QED
    BY <1>1, <2>1, AppendOne
<1>3. CASE by # "resume"
  BY <1>3
<1> QED
  BY <1>2, <1>3

LEMMA LeaveStack ==
  ASSUME IInv, IInv', chain # <<>>, NEW new, NEW left, NEW pc, Leave(new, left, pc)
  PROVE  \A i \in 1..(Len(chain) - 1) :
           \A k \in 1..chain[i].base : thread_stack_'[k] = thread_stack_[k]
<1> DEFINE n == Len(chain)
           m == Len(thread_stack_)
<1>1. n \in Nat \ {0} /\ m \in Nat /\ Top(chain) = chain[n] /\ DOMAIN chain = 1..n /\ m = chain[n].base
      /\ thread_stack_ \in Seq(Threads)
  BY ChainIs DEF IInv, RegistryOK
<1> SUFFICES ASSUME NEW i \in 1..(n - 1), NEW k \in 1..chain[i].base
             PROVE  thread_stack_'[k] = thread_stack_[k]
  OBVIOUS
<1>2. i \in 1..n /\ n - 1 \in 1..n /\ n \in 2..n /\ i <= n - 1
  <2> HIDE DEF n
  <2> QED
    BY <1>1
<1>3. k \in 1..m
  BY <1>1, <1>2, WaitsBefore
<1>4. CASE Top(chain).by = "resume"
  <2>1. thread_stack_' = Cut(thread_stack_, 1)
    BY <1>4 DEF Leave, PopResumer, PopStack
  <2>2. m = chain[n - 1].base + 1
    BY <1>1, <1>2, <1>4 DEF IInv, Bases
  <2>3. chain[i].base <= chain[n - 1].base /\ chain[i].base \in Nat /\ chain[n - 1].base \in Nat
    BY <1>1, <1>2, BasesRise, ChainIs
  <2>4. k \in 1..(m - 1)
    <3> HIDE DEF n, m
    <3> QED
      BY <1>1, <2>2, <2>3
  <2> HIDE DEF n
  <2> QED
    BY <1>1, <1>3, <2>1, <2>4, CutOne
<1>5. CASE Top(chain).by # "resume"
  BY <1>5 DEF Leave, PopResumer
<1> QED
  BY <1>4, <1>5

(* A step that leaves the chain, the stack and the step alone, and no call *)
(* stack but that of the thread that runs, or of one not in the chain.     *)
LEMMA QuietPlace ==
  ASSUME IInv, IInv', Shape, Shape', StepperOK, HasPlace,
         UNCHANGED <<chain, thread_stack_, single_step_processor_, home, strayed>>,
         \A j \in 1..(Len(chain) - 1) : frames'[chain[j].thread] = frames[chain[j].thread]
  PROVE  HasPlace'
<1> SUFFICES ASSUME single_step_processor_ # NoStep, ~strayed
             PROVE  \E i \in DOMAIN chain' :
                      /\ chain'[i].thread = Origin'.L
                      /\ Origin'.depth = home' + Calls(frames', Below(thread_stack_', chain'[i].base))
  BY DEF HasPlace
<1>1. PICK i \in DOMAIN chain :
        /\ chain[i].thread = Origin.L
        /\ Origin.depth = home + Calls(frames, Below(thread_stack_, chain[i].base))
  BY DEF HasPlace
<1>2. \A j \in 1..(i - 1) : j \in 1..(Len(chain) - 1)
  <2>1. i \in 1..Len(chain) /\ Len(chain) \in Nat
    BY ChainIs
  <2> QED
    BY <2>1
<1>3. Calls(frames', Below(thread_stack_', chain'[i].base)) = Calls(frames, Below(thread_stack_, chain[i].base))
  BY <1>2, BelowKept
<1> QED
  BY <1>1, <1>3 DEF Origin

(* The link where the step began stays where it was.                       *)
LEMMA LinkPlace ==
  ASSUME IInv, IInv', Shape, Shape', StepperOK, UNCHANGED <<single_step_processor_, home>>,
         NEW i \in DOMAIN chain, i \in DOMAIN chain', chain'[i] = chain[i],
         chain[i].thread = Origin.L,
         Origin.depth = home + Calls(frames, Below(thread_stack_, chain[i].base)),
         \A k \in 1..chain[i].base : thread_stack_'[k] = thread_stack_[k],
         \A j \in 1..(i - 1) : frames'[chain[j].thread] = frames[chain[j].thread]
  PROVE  HasPlace'
<1>1. Calls(frames', Below(thread_stack_', chain'[i].base)) = Calls(frames, Below(thread_stack_, chain[i].base))
  BY BelowKept
<1>2. /\ chain'[i].thread = Origin'.L
      /\ Origin'.depth = home' + Calls(frames', Below(thread_stack_', chain'[i].base))
  BY <1>1 DEF Origin
<1> QED
  BY <1>2 DEF HasPlace

LEMMA RunPlace ==
  ASSUME IInv, IInv', Shape, Shape', StepperOK, HasPlace,
         chain # <<>>, at = "exec", NEW t \in Threads, status[t] # "active",
         NEW by \in {"resume", "require"}, NEW line \in Lines, Run(t, by, line), at' = "hook",
         IF by = "resume" THEN PushStack(Running) ELSE UNCHANGED thread_stack_,
         UNCHANGED <<single_step_processor_, home, strayed>>
  PROVE  HasPlace'
<1> SUFFICES ASSUME single_step_processor_ # NoStep, ~strayed PROVE HasPlace'
  BY DEF HasPlace
<1>1. PICK i \in DOMAIN chain :
        /\ chain[i].thread = Origin.L
        /\ Origin.depth = home + Calls(frames, Below(thread_stack_, chain[i].base))
  BY DEF HasPlace
<1>2. /\ t # Running /\ Len(chain) \in Nat
      /\ \A u \in Threads : u # t /\ u # Running => frames'[u] = frames[u]
      /\ Len(chain') = Len(chain) + 1
      /\ \A j \in 1..Len(chain) : chain'[j] = chain[j]
  BY RunFrames, ChainIs
<1>3. i \in 1..Len(chain) /\ i \in DOMAIN chain' /\ chain'[i] = chain[i]
  <2>1. i \in 1..Len(chain)
    BY ChainIs
  <2>2. i \in 1..Len(chain') /\ DOMAIN chain' = 1..Len(chain')
    BY <1>2, <2>1 DEF IInv, RegistryOK
  <2> QED
    BY <1>2, <2>1, <2>2
<1>4. \A j \in 1..(i - 1) : frames'[chain[j].thread] = frames[chain[j].thread]
  <2> SUFFICES ASSUME NEW j \in 1..(i - 1) PROVE frames'[chain[j].thread] = frames[chain[j].thread]
    OBVIOUS
  <2>1. j \in 1..Len(chain) /\ j # Len(chain) /\ Len(chain) \in 1..Len(chain)
    BY <1>2, <1>3
  <2>2. /\ chain[j].thread \in Threads /\ chain[j].thread # Running
        /\ status[chain[j].thread] = "active"
    BY <2>1, ChainIs
  <2> QED
    BY <1>2, <2>2
<1>5. \A k \in 1..chain[i].base : thread_stack_'[k] = thread_stack_[k]
  BY RunStack
<1> QED
  BY <1>1, <1>3, <1>4, <1>5, LinkPlace

LEMMA LeavePlace ==
  ASSUME IInv, IInv', Shape, Shape', StepperOK, HasPlace, chain # <<>>,
         NEW new, NEW left \in Seq(Frame), NEW pc, Leave(new, left, pc)
  PROVE  HasPlace'
<1>0. UNCHANGED <<single_step_processor_, home>>
      /\ (strayed' <=> strayed \/ (/\ single_step_processor_ # NoStep /\ Origin.L = Running))
  BY DEF Leave, stepper, Origin
<1> SUFFICES ASSUME single_step_processor_ # NoStep, ~strayed, Origin.L # Running PROVE HasPlace'
  BY <1>0 DEF HasPlace
<1>1. PICK i \in DOMAIN chain :
        /\ chain[i].thread = Origin.L
        /\ Origin.depth = home + Calls(frames, Below(thread_stack_, chain[i].base))
  BY DEF HasPlace
<1> DEFINE n == Len(chain)
<1>2. /\ \A u \in Threads : u # Running /\ (n > 1 => u # chain[n - 1].thread) => frames'[u] = frames[u]
      /\ Len(chain') = n - 1
      /\ \A j \in 1..(n - 1) : chain'[j] = chain[j]
  BY LeaveFrames
<1>3. /\ n \in Nat /\ n > 0 /\ Running = chain[n].thread
      /\ \A j \in 1..n : chain[j].thread \in Threads
      /\ \A j, k \in 1..n : chain[j].thread = chain[k].thread => j = k
      /\ i \in 1..n
  BY ChainIs
<1>4. i \in 1..(n - 1) /\ i \in DOMAIN chain' /\ chain'[i] = chain[i]
  <2>1. i # n
    BY <1>1, <1>3
  <2>2. i \in 1..(n - 1)
    <3> HIDE DEF n
    <3> QED
      BY <1>3, <2>1
  <2>3. DOMAIN chain' = 1..Len(chain')
    BY DEF IInv, RegistryOK
  <2> QED
    BY <1>2, <2>2, <2>3
<1>5. \A j \in 1..(i - 1) : frames'[chain[j].thread] = frames[chain[j].thread]
  <2> SUFFICES ASSUME NEW j \in 1..(i - 1) PROVE frames'[chain[j].thread] = frames[chain[j].thread]
    OBVIOUS
  <2>1. j \in 1..n /\ j # n /\ j # n - 1 /\ n \in 1..n /\ n - 1 \in 1..n
    <3> HIDE DEF n
    <3> QED
      BY <1>3, <1>4
  <2>2. /\ chain[j].thread \in Threads /\ chain[j].thread # Running
        /\ chain[j].thread # chain[n - 1].thread
    BY <1>3, <2>1
  <2> QED
    BY <1>2, <2>2
<1>6. \A k \in 1..chain[i].base : thread_stack_'[k] = thread_stack_[k]
  BY <1>4, LeaveStack
<1> QED
  BY <1>0, <1>1, <1>4, <1>5, <1>6, LinkPlace

(* The program goes on from a stop: only its own call stack changes.       *)
LEMMA GoOnFrames ==
  ASSUME IInv, Shape, at = "stopped", GoOn
  PROVE  /\ chain # <<>> /\ UNCHANGED <<chain, thread_stack_>>
         /\ \A j \in 1..(Len(chain) - 1) : frames'[chain[j].thread] = frames[chain[j].thread]
<1>1. chain # <<>>
  BY DEF IInv, ChainActive
<1>2. \A u \in Threads : u # Running => frames'[u] = frames[u]
  BY DEF GoOn, Shape
<1>3. ASSUME NEW j \in 1..(Len(chain) - 1)
      PROVE  chain[j].thread \in Threads /\ chain[j].thread # Running
  <2>1. /\ Len(chain) \in Nat /\ Running = chain[Len(chain)].thread
        /\ \A i \in 1..Len(chain) : chain[i].thread \in Threads
        /\ \A i, k \in 1..Len(chain) : chain[i].thread = chain[k].thread => i = k
    BY <1>1, ChainIs
  <2>2. j \in 1..Len(chain) /\ Len(chain) \in 1..Len(chain) /\ j # Len(chain)
    BY <2>1
  <2> QED
    BY <2>1, <2>2
<1> QED
  BY <1>1, <1>2, <1>3 DEF GoOn, registry

(* A step begins: its place is the thread that runs.                       *)
LEMMA TakeStepPlace ==
  ASSUME IInv, IInv', Shape, Shape', NEW kind, TakeStep(kind)
  PROVE  HasPlace'
<1> DEFINE n == Len(chain)
<1>1. /\ chain # <<>> /\ UNCHANGED <<chain, thread_stack_>>
      /\ \A j \in 1..(n - 1) : frames'[chain[j].thread] = frames[chain[j].thread]
  BY GoOnFrames DEF TakeStep
<1>2. n \in DOMAIN chain /\ Running = chain[n].thread
  BY <1>1, ChainIs
<1>3. Calls(frames', Below(thread_stack_', chain'[n].base)) = Calls(frames, Below(thread_stack_, chain[n].base))
  BY <1>1, <1>2, BelowKept
<1>4. /\ Origin' = GetBreakContext(Running)
      /\ home' = Len(frames[Running])
  BY DEF TakeStep, Origin
<1>5. Origin'.L = Running /\ Origin'.depth = GetStackDepth(Running)
  BY <1>4 DEF GetBreakContext
<1>6. GetStackDepth(Running) = Len(frames[Running]) + Calls(frames, Below(thread_stack_, chain[n].base))
  BY <1>1, DepthOfRunning DEF DepthSums
<1>7. /\ chain'[n].thread = Origin'.L
      /\ Origin'.depth = home' + Calls(frames', Below(thread_stack_', chain'[n].base))
  BY <1>1, <1>2, <1>3, <1>4, <1>5, <1>6
<1> QED
  BY <1>1, <1>2, <1>7 DEF HasPlace

LEMMA StepPlace == Typed /\ Typed' /\ HasPlace /\ [Next]_vars => HasPlace'
<1> SUFFICES ASSUME Typed, Typed', HasPlace, [Next]_vars PROVE HasPlace'
  OBVIOUS
<1> USE DEF Executes
<1>0. IInv /\ IInv' /\ Shape /\ Shape' /\ StepperOK
  BY DEF Typed
<1>1. chain # <<>> => Running \in Threads /\ frames[Running] \in Seq(Frame)
  BY <1>0, ChainIs DEF Shape
<1>2. \A j \in 1..(Len(chain) - 1) :
        /\ chain[j].thread \in Threads /\ chain[j].thread # Running
        /\ status[chain[j].thread] = "active"
  <2> SUFFICES ASSUME NEW j \in 1..(Len(chain) - 1)
               PROVE  /\ chain[j].thread \in Threads /\ chain[j].thread # Running
                      /\ status[chain[j].thread] = "active"
    OBVIOUS
  <2>0. Len(chain) \in Nat /\ chain # <<>>
    BY <1>0, ChainIs
  <2>1. j \in 1..Len(chain) /\ Len(chain) \in 1..Len(chain) /\ j # Len(chain)
    BY <2>0
  <2>2. Running = chain[Len(chain)].thread
    BY DEF Running, Top
  <2> QED
    BY <1>0, <2>0, <2>1, <2>2, ChainIs
<1>q. ASSUME UNCHANGED <<chain, thread_stack_, single_step_processor_, home, strayed>>,
             \A u \in Threads : u # Running /\ status[u] = "active" => frames'[u] = frames[u]
      PROVE  HasPlace'
  BY <1>q, <1>0, <1>2, QuietPlace
<1>f. \A f : frames' = [frames EXCEPT ![Running] = f]
               => \A u \in Threads : u # Running => frames'[u] = frames[u]
  BY <1>0 DEF Shape
<1>e. ASSUME chain = <<>>, UNCHANGED <<single_step_processor_, strayed>> PROVE HasPlace'
  <2>1. DOMAIN chain = {}
    BY <1>e
  <2> QED
    BY <1>e, <2>1 DEF HasPlace
<1>3. CASE Host
  BY <1>3, <1>e DEF Host, RunFile, Reset, stepper, history
<1>4. CASE Threading
  <2>1. ASSUME NEW t \in Threads, NewThread(t) PROVE HasPlace'
    BY <2>1, <1>q DEF NewThread, stepper, history
  <2>2. ASSUME NEW t \in Threads, Collect(t) PROVE HasPlace'
    <3>1. \A u \in Threads : status[u] = "active" => frames'[u] = frames[u]
      BY <1>0, <2>2 DEF Collect, Shape
    <3> QED
      BY <2>2, <3>1, <1>q DEF Collect, stepper, history
  <2>3. ASSUME NEW t \in Threads, NEW line \in Lines, Resume(t, line) PROVE HasPlace'
    BY <1>0, <2>3, RunPlace DEF Resume, stepper, history
  <2>4. ASSUME NEW t \in Threads, NEW line \in Lines, Require(t, line) PROVE HasPlace'
    BY <1>0, <2>4, RunPlace DEF Require, stepper
  <2>5. <<>> \in Seq(Frame)
    OBVIOUS
  <2>6. CASE Yield
    BY <1>0, <1>1, <2>6, LeavePlace DEF Yield
  <2>7. CASE Finish
    BY <1>0, <2>5, <2>7, LeavePlace DEF Finish
  <2> QED
    BY <1>4, <2>1, <2>2, <2>3, <2>4, <2>6, <2>7 DEF Threading
<1>5. CASE Program
  <2>1. CASE Unwind
    <3>1. <<>> \in Seq(Frame) /\ chain # <<>>
      BY <1>0, <2>1 DEF Unwind, IInv, ChainActive
    <3> QED
      BY <1>0, <2>1, <3>1, LeavePlace DEF Unwind
  <2>2. CASE Raise
    BY <2>2, <1>q DEF Raise, program, registry, stepper, history
  <2>3. CASE Catch
    BY <2>3, <1>q, <1>f DEF Catch, registry, stepper, history
  <2>4. CASE Return
    BY <2>4, <1>q, <1>f DEF Return, registry, stepper, history
  <2>5. ASSUME NEW line \in Lines, NextLine(line) \/ Call(line) PROVE HasPlace'
    BY <2>5, <1>q, <1>f DEF NextLine, Call, registry, stepper, history
  <2> QED
    BY <1>5, <2>1, <2>2, <2>3, <2>4, <2>5 DEF Program
<1>6. CASE Debugger
  <2>1. CASE Hook \/ DebugBreak
    BY <2>1, <1>q DEF Hook, DebugBreak, program, registry, stepper, history
  <2>2. CASE BreakHere
    BY <2>2, <1>q, <1>f DEF BreakHere, registry, stepper, history
  <2>3. CASE Continue
    BY <2>3 DEF Continue, HasPlace
  <2>4. ASSUME NEW kind, TakeStep(kind) PROVE HasPlace'
    BY <1>0, <2>4, TakeStepPlace
  <2> QED
    BY <1>6, <2>1, <2>2, <2>3, <2>4 DEF Debugger
<1>7. CASE UNCHANGED vars
  BY <1>7, <1>q DEF vars, program, registry, stepper, history
<1> QED
  BY <1>3, <1>4, <1>5, <1>6, <1>7 DEF Next

Placed == Typed /\ HasPlace

LEMMA AlwaysPlaced == Spec => []Placed
<1>1. Init => Typed /\ HasPlace
  <2>1. Init => HasPlace
    BY DEF Init, HasPlace
  <2> QED
    BY <2>1, InitTyped
<1>2. Placed /\ Typed' /\ [Next]_vars => Placed'
  BY StepPlace DEF Placed
<1> QED
  BY <1>1, <1>2, AlwaysTyped, PTL DEF Spec, Placed

(* Which step a move from the hook is.                                     *)
LEMMA HookIs ==
  ASSUME Placed, Next, NEW kind \in {"in", "out", "over"}, Hooks(kind)
  PROVE  /\ Hook /\ chain # <<>> /\ debugstep
         /\ single_step_processor_ # NoStep /\ single_step_processor_.kind = kind
         /\ Origin \in Context
         /\ Stops <=> Processor(Running)
<1>1. chain # <<>> /\ at = "hook" /\ at' # "hook"
  BY DEF Hooks, Placed, Typed, IInv, ChainActive
<1>2. Hook
  BY <1>1 DEF Next, Host, Threading, Program, Debugger, RunFile, Reset, NewThread,
     Collect, Resume, Require, Yield, Finish, NextLine, Call, Return, Raise, Catch,
     Unwind, DebugBreak, BreakHere, Continue, TakeStep, Executes
<1>3. debugstep /\ single_step_processor_.kind = kind
  BY DEF Hooks, Stepping
<1>4. Stops <=> Processor(Running)
  BY <1>2, <1>3 DEF Hook, Stops
<1>5. single_step_processor_ # NoStep
  BY <1>3 DEF NoStep
<1>6. Origin \in Context
  BY <1>5 DEF Placed, Typed, StepperOK, Origin, Step
<1> QED
  BY <1>1, <1>2, <1>3, <1>4, <1>5, <1>6

(* The depths that a step compares, where its thread has not stopped.      *)
LEMMA DepthsAre ==
  ASSUME Placed, chain # <<>>, single_step_processor_ # NoStep, ~strayed
  PROVE  \E i \in DOMAIN chain :
           /\ chain[i].thread = Origin.L
           /\ Calls(frames, Below(thread_stack_, chain[i].base)) \in Nat
           /\ Origin.depth = home + Calls(frames, Below(thread_stack_, chain[i].base))
           /\ Running = Origin.L =>
                GetStackDepth(Running)
                  = Len(frames[Running]) + Calls(frames, Below(thread_stack_, chain[i].base))
<1>1. PICK i \in DOMAIN chain :
        /\ chain[i].thread = Origin.L
        /\ Origin.depth = home + Calls(frames, Below(thread_stack_, chain[i].base))
  BY DEF Placed, HasPlace
<1>2. /\ Len(chain) \in DOMAIN chain /\ Running = chain[Len(chain)].thread
      /\ Running = Origin.L => i = Len(chain)
  BY <1>1, ChainIs DEF Placed, Typed
<1>3. GetStackDepth(Running)
        = Len(frames[Running]) + Calls(frames, Below(thread_stack_, chain[Len(chain)].base))
  BY DepthOfRunning DEF Placed, Typed, DepthSums
<1>4. Calls(frames, Below(thread_stack_, chain[i].base)) \in Nat
  <2>1. chain[i].base \in 0..Len(thread_stack_)
    <3>1. chain[i].base \in Nat /\ chain[Len(chain)].base = Len(thread_stack_) /\ i <= Len(chain)
      BY <1>2, ChainIs DEF Placed, Typed
    <3>2. chain[i].base <= chain[Len(chain)].base
      BY <1>2, <3>1, BasesRise DEF Placed, Typed
    <3>3. Len(thread_stack_) \in Nat
      BY DEF Placed, Typed, IInv, RegistryOK
    <3> QED
      BY <3>1, <3>2, <3>3
  <2> QED
    BY <2>1, BelowIs DEF Placed, Typed, IInv, RegistryOK, Shape
<1> QED
  BY <1>1, <1>2, <1>3, <1>4

(* Comparing depths is comparing the calls of the thread itself.           *)
LEMMA InFrame ==
  ASSUME Placed, chain # <<>>, single_step_processor_ # NoStep, ~strayed, Running = Origin.L
  PROVE  /\ GetStackDepth(Running) < Origin.depth <=> Len(frames[Running]) < home
         /\ GetStackDepth(Running) = Origin.depth <=> Len(frames[Running]) = home
         /\ Len(frames[Running]) \in Nat /\ home \in Nat
<1>1. PICK i \in DOMAIN chain :
        /\ Calls(frames, Below(thread_stack_, chain[i].base)) \in Nat
        /\ Origin.depth = home + Calls(frames, Below(thread_stack_, chain[i].base))
        /\ GetStackDepth(Running)
             = Len(frames[Running]) + Calls(frames, Below(thread_stack_, chain[i].base))
  BY DepthsAre
<1>2. Running \in Threads /\ home \in Nat
  BY ChainIs DEF Placed, Typed, StepperOK
<1>3. frames[Running] \in Seq(Frame)
  BY <1>2 DEF Placed, Typed, Shape
<1>4. Len(frames[Running]) \in Nat
  BY <1>3
<1> QED
  BY <1>1, <1>2, <1>4

(* Until its thread stops running, a step over stops at the first new line *)
(* of its call, or in the caller.                                          *)
THEOREM OverInFrame == Spec => StepOverInFrame
<1> DEFINE Prompt == Hooks("over") /\ Running = Origin.L /\ ~strayed
                     => (Stops <=> \/ Len(frames[Running]) < home
                                   \/ /\ Len(frames[Running]) = home
                                      /\ Top(frames[Running]) # Origin.line)
<1>1. Placed /\ [Next]_vars => [Prompt]_vars
  <2> SUFFICES ASSUME Placed, Next, Hooks("over"), Running = Origin.L, ~strayed
               PROVE  Stops <=> \/ Len(frames[Running]) < home
                                \/ /\ Len(frames[Running]) = home
                                   /\ Top(frames[Running]) # Origin.line
    OBVIOUS
  <2>1. /\ chain # <<>> /\ single_step_processor_ # NoStep
        /\ single_step_processor_.kind = "over"
        /\ Stops <=> Processor(Running)
    BY HookIs
  <2>2. Processor(Running) <=> StepOver(Origin, Running)
    BY <2>1 DEF Processor, Origin
  <2>3. status[Origin.L] # "yielded"
    BY <2>1, ChainIs DEF Placed, Typed
  <2>4. StepOver(Origin, Running)
          <=> \/ GetStackDepth(Running) = Origin.depth /\ Top(frames[Running]) # Origin.line
              \/ GetStackDepth(Running) < Origin.depth
    BY <2>3 DEF StepOver, GetBreakContext
  <2>5. /\ GetStackDepth(Running) < Origin.depth <=> Len(frames[Running]) < home
        /\ GetStackDepth(Running) = Origin.depth <=> Len(frames[Running]) = home
    BY <2>1, InFrame
  <2>6. Stops <=> StepOver(Origin, Running)
    BY <2>1, <2>2
  <2> QED
    BY <2>4, <2>5, <2>6
<1> QED
  BY <1>1, AlwaysPlaced, PTL DEF Spec, StepOverInFrame

(* A step over stops nowhere but in the thread where it began.             *)
THEOREM StaysInThread == Spec => StepOverStays
<1> DEFINE Stay == Hooks("over") /\ Stops => Running = Origin.L
<1>1. Placed /\ [Next]_vars => [Stay]_vars
  <2> SUFFICES ASSUME Placed, Next, Hooks("over"), Stops PROVE Running = Origin.L
    OBVIOUS
  <2>1. chain # <<>> /\ single_step_processor_.kind = "over" /\ Processor(Running)
    BY HookIs
  <2>2. StepOver(Origin, Running)
    BY <2>1 DEF Processor, Origin
  <2>3. Origin.L \in Threads /\ Running \notin Parents(Origin.L)
    <3>1. Origin \in Context
      BY HookIs
    <3> QED
      BY <2>1, <3>1, AllWait DEF Placed, Typed, ResumersWait, Parents, Positions, Context
  <2>4. Running \in Threads
    BY <2>1, ChainIs DEF Placed, Typed
  <2>5. ~ IsChild(Origin.L, Running)
    <3>1. ParentsFollowed
      BY AllWait, ParentsAre DEF Placed, Typed, IInv, RegistryOK, ResumersWait, StackOK
    <3> QED
      BY <2>3, <2>4, <3>1 DEF ParentsFollowed, IsChild
  <2> QED
    BY <2>2, <2>5 DEF StepOver
<1> QED
  BY <1>1, AlwaysPlaced, PTL DEF Spec, StepOverStays

-----------------------------------------------------------------------------
(* The step out.                                                           *)

SteppingOut == Stepping("out") /\ ~outside

(* Where only coroutines run: until its thread stops, the thread where the *)
(* step began has the calls it had then while it executes, and two C       *)
(* functions more while it waits; once it has stopped, the depth is below  *)
(* old_ctx.depth_, and the next hook stops.                                *)
OutOK ==
  SteppingOut =>
    /\ chain # <<>>
    /\ \A i \in DOMAIN chain : chain[i].by # "require"
    /\ ~strayed => IF Running = Origin.L
                   THEN at = "exec" => Len(frames[Running]) >= home
                   ELSE Len(frames[Origin.L]) >= home + 2
    /\ strayed => /\ at # "exec"
                  /\ at # "stopped" => GetStackDepth(Running) < Origin.depth

(* More of the stack has more calls.                                       *)
LEMMA BelowRises ==
  ASSUME NEW stack \in Seq(Threads), NEW f \in [Threads -> Seq(Frame)],
         NEW b \in 0..Len(stack), NEW c \in 0..b
  PROVE  Calls(f, Below(stack, c)) <= Calls(f, Below(stack, b))
<1> DEFINE Sum(k) == Calls(f, Below(stack, k))
           M == {m \in Nat : c + m <= b => Sum(c) <= Sum(c + m)}
<1>1. b \in Nat /\ c \in Nat /\ c <= b /\ b <= Len(stack) /\ Len(stack) \in Nat
  OBVIOUS
<1>2. ASSUME NEW k \in 0..b
      PROVE  Sum(k) \in Nat /\ (k # 0 => Sum(k - 1) <= Sum(k))
  <2>1. k \in 0..Len(stack)
    BY <1>1
  <2>2. Sum(k) \in Nat /\ (k # 0 => Sum(k) = Len(f[stack[k]]) + Sum(k - 1))
    BY <2>1, BelowIs
  <2>3. ASSUME k # 0 PROVE Sum(k - 1) \in Nat /\ Len(f[stack[k]]) \in Nat
    <3>1. k - 1 \in 0..Len(stack) /\ k \in 1..Len(stack)
      BY <1>1, <2>3
    <3>2. Sum(k - 1) \in Nat
      BY <3>1, BelowIs
    <3>3. stack[k] \in Threads
      BY <3>1
    <3>4. f[stack[k]] \in Seq(Frame)
      BY <3>3
    <3> QED
      BY <3>2, <3>4
  <2> HIDE DEF Sum
  <2> QED
    BY <2>2, <2>3
<1> HIDE DEF Sum
<1>3. 0 \in M
  BY <1>1, <1>2
<1>4. \A m \in Nat : m \in M => m + 1 \in M
  <2> SUFFICES ASSUME NEW m \in Nat, m \in M, c + (m + 1) <= b PROVE Sum(c) <= Sum(c + (m + 1))
    BY <1>1
  <2>1. c + m <= b /\ c + m \in 0..b /\ c + (m + 1) \in 0..b /\ c + (m + 1) # 0
        /\ c + (m + 1) - 1 = c + m /\ c \in 0..b
    BY <1>1
  <2>2. Sum(c + m) <= Sum(c + (m + 1)) /\ Sum(c + m) \in Nat /\ Sum(c + (m + 1)) \in Nat
        /\ Sum(c) \in Nat
    BY <1>2, <2>1
  <2> QED
    BY <2>1, <2>2
<1>5. b - c \in M
  <2>1. b - c \in Nat
    BY <1>1
  <2> HIDE DEF M
  <2> QED
    BY <1>3, <1>4, <2>1, Induct
<1>6. c + (b - c) = b
  BY <1>1
<1> QED
  BY <1>1, <1>5, <1>6 DEF Sum

(* The place where the step began, seen from above.                        *)
LEMMA WaitingDepth ==
  ASSUME Placed, OutOK, SteppingOut, ~strayed, Running # Origin.L
  PROVE  /\ GetStackDepth(Running) > Origin.depth
         /\ Len(frames[Origin.L]) >= home + 2 /\ home \in Nat /\ Len(frames[Origin.L]) \in Nat
         /\ Origin.L \in Threads /\ status[Origin.L] = "active"
<1>1. /\ chain # <<>> /\ single_step_processor_ # NoStep
      /\ \A i \in DOMAIN chain : chain[i].by # "require"
      /\ Len(frames[Origin.L]) >= home + 2
  BY DEF OutOK, SteppingOut, Stepping, NoStep
<1>2. PICK i \in DOMAIN chain :
        /\ chain[i].thread = Origin.L
        /\ Calls(frames, Below(thread_stack_, chain[i].base)) \in Nat
        /\ Origin.depth = home + Calls(frames, Below(thread_stack_, chain[i].base))
  BY <1>1, DepthsAre
<1>3. /\ Len(chain) \in Nat /\ DOMAIN chain = 1..Len(chain)
      /\ Running = chain[Len(chain)].thread /\ Running \in Threads
      /\ \A j \in 1..Len(chain) : chain[j].base \in Nat
      /\ Origin.L \in Threads /\ status[Origin.L] = "active"
      /\ Len(thread_stack_) = chain[Len(chain)].base
  BY <1>1, <1>2, ChainIs DEF Placed, Typed
<1>4. i + 1 \in 2..Len(chain) /\ i + 1 \in DOMAIN chain /\ i + 1 <= Len(chain)
      /\ Len(chain) \in DOMAIN chain /\ i + 1 - 1 = i
  BY <1>2, <1>3
<1>5. /\ chain[i + 1].base = chain[i].base + 1
      /\ thread_stack_[chain[i + 1].base] = Origin.L
      /\ chain[i + 1].base <= chain[Len(chain)].base
  <2>1. chain[i + 1].by = "resume"
    BY <1>1, <1>4 DEF Placed, Typed, IInv, Bases
  <2>2. chain[i + 1].base = chain[i].base + 1
    BY <1>4, <2>1 DEF Placed, Typed, IInv, Bases
  <2>3. thread_stack_[chain[i + 1].base] = chain[i].thread
    BY <1>4, <2>1 DEF Placed, Typed, IInv, Pushed
  <2>4. chain[i + 1].base <= chain[Len(chain)].base
    BY <1>4, BasesRise DEF Placed, Typed
  <2> QED
    BY <1>2, <2>2, <2>3, <2>4
<1> DEFINE b == chain[i].base
           top == chain[Len(chain)].base
           Sum(k) == Calls(frames, Below(thread_stack_, k))
<1>6. /\ b \in Nat /\ top \in Nat /\ b + 1 <= top /\ Len(thread_stack_) = top
      /\ thread_stack_ \in Seq(Threads) /\ frames \in [Threads -> Seq(Frame)]
  BY <1>3, <1>4, <1>5 DEF Placed, Typed, IInv, RegistryOK, Shape
<1>7. thread_stack_[b + 1] = Origin.L
  BY <1>5
<1>8. GetStackDepth(Running) = Len(frames[Running]) + Sum(top)
  BY <1>1, DepthOfRunning DEF Placed, Typed, DepthSums
<1>9. Sum(b) \in Nat /\ Origin.depth = home + Sum(b)
  BY <1>2
<1> HIDE DEF b, top
<1>10. b + 1 \in 0..Len(thread_stack_) /\ b + 1 # 0 /\ b + 1 - 1 = b /\ top \in 0..Len(thread_stack_)
       /\ b + 1 \in 0..top
  BY <1>6
<1>11. Sum(b + 1) = Len(frames[Origin.L]) + Sum(b)
  <2>1. \A k \in 0..Len(thread_stack_) :
          k # 0 => Sum(k) = Len(frames[thread_stack_[k]]) + Sum(k - 1)
    BY <1>6, BelowIs
  <2> HIDE DEF Sum
  <2>2. Sum(b + 1) = Len(frames[thread_stack_[b + 1]]) + Sum(b + 1 - 1)
    BY <1>6, <1>10, <2>1
  <2> QED
    BY <1>7, <1>10, <2>2
<1>12. Sum(b + 1) <= Sum(top) /\ Sum(top) \in Nat
  BY <1>6, <1>10, BelowRises, BelowIs
<1>13. Len(frames[Running]) \in Nat /\ Len(frames[Origin.L]) \in Nat /\ home \in Nat
  <2>1. frames[Running] \in Seq(Frame) /\ frames[Origin.L] \in Seq(Frame)
    BY <1>3, <1>6
  <2> QED
    BY <2>1 DEF Placed, Typed, StepperOK
<1> HIDE DEF Sum
<1>14. GetStackDepth(Running) > Origin.depth
  BY <1>1, <1>8, <1>9, <1>11, <1>12, <1>13
<1> QED
  BY <1>1, <1>3, <1>13, <1>14

(* The same of the next state.                                             *)
LEMMA NextDepth == Typed' => DepthSums'
<1>1. Typed => DepthSums
  BY DepthOfRunning DEF Typed
<1> QED
  BY <1>1, PTL

(* A thread that was resumed stops: whoever resumed it, and with all below *)
(* it, has fewer calls than it had while it waited.                        *)
LEMMA LeaveDepth ==
  ASSUME Typed, Typed', chain # <<>>, Len(chain) > 1, Top(chain).by = "resume",
         NEW new, NEW left \in Seq(Frame), NEW pc, Leave(new, left, pc)
  PROVE  /\ GetStackDepth(Running)' \in Nat
         /\ Calls(frames, Below(thread_stack_, chain[Len(chain)].base)) \in Nat
         /\ GetStackDepth(Running)'
              < Calls(frames, Below(thread_stack_, chain[Len(chain)].base))
<1> DEFINE n == Len(chain)
           w == chain[n - 1].thread
           b == chain[n - 1].base
<1>0. IInv /\ IInv' /\ Shape /\ Shape'
  BY DEF Typed
<1>1. /\ n \in Nat /\ DOMAIN chain = 1..n /\ Top(chain) = chain[n]
      /\ \A j \in 1..n : chain[j].thread \in Threads /\ chain[j].base \in Nat
      /\ \A j, k \in 1..n : chain[j].thread = chain[k].thread => j = k
      /\ Running = chain[n].thread /\ Len(thread_stack_) = chain[n].base
  BY <1>0, ChainIs
<1>2. n - 1 \in 1..n /\ n \in 2..n /\ n \in 1..n /\ n - 1 \in 1..(n - 1)
  <2> HIDE DEF n
  <2> QED
    BY <1>1
<1>3. /\ chain[n].base = b + 1 /\ b \in Nat /\ w \in Threads
      /\ thread_stack_[b + 1] = w
  <2>1. chain[n].by = "resume"
    BY <1>1
  <2>2. chain[n].base = b + 1
    BY <1>0, <1>2, <2>1 DEF IInv, Bases
  <2>3. thread_stack_[chain[n].base] = w
    BY <1>0, <1>2, <2>1 DEF IInv, Pushed
  <2>4. b \in Nat /\ w \in Threads
    BY <1>1, <1>2
  <2> HIDE DEF n, b, w
  <2> QED
    BY <2>2, <2>3, <2>4
<1>4. /\ Len(chain') = n - 1 /\ chain'[n - 1] = chain[n - 1]
      /\ \A u \in Threads : u # Running /\ u # w => frames'[u] = frames[u]
      /\ Running' = w /\ chain' # <<>>
      /\ frames'[w] = Cut(frames[w], Len(CFrames("resume"))) /\ Lua(frames'[w])
  BY <1>0, <1>2, LeaveFrames
<1>5. Calls(frames', Below(thread_stack_', chain'[n - 1].base)) = Calls(frames, Below(thread_stack_, b))
  <2>1. n - 1 \in DOMAIN chain'
    BY <1>0, <1>2, <1>4 DEF IInv, RegistryOK
  <2>2. \A k \in 1..chain[n - 1].base : thread_stack_'[k] = thread_stack_[k]
    BY <1>0, <1>2, LeaveStack
  <2>3. \A j \in 1..(n - 1 - 1) : frames'[chain[j].thread] = frames[chain[j].thread]
    <3> SUFFICES ASSUME NEW j \in 1..(n - 1 - 1) PROVE frames'[chain[j].thread] = frames[chain[j].thread]
      OBVIOUS
    <3>1. j \in 1..n /\ j # n /\ j # n - 1
      <4> HIDE DEF n
      <4> QED
        BY <1>1
    <3>2. /\ chain[j].thread \in Threads /\ chain[j].thread # Running
          /\ chain[j].thread # w
      BY <1>1, <1>2, <3>1
    <3> QED
      BY <1>4, <3>2
  <2> QED
    BY <1>0, <1>1, <1>2, <1>4, <2>1, <2>2, <2>3, BelowKept
<1>6. /\ GetStackDepth(Running)' \in Nat
      /\ GetStackDepth(Running)'
           = Len(frames'[w]) + Calls(frames, Below(thread_stack_, b))
  <2>1. /\ GetStackDepth(Running)' \in Nat
        /\ GetStackDepth(Running)'
             = Len(frames'[Running']) + Calls(frames', Below(thread_stack_', chain'[Len(chain')].base))
    BY <1>4, NextDepth DEF DepthSums
  <2> QED
    BY <1>4, <1>5, <2>1
<1>7. Len(frames[w]) = Len(frames'[w]) + 2 /\ Len(frames'[w]) \in Nat
  <2>1. frames[w] \in Seq(Frame)
    BY <1>0, <1>3 DEF Shape
  <2>2. Len(CFrames("resume")) = 2
    BY CFramesAre
  <2>3. Lua(Cut(frames[w], 2)) /\ frames'[w] = Cut(frames[w], 2)
    BY <1>4, <2>2
  <2>4. Cut(frames[w], 2) # <<>>
    BY <2>3 DEF Lua
  <2>5. 2 \in 0..Len(frames[w])
    <3> SUFFICES ASSUME Len(frames[w]) < 2 PROVE FALSE
      BY <2>1
    <3>1. Len(frames[w]) - 2 < 1 /\ Len(frames[w]) - 2 \in Int
      BY <2>1
    <3>2. SubSeq(frames[w], 1, Len(frames[w]) - 2) = <<>>
      BY <2>1, <3>1
    <3> QED
      BY <2>4, <3>2 DEF Cut
  <2>6. Len(Cut(frames[w], 2)) = Len(frames[w]) - 2
    BY <2>1, <2>5, CutSome
  <2> QED
    BY <2>1, <2>3, <2>5, <2>6
<1>8. /\ Calls(frames, Below(thread_stack_, b)) \in Nat
      /\ Calls(frames, Below(thread_stack_, b + 1))
           = Len(frames[w]) + Calls(frames, Below(thread_stack_, b))
      /\ Calls(frames, Below(thread_stack_, b + 1)) \in Nat
  <2>1. /\ b \in 0..Len(thread_stack_) /\ b + 1 \in 0..Len(thread_stack_) /\ b + 1 # 0
        /\ b + 1 - 1 = b
    <3>1. Len(thread_stack_) = b + 1 /\ b \in Nat
      BY <1>1, <1>3
    <3> HIDE DEF b
    <3> QED
      BY <3>1
  <2>2. thread_stack_ \in Seq(Threads) /\ frames \in [Threads -> Seq(Frame)]
    BY <1>0 DEF IInv, RegistryOK, Shape
  <2> DEFINE Sum(k) == Calls(frames, Below(thread_stack_, k))
  <2>3. \A k \in 0..Len(thread_stack_) :
          Sum(k) \in Nat /\ (k # 0 => Sum(k) = Len(frames[thread_stack_[k]]) + Sum(k - 1))
    BY <2>2, BelowIs
  <2> HIDE DEF b, w, Sum
  <2>4. /\ Sum(b) \in Nat /\ Sum(b + 1) \in Nat
        /\ Sum(b + 1) = Len(frames[w]) + Sum(b)
    BY <1>3, <2>1, <2>3
  <2> QED
    BY <2>4 DEF Sum
<1> DEFINE low  == Calls(frames, Below(thread_stack_, b))
           high == Calls(frames, Below(thread_stack_, b + 1))
<1>9. GetStackDepth(Running)' < high
  <2>1. GetStackDepth(Running)' = Len(frames'[w]) + low
    BY <1>6
  <2>2. high = Len(frames[w]) + low /\ low \in Nat
    BY <1>8
  <2> HIDE DEF low, high, w
  <2> QED
    BY <1>7, <2>1, <2>2
<1>10. high = Calls(frames, Below(thread_stack_, chain[Len(chain)].base))
  BY <1>3
<1> HIDE DEF low
<1> QED
  BY <1>6, <1>8, <1>9, <1>10

(* No thread that waits is the one that runs.                              *)
LEMMA OthersWait ==
  ASSUME IInv, chain # <<>>
  PROVE  \A j \in 1..(Len(chain) - 1) :
           /\ chain[j].thread \in Threads /\ chain[j].thread # Running
           /\ status[chain[j].thread] = "active"
<1> SUFFICES ASSUME NEW j \in 1..(Len(chain) - 1)
             PROVE  /\ chain[j].thread \in Threads /\ chain[j].thread # Running
                    /\ status[chain[j].thread] = "active"
  OBVIOUS
<1>1. Len(chain) \in Nat /\ Running = chain[Len(chain)].thread
  BY ChainIs
<1>2. j \in 1..Len(chain) /\ Len(chain) \in 1..Len(chain) /\ j # Len(chain)
  BY <1>1
<1> QED
  BY <1>1, <1>2, ChainIs

(* A pcall that catches an error leaves no more calls.                     *)
LEMMA CatchDepth ==
  ASSUME Typed, Typed', Catch
  PROVE  /\ GetStackDepth(Running)' \in Nat /\ GetStackDepth(Running) \in Nat
         /\ GetStackDepth(Running)' <= GetStackDepth(Running)
<1> DEFINE n == Len(chain)
<1>0. IInv /\ IInv' /\ Shape /\ Shape'
  BY DEF Typed
<1>1. chain # <<>> /\ chain' = chain /\ thread_stack_' = thread_stack_ /\ chain' # <<>>
  BY <1>0 DEF Catch, registry, IInv, ChainActive
<1>2. /\ n \in Nat /\ n \in DOMAIN chain /\ n \in DOMAIN chain'
      /\ Running = chain[n].thread /\ Running \in Threads /\ Running' = Running
  BY <1>0, <1>1, ChainIs DEF Running, Top
<1>3. PICK k \in LuaFrames(Running) :
        frames' = [frames EXCEPT ![Running] = SubSeq(@, 1, k)]
  BY DEF Catch
<1>4. frames[Running] \in Seq(Frame)
  BY <1>0, <1>2 DEF Shape
<1>5. k \in 1..Len(frames[Running]) /\ Len(frames[Running]) \in Nat
  BY <1>4 DEF LuaFrames
<1>6. Len(frames'[Running]) = k
  <2>1. frames'[Running] = SubSeq(frames[Running], 1, k)
    BY <1>0, <1>2, <1>3 DEF Shape
  <2> QED
    BY <1>4, <1>5, <2>1
<1>7. \A u \in Threads : u # Running => frames'[u] = frames[u]
  BY <1>0, <1>3 DEF Shape
<1> DEFINE low == Calls(frames, Below(thread_stack_, chain[n].base))
<1>8. Calls(frames', Below(thread_stack_', chain'[n].base)) = low
  <2>1. \A j \in 1..(n - 1) : frames'[chain[j].thread] = frames[chain[j].thread]
    BY <1>0, <1>1, <1>7, OthersWait
  <2> QED
    BY <1>0, <1>1, <1>2, <2>1, BelowKept
<1>9. /\ GetStackDepth(Running)' \in Nat
      /\ GetStackDepth(Running)' = Len(frames'[Running]) + low
  <2>1. /\ GetStackDepth(Running)' \in Nat
        /\ GetStackDepth(Running)'
             = Len(frames'[Running']) + Calls(frames', Below(thread_stack_', chain'[Len(chain')].base))
    BY <1>1, NextDepth DEF DepthSums
  <2> QED
    BY <1>1, <1>2, <1>8, <2>1
<1>10. GetStackDepth(Running) \in Nat /\ GetStackDepth(Running) = Len(frames[Running]) + low
  BY <1>0, <1>1, DepthOfRunning DEF DepthSums
<1>11. low \in Nat
  <2>1. chain[n].base = Len(thread_stack_) /\ chain[n].base \in Nat
    BY <1>0, <1>1, <1>2, ChainIs
  <2>2. chain[n].base \in 0..Len(thread_stack_)
    BY <2>1
  <2> QED
    BY <1>0, <2>2, BelowIs DEF IInv, RegistryOK, Shape
<1> HIDE DEF low
<1> QED
  BY <1>5, <1>6, <1>9, <1>10, <1>11

(* A step that leaves the chain and the step alone.                        *)
LEMMA QuietOut ==
  ASSUME Placed, OutOK, UNCHANGED <<chain, stepper, history>>,
         SteppingOut /\ strayed =>
           at' # "exec" /\ (at' # "stopped" => GetStackDepth(Running)' < Origin.depth),
         \A u \in Threads : u # Running /\ status[u] = "active" => frames'[u] = frames[u],
         SteppingOut /\ ~strayed /\ Running = Origin.L /\ at' = "exec"
           => Len(frames'[Running]) >= home
  PROVE  OutOK'
<1> SUFFICES ASSUME SteppingOut' PROVE OutOK'
  BY DEF OutOK
<1>0. UNCHANGED <<chain, debugstep, single_step_processor_, home, strayed, outside>>
  BY DEF stepper, history
<1>1. Origin' = Origin /\ Running' = Running /\ SteppingOut
  BY <1>0 DEF Origin, Running, Top, SteppingOut, Stepping
<1>2. chain' # <<>> /\ (\A i \in DOMAIN chain' : chain'[i].by # "require")
  BY <1>0, <1>1 DEF OutOK
<1>3. ASSUME ~strayed, Running # Origin.L PROVE Len(frames'[Origin.L]) >= home + 2
  <2>1. Origin.L \in Threads /\ status[Origin.L] = "active" /\ Len(frames[Origin.L]) >= home + 2
    BY <1>1, <1>3, WaitingDepth
  <2> QED
    BY <1>3, <2>1
<1>4. strayed' = strayed /\ home' = home
  BY <1>0
<1>5. ASSUME ~strayed'
      PROVE  IF Running' = Origin'.L THEN at' = "exec" => Len(frames'[Running']) >= home'
             ELSE Len(frames'[Origin'.L]) >= home' + 2
  BY <1>1, <1>3, <1>4, <1>5
<1>6. ASSUME strayed'
      PROVE  at' # "exec" /\ (at' # "stopped" => GetStackDepth(Running)' < Origin'.depth)
  BY <1>1, <1>4, <1>6
<1> QED
  BY <1>2, <1>5, <1>6 DEF OutOK

(* Another thread is resumed.                                              *)
LEMMA ResumeOut ==
  ASSUME Placed, Typed', OutOK, NEW t \in Threads, NEW line \in Lines, Resume(t, line)
  PROVE  OutOK'
<1> SUFFICES ASSUME SteppingOut' PROVE OutOK'
  BY DEF OutOK
<1>0. UNCHANGED <<debugstep, single_step_processor_, home, strayed, outside>>
  BY DEF Resume, stepper, history
<1>1. Origin' = Origin /\ SteppingOut
  BY <1>0 DEF Origin, SteppingOut, Stepping
<1>2. /\ ~strayed /\ chain # <<>> /\ at = "exec" /\ at' = "hook" /\ status[t] # "active"
      /\ single_step_processor_ # NoStep
  BY <1>1 DEF OutOK, Resume, Executes, SteppingOut, Stepping, NoStep
<1>3. /\ t # Running /\ Running' = t
      /\ frames'[Running] = frames[Running] \o CFrames("resume")
      /\ \A u \in Threads : u # t /\ u # Running => frames'[u] = frames[u]
      /\ Len(chain') = Len(chain) + 1
      /\ \A i \in 1..Len(chain) : chain'[i] = chain[i]
      /\ chain'[Len(chain) + 1].by = "resume"
  BY <1>2, RunFrames DEF Resume, Placed, Typed
<1>4. Len(chain) \in Nat /\ DOMAIN chain = 1..Len(chain) /\ Running \in Threads
  BY <1>2, ChainIs DEF Placed, Typed
<1>5. Len(chain') = Len(chain) + 1 /\ DOMAIN chain' = 1..(Len(chain) + 1)
  <2>1. chain' \in Seq(Link)
    BY DEF Typed, IInv, RegistryOK
  <2>2. DOMAIN chain' = 1..Len(chain')
    BY <2>1
  <2> QED
    BY <1>3, <2>2
<1>6. chain' # <<>>
  BY <1>4, <1>5
<1>7. \A i \in DOMAIN chain' : chain'[i].by # "require"
  <2> SUFFICES ASSUME NEW i \in 1..(Len(chain) + 1) PROVE chain'[i].by # "require"
    BY <1>5
  <2>1. i = Len(chain) + 1 \/ i \in 1..Len(chain)
    BY <1>4
  <2> QED
    BY <1>1, <1>3, <1>4, <2>1 DEF OutOK
<1>8. Origin.L \in Threads /\ status[Origin.L] = "active" /\ home \in Nat
  BY <1>2, DepthsAre, ChainIs DEF Placed, Typed, StepperOK
<1>9. t # Origin.L
  BY <1>2, <1>8
<1>10. Len(frames'[Origin.L]) >= home + 2
  <2>1. CASE Running = Origin.L
    <3>1. Len(frames[Running]) >= home
      BY <1>1, <1>2, <2>1 DEF OutOK
    <3>2. frames[Running] \in Seq(Frame) /\ CFrames("resume") \in Seq(Frame) /\ Len(CFrames("resume")) = 2
      BY <1>4, CFramesAre DEF Placed, Typed, Shape
    <3>3. \A f, c \in Seq(Frame) : Len(f \o c) = Len(f) + Len(c) /\ Len(f) \in Nat
      OBVIOUS
    <3>4. Len(frames[Running] \o CFrames("resume")) = Len(frames[Running]) + 2
      BY <3>2, <3>3
    <3>5. Len(frames'[Running]) = Len(frames[Running]) + 2 /\ Len(frames[Running]) \in Nat
      BY <1>3, <3>2, <3>3, <3>4
    <3> QED
      BY <1>8, <2>1, <3>1, <3>5
  <2>2. CASE Running # Origin.L
    <3>1. frames'[Origin.L] = frames[Origin.L]
      BY <1>3, <1>8, <1>9, <2>2
    <3> QED
      BY <1>1, <1>2, <2>2, <3>1 DEF OutOK
  <2> QED
    BY <2>1, <2>2
<1>11. Running' # Origin'.L /\ home' = home /\ strayed' = strayed
  BY <1>0, <1>1, <1>3, <1>9
<1> QED
  BY <1>1, <1>2, <1>6, <1>7, <1>10, <1>11 DEF OutOK

(* The thread that runs stops: the thread where the step began has         *)
(* strayed, or goes on, or still waits; and once it has strayed every      *)
(* thread that goes on is less deep.                                       *)
LEMMA LeaveOut ==
  ASSUME Placed, Typed', OutOK, chain # <<>>, NEW new, NEW left \in Seq(Frame),
         NEW pc \in {"hook", "unwinding"}, Leave(new, left, pc), at \in {"exec", "unwinding"}
  PROVE  OutOK'
<1> SUFFICES ASSUME SteppingOut' PROVE OutOK'
  BY DEF OutOK
<1> DEFINE n == Len(chain)
           D == Calls(frames, Below(thread_stack_, chain[n].base))
<1>t. Typed /\ IInv /\ Shape
  BY DEF Placed, Typed
<1>0. /\ UNCHANGED <<debugstep, single_step_processor_, home>>
      /\ Origin' = Origin /\ single_step_processor_ # NoStep
  BY DEF Leave, stepper, SteppingOut, Stepping, NoStep, Origin
<1>1. ~outside /\ n # 1
  BY <1>0 DEF SteppingOut, Leave
<1>2. SteppingOut /\ (\A i \in DOMAIN chain : chain[i].by # "require")
  BY <1>0, <1>1 DEF SteppingOut, Stepping, OutOK
<1>3. /\ n \in Nat /\ n > 1 /\ DOMAIN chain = 1..n
      /\ Running = chain[n].thread /\ Top(chain) = chain[n] /\ Running \in Threads
      /\ \A j, k \in 1..n : chain[j].thread = chain[k].thread => j = k
      /\ chain[n].base \in Nat /\ Len(thread_stack_) = chain[n].base
  <2>1. n \in Nat /\ n > 0 /\ DOMAIN chain = 1..n
    BY <1>t, ChainIs
  <2>2. n > 1 /\ n \in 1..n
    <3> HIDE DEF n
    <3> QED
      BY <1>1, <2>1
  <2> QED
    BY <1>t, <2>1, <2>2, ChainIs
<1>4. Top(chain).by = "resume"
  <2>1. n \in 2..n /\ n \in 1..n
    <3> HIDE DEF n
    <3> QED
      BY <1>3
  <2> QED
    BY <1>t, <1>2, <1>3, <2>1 DEF IInv, Bases
<1>5. /\ GetStackDepth(Running)' \in Nat /\ D \in Nat
      /\ GetStackDepth(Running)' < D
  BY <1>t, <1>3, <1>4, LeaveDepth
<1>6. /\ \A u \in Threads : u # Running /\ u # chain[n - 1].thread => frames'[u] = frames[u]
      /\ Len(chain') = n - 1
      /\ \A i \in 1..(n - 1) : chain'[i] = chain[i]
      /\ Running' = chain[n - 1].thread /\ chain' # <<>>
  BY <1>t, <1>3, LeaveFrames
<1>7. \A i \in DOMAIN chain' : chain'[i].by # "require"
  <2>1. DOMAIN chain' = 1..(n - 1)
    BY <1>6 DEF Typed, IInv, RegistryOK
  <2>2. \A i \in 1..(n - 1) : i \in 1..n
    <3> HIDE DEF n
    <3> QED
      BY <1>3
  <2> QED
    BY <1>2, <1>3, <1>6, <2>1, <2>2
<1>8. at' = pc
  BY <1>1 DEF Leave
<1>9. strayed' = (strayed \/ Origin.L = Running)
  BY <1>0 DEF Leave, Origin
<1> HIDE DEF D
<1>10. ASSUME strayed \/ Origin.L = Running
       PROVE  GetStackDepth(Running)' < Origin.depth
  <2>1. Origin.depth \in Nat
    BY <1>0 DEF Placed, Typed, StepperOK, Origin, Step, Context
  <2>2. CASE strayed
    <3>1. GetStackDepth(Running) < Origin.depth
      BY <1>2, <2>2 DEF OutOK
    <3>2. GetStackDepth(Running) = Len(frames[Running]) + D
      BY <1>t, DepthOfRunning DEF DepthSums, D
    <3>3. Len(frames[Running]) \in Nat
      <4>1. frames[Running] \in Seq(Frame)
        BY <1>t, <1>3 DEF Shape
      <4> QED
        BY <4>1
    <3> QED
      BY <1>5, <2>1, <3>1, <3>2, <3>3
  <2>3. CASE ~strayed
    <3>1. PICK i \in 1..n : /\ chain[i].thread = Origin.L
                            /\ Origin.depth = home + Calls(frames, Below(thread_stack_, chain[i].base))
      BY <1>0, <1>3, <2>3 DEF Placed, HasPlace
    <3>2. n \in 1..n
      <4> HIDE DEF n
      <4> QED
        BY <1>3
    <3>3. i = n
      BY <1>3, <1>10, <2>3, <3>1, <3>2
    <3>4. Origin.depth = home + D
      BY <3>1, <3>3 DEF D
    <3>5. home \in Nat
      BY DEF Placed, Typed, StepperOK
    <3> QED
      BY <1>5, <3>4, <3>5
  <2> QED
    BY <2>2, <2>3
<1>11. ASSUME ~strayed, Origin.L # Running, Running' # Origin.L
       PROVE  Len(frames'[Origin.L]) >= home + 2
  <2>1. Origin.L \in Threads /\ Len(frames[Origin.L]) >= home + 2
    BY <1>2, <1>11, WaitingDepth
  <2> QED
    BY <1>6, <1>11, <2>1
<1>12. at' # "exec" /\ at' # "stopped"
  BY <1>8
<1>13. home' = home /\ Origin' = Origin
  BY <1>0
<1>14. ASSUME ~strayed', Running' # Origin'.L PROVE Len(frames'[Origin'.L]) >= home' + 2
  BY <1>9, <1>11, <1>13, <1>14
<1>15. ASSUME strayed' PROVE GetStackDepth(Running)' < Origin'.depth
  BY <1>9, <1>10, <1>13, <1>15
<1> QED
  BY <1>6, <1>7, <1>12, <1>14, <1>15 DEF OutOK

(* A step out begins.                                                      *)
LEMMA TakeStepOut ==
  ASSUME Placed, NEW kind, TakeStep(kind)
  PROVE  OutOK'
<1> SUFFICES ASSUME SteppingOut' PROVE OutOK'
  BY DEF OutOK
<1>1. chain # <<>> /\ chain' = chain /\ ~strayed'
  BY GoOnFrames DEF TakeStep, Placed, Typed
<1>2. \A i \in DOMAIN chain : chain[i].by # "require"
  BY DEF TakeStep, SteppingOut
<1>3. Running' = Running /\ Origin'.L = Running /\ home' = Len(frames[Running])
  BY <1>1 DEF TakeStep, Origin, GetBreakContext, Running, Top
<1>4. at' = "exec" => frames' = frames
  BY DEF TakeStep, GoOn
<1>5. at' = "exec" => Len(frames'[Running']) >= home'
  <2>1. frames[Running] \in Seq(Frame)
    BY <1>1, ChainIs DEF Placed, Typed, Shape
  <2>2. Len(frames[Running]) \in Nat
    BY <2>1
  <2> QED
    BY <1>3, <1>4, <2>2
<1> QED
  BY <1>1, <1>2, <1>3, <1>5 DEF OutOK

(* The hook of a step out.                                                 *)
LEMMA HookOut == ASSUME Placed, OutOK, Hook PROVE OutOK'
<1>1. UNCHANGED <<status, frames, chain, thread_stack_, stepper, history>> /\ at = "hook"
  BY DEF Hook, program, registry
<1>2. ASSUME SteppingOut
      PROVE  /\ chain # <<>> /\ single_step_processor_ # NoStep
             /\ at' = IF GetStackDepth(Running) < Origin.depth THEN "stopped" ELSE "exec"
  <2>1. debugstep /\ single_step_processor_.kind = "out" /\ chain # <<>>
    BY <1>2 DEF SteppingOut, Stepping, OutOK
  <2>2. Processor(Running) <=> GetStackDepth(Running) < Origin.depth
    BY <2>1 DEF Processor, StepOut, GetBreakContext, Origin
  <2> QED
    BY <2>1, <2>2 DEF Hook, NoStep
<1>3. SteppingOut /\ strayed => at' = "stopped"
  BY <1>1, <1>2 DEF OutOK
<1>4. SteppingOut /\ ~strayed /\ Running = Origin.L /\ at' = "exec"
        => Len(frames'[Running]) >= home
  <2> SUFFICES ASSUME SteppingOut, ~strayed, Running = Origin.L, at' = "exec"
               PROVE  Len(frames[Running]) >= home
    BY <1>1
  <2>1. ~ (GetStackDepth(Running) < Origin.depth)
    BY <1>2
  <2> QED
    BY <1>2, <2>1, InFrame
<1> QED
  BY <1>1, <1>3, <1>4, QuietOut

LEMMA StepOutOK == Placed /\ Typed' /\ OutOK /\ [Next]_vars => OutOK'
<1> SUFFICES ASSUME Placed, Typed', OutOK, [Next]_vars PROVE OutOK'
  OBVIOUS
<1> USE DEF Executes
<1>0. IInv /\ Shape
  BY DEF Placed, Typed
<1>1. chain # <<>> => Running \in Threads /\ frames[Running] \in Seq(Frame)
  BY <1>0, ChainIs DEF Shape
<1>2. <<>> \in Seq(Frame)
  OBVIOUS
<1>f. \A f : frames' = [frames EXCEPT ![Running] = f]
               => \A u \in Threads : u # Running => frames'[u] = frames[u]
  BY <1>0 DEF Shape
<1>x. ASSUME at = "exec", at' # "exec", UNCHANGED <<chain, stepper, history>>,
             \A u \in Threads : u # Running => frames'[u] = frames[u]
      PROVE  OutOK'
  <2>1. ~ (SteppingOut /\ strayed)
    BY <1>x DEF OutOK
  <2> QED
    BY <1>x, <2>1, QuietOut
<1>e. ASSUME chain = <<>>, UNCHANGED <<stepper, history>> PROVE OutOK'
  <2>1. ~ SteppingOut
    BY <1>e DEF OutOK
  <2>2. ~ SteppingOut'
    BY <1>e, <2>1 DEF SteppingOut, Stepping, stepper, history
  <2> QED
    BY <2>2 DEF OutOK
<1>d. ASSUME ~debugstep' PROVE OutOK'
  BY <1>d DEF OutOK, SteppingOut, Stepping
<1>3. CASE Host
  BY <1>3, <1>e, <1>d DEF Host, RunFile, Reset
<1>4. CASE Threading
  <2>1. ASSUME NEW t \in Threads, NewThread(t) PROVE OutOK'
    BY <2>1, <1>x DEF NewThread
  <2>2. ASSUME NEW t \in Threads, Collect(t) PROVE OutOK'
    <3>1. \A u \in Threads : status[u] = "active" => frames'[u] = frames[u]
      BY <1>0, <2>2 DEF Collect, Shape
    <3>2. ~ (SteppingOut /\ strayed)
      BY <2>2 DEF Collect, OutOK
    <3>3. SteppingOut /\ ~strayed /\ Running = Origin.L => Len(frames'[Running]) >= home
      <4> SUFFICES ASSUME SteppingOut, ~strayed, Running = Origin.L
                   PROVE  Len(frames'[Running]) >= home
        OBVIOUS
      <4>1. Len(frames[Running]) >= home
        BY <2>2 DEF Collect, OutOK
      <4>2. frames'[Running] = frames[Running]
        BY <1>0, <2>2, <3>1, ChainIs DEF Collect
      <4> QED
        BY <4>1, <4>2
    <3> QED
      BY <2>2, <3>1, <3>2, <3>3, QuietOut DEF Collect
  <2>3. ASSUME NEW t \in Threads, NEW line \in Lines, Resume(t, line) PROVE OutOK'
    BY <2>3, ResumeOut
  <2>4. ASSUME NEW t \in Threads, NEW line \in Lines, Require(t, line) PROVE OutOK'
    <3>1. outside' = (single_step_processor_' # NoStep)
      BY <2>4 DEF Require, stepper
    <3>2. single_step_processor_'.kind = "out" => single_step_processor_' # NoStep
      BY DEF NoStep
    <3>3. SteppingOut' => single_step_processor_'.kind = "out" /\ ~outside'
      BY DEF SteppingOut, Stepping
    <3>4. ~ SteppingOut'
      BY <3>1, <3>2, <3>3
    <3> QED
      BY <3>4 DEF OutOK
  <2>5. CASE Yield
    <3>1. PICK pc \in {"hook", "unwinding"} : Leave("yielded", frames[Running], pc)
      BY <2>5 DEF Yield
    <3> QED
      BY <1>1, <2>5, <3>1, LeaveOut DEF Yield
  <2>6. CASE Finish
    BY <1>2, <2>6, LeaveOut DEF Finish
  <2> QED
    BY <1>4, <2>1, <2>2, <2>3, <2>4, <2>5, <2>6 DEF Threading
<1>5. CASE Program
  <2>1. CASE Unwind
    <3>1. chain # <<>>
      BY <1>0, <2>1 DEF Unwind, IInv, ChainActive
    <3> QED
      BY <1>2, <2>1, <3>1, LeaveOut DEF Unwind
  <2>2. CASE Raise
    BY <2>2, <1>x DEF Raise, program
  <2>3. CASE Catch
    <3>1. \A u \in Threads : u # Running => frames'[u] = frames[u]
      BY <2>3, <1>f DEF Catch
    <3>2. GetStackDepth(Running)' <= GetStackDepth(Running)
          /\ GetStackDepth(Running)' \in Nat /\ GetStackDepth(Running) \in Nat
      BY <2>3, CatchDepth DEF Placed
    <3>3. SteppingOut /\ strayed => GetStackDepth(Running)' < Origin.depth
      <4>1. ASSUME SteppingOut, strayed
            PROVE  GetStackDepth(Running) < Origin.depth /\ Origin.depth \in Nat
        <5>1. single_step_processor_ # NoStep
          BY <4>1 DEF SteppingOut, Stepping, NoStep
        <5> QED
          BY <2>3, <4>1, <5>1
             DEF Catch, OutOK, Placed, Typed, StepperOK, Origin, Step, Context
      <4> QED
        BY <3>2, <4>1
    <3>4. at' = "hook" /\ UNCHANGED <<chain, stepper, history>>
      BY <2>3 DEF Catch
    <3> QED
      BY <3>1, <3>3, <3>4, QuietOut
  <2>4. CASE Return
    BY <2>4, <1>x, <1>f DEF Return
  <2>5. ASSUME NEW line \in Lines, NextLine(line) \/ Call(line) PROVE OutOK'
    BY <2>5, <1>x, <1>f DEF NextLine, Call
  <2> QED
    BY <1>5, <2>1, <2>2, <2>3, <2>4, <2>5 DEF Program
<1>6. CASE Debugger
  <2>1. CASE Hook
    BY <2>1, HookOut
  <2>2. CASE DebugBreak
    BY <2>2, <1>x DEF DebugBreak, program
  <2>3. CASE BreakHere
    BY <2>3, <1>x, <1>f DEF BreakHere
  <2>4. CASE Continue
    BY <2>4, <1>d DEF Continue
  <2>5. ASSUME NEW kind, TakeStep(kind) PROVE OutOK'
    BY <2>5, TakeStepOut
  <2> QED
    BY <1>6, <2>1, <2>2, <2>3, <2>4, <2>5 DEF Debugger
<1>7. CASE UNCHANGED vars
  <2>1. UNCHANGED <<chain, frames, thread_stack_, at, stepper, history>>
    BY <1>7 DEF vars, program, registry
  <2>2. UNCHANGED <<debugstep, single_step_processor_, home, strayed, outside>>
    BY <2>1 DEF stepper, history
  <2>3. Running' = Running /\ Origin' = Origin /\ (SteppingOut' <=> SteppingOut)
    BY <2>1, <2>2 DEF Running, Top, Origin, SteppingOut, Stepping
  <2>4. GetStackDepth(Running)' = GetStackDepth(Running)
    BY <2>1 DEF GetStackDepth, GetAncestors, GetParent, Positions, Running, Top, Calls
  <2> QED
    BY <2>1, <2>2, <2>3, <2>4 DEF OutOK
<1> QED
  BY <1>3, <1>4, <1>5, <1>6, <1>7 DEF Next

LEMMA AlwaysOut == Spec => [](Placed /\ OutOK)
<1>1. Init => OutOK
  BY DEF Init, OutOK, SteppingOut, Stepping
<1>2. Placed /\ OutOK /\ Typed' /\ [Next]_vars => OutOK'
  BY StepOutOK
<1> QED
  BY <1>1, <1>2, AlwaysPlaced, AlwaysTyped, PTL DEF Spec

(* Where only coroutines run, a step out stops at the first instruction    *)
(* after its call was left, and at none before: the depth that the hook    *)
(* computes from thread_stack_ falls below old_ctx.depth_ just then.       *)
THEOREM OutOnLeaving == Spec => StepOutOnLeaving
<1> DEFINE OnLeaving == Hooks("out") /\ ~outside => (Stops <=> Left)
<1>1. Placed /\ OutOK /\ [Next]_vars => [OnLeaving]_vars
  <2> SUFFICES ASSUME Placed, OutOK, Next, Hooks("out"), ~outside PROVE Stops <=> Left
    OBVIOUS
  <2>1. /\ chain # <<>> /\ single_step_processor_ # NoStep
        /\ single_step_processor_.kind = "out" /\ at = "hook"
        /\ Origin.depth \in Nat
        /\ Stops <=> Processor(Running)
    BY HookIs DEF Context, Hooks
  <2>2. SteppingOut
    BY DEF Hooks, SteppingOut
  <2>3. Processor(Running) <=> GetStackDepth(Running) < Origin.depth
    BY <2>1 DEF Processor, StepOut, GetBreakContext, Origin
  <2>4. CASE strayed
    BY <2>1, <2>2, <2>3, <2>4 DEF OutOK, Left
  <2>5. CASE ~strayed /\ Running = Origin.L
    BY <2>1, <2>3, <2>5, InFrame DEF Left
  <2>6. CASE ~strayed /\ Running # Origin.L
    <3>1. /\ GetStackDepth(Running) > Origin.depth
          /\ Len(frames[Origin.L]) >= home + 2 /\ home \in Nat /\ Len(frames[Origin.L]) \in Nat
      BY <2>2, <2>6, WaitingDepth
    <3>2. GetStackDepth(Running) \in Nat
      BY <2>1, DepthOfRunning DEF Placed, Typed, DepthSums
    <3>3. ~ (GetStackDepth(Running) < Origin.depth) /\ ~ (Len(frames[Origin.L]) < home)
      BY <2>1, <3>1, <3>2
    <3>4. ~ Processor(Running)
      BY <2>3, <3>3
    <3>5. ~ Left
      BY <2>6, <3>3 DEF Left
    <3>6. ~ Stops
      BY <2>1, <3>4
    <3> QED
      BY <3>5, <3>6
  <2> QED
    BY <2>4, <2>5, <2>6
<1> QED
  BY <1>1, AlwaysOut, PTL DEF Spec, StepOutOnLeaving

=============================================================================
