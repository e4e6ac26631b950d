--------------------------- MODULE LuaStack_proofs ---------------------------
(***************************************************************************)
(* Proofs about LuaStack, for frames of any size, any names and any number *)
(* of results.                                                             *)
(***************************************************************************)
EXTENDS LuaStack, FiniteSetTheorems, WellFoundedInduction, TLAPS

USE SizesAssumption, NamesAssumption DEF Regs, Ups

-----------------------------------------------------------------------------
(* The first and the last variable of a name.                              *)

Less == {p \in Nat \X Nat : p[1] < p[2]}

(* A set of natural numbers has a smallest one.                            *)
LEMMA Smallest ==
  ASSUME NEW T, T \subseteq Nat, T # {}
  PROVE  \E x \in T : \A y \in T : x <= y
<1>1. OpToRel(<, Nat) = Less
  BY DEF OpToRel, Less
<1>2. IsWellFoundedOn(Less, Nat)
  BY <1>1, NatLessThanWellFounded
<1>3. PICK x \in T : \A y \in T : ~ (<<y, x>> \in Less)
  BY <1>2, WFMin
<1>4. \A y \in T : ~ (y < x)
  <2> TAKE y \in T
  <2>1. y < x => <<y, x>> \in Less
    BY DEF Less
  <2> QED BY <2>1, <1>3
<1> QED BY <1>4

(* Of some numbers up to N there is a first and a last.                    *)
LEMMA FirstAndLast ==
  ASSUME NEW N \in Nat, NEW s \in SUBSET (1 .. N), s # {}
  PROVE  FirstOf(s) \in s /\ LastOf(s) \in s
<1>1. \E i \in s : \A k \in s : i <= k
  <2>1. s \subseteq Nat
    OBVIOUS
  <2> QED BY <2>1, Smallest
<1>2. \E i \in s : \A k \in s : k <= i
  <2> DEFINE below == {N - i : i \in s}
  <2>1. below \subseteq Nat
    OBVIOUS
  <2>0. below # {}
    <3>1. PICK i \in s : TRUE
      OBVIOUS
    <3>2. N - i \in below
      OBVIOUS
    <3> QED BY <3>2
  <2>2. PICK x \in below : \A y \in below : x <= y
    BY <2>0, <2>1, Smallest
  <2>3. PICK i \in s : x = N - i
    BY <2>2
  <2>4. \A k \in s : N - i <= N - k
    BY <2>2, <2>3
  <2> QED BY <2>4
<1> QED BY <1>1, <1>2 DEF FirstOf, LastOf

(* A unique name is that of one local or of one upvalue.                   *)
LEMMA UniqueName ==
  ASSUME NEW n, Unique(n)
  PROVE  /\ \A i \in LocalsOf(n) : LocalsOf(n) = {i} /\ UpvaluesOf(n) = {}
         /\ \A j \in UpvaluesOf(n) : UpvaluesOf(n) = {j} /\ LocalsOf(n) = {}
<1>1. IsFiniteSet(1 .. Registers) /\ IsFiniteSet(1 .. Upvalues)
  BY FS_Interval
<1>2. IsFiniteSet(LocalsOf(n)) /\ IsFiniteSet(UpvaluesOf(n))
  BY <1>1, FS_Subset DEF LocalsOf, UpvaluesOf
<1>3. /\ Cardinality(LocalsOf(n)) \in Nat /\ Cardinality(UpvaluesOf(n)) \in Nat
      /\ Cardinality(LocalsOf(n)) = 0 <=> LocalsOf(n) = {}
      /\ Cardinality(UpvaluesOf(n)) = 0 <=> UpvaluesOf(n) = {}
      /\ Cardinality(LocalsOf(n)) = 1 <=> \E x : LocalsOf(n) = {x}
      /\ Cardinality(UpvaluesOf(n)) = 1 <=> \E x : UpvaluesOf(n) = {x}
  BY <1>2, FS_CardinalityType, FS_EmptySet, FS_Singleton
<1>4. \/ Cardinality(LocalsOf(n)) = 1 /\ Cardinality(UpvaluesOf(n)) = 0
      \/ Cardinality(LocalsOf(n)) = 0 /\ Cardinality(UpvaluesOf(n)) = 1
  BY <1>3 DEF Unique
<1> QED BY <1>3, <1>4

-----------------------------------------------------------------------------
(* The helpers on the stack: their type, what they do to the top, and that *)
(* nothing pushed above the registers changes one.                         *)

Stacks == [reg : [Regs -> Values \cup {Other}], top : Int]

(* T is S with n more values, and the registers are those of S unless the  *)
(* top was below them.                                                     *)
Raises(S, T, n) ==
  /\ T \in Stacks
  /\ T.top = S.top + n
  /\ S.top >= Registers => T.reg = S.reg

LEMMA PushRaises ==
  ASSUME NEW S \in Stacks, NEW n \in Nat
  PROVE  Raises(S, Push(S, n), n)
BY DEF Stacks, Push, Raises

LEMMA PopRaises ==
  ASSUME NEW S \in Stacks, NEW n \in Nat
  PROVE  Raises(S, Pop(S, n), - n)
BY DEF Stacks, Pop, Raises

LEMMA UseRaises ==
  ASSUME NEW S \in Stacks, NEW n \in Nat
  PROVE  Raises(S, Use(S, n), 0)
<1>1. Raises(S, Push(S, n), n)
  BY PushRaises
<1>2. Raises(Push(S, n), Use(S, n), -n)
  BY <1>1, PopRaises DEF Raises, Use
<1> QED BY <1>1, <1>2 DEF Raises, Stacks

(* A guard brings the top back.                                            *)
LEMMA GuardRaises ==
  ASSUME NEW S \in Stacks, NEW T, NEW k, Raises(S, T, k)
  PROVE  Raises(S, Guarded(S, T), 0)
<1>1. T \in Stacks /\ (S.top >= Registers => T.reg = S.reg)
  BY DEF Raises
<1>2. /\ Guarded(S, T) \in Stacks
      /\ Guarded(S, T).top = S.top /\ Guarded(S, T).reg = T.reg
  BY <1>1 DEF Guarded, Stacks
<1> QED BY <1>1, <1>2 DEF Raises, Stacks

LEMMA FetchRaises ==
  ASSUME NEW S \in Stacks
  PROVE  Raises(S, Fetch(S), 0)
<1>1. Raises(S, Push(S, 4), 4)
  BY PushRaises
<1> QED BY <1>1, GuardRaises DEF Fetch

LEMMA Chain ==
  ASSUME NEW S \in Stacks, NEW T, NEW U, NEW j \in Int, NEW k \in Int, j >= 0,
         Raises(S, T, j), Raises(T, U, k)
  PROVE  Raises(S, U, j + k)
BY DEF Raises, Stacks

LEMMA BreakEnvRaises ==
  ASSUME NEW S \in Stacks
  PROVE  Raises(S, PushBreakEnv(S), 1)
<1>1. Raises(S, Push(S, 2), 2)
  BY PushRaises
<1>2. Raises(Push(S, 2), Use(Push(S, 2), 4), 0)
  BY <1>1, UseRaises DEF Raises
<1>3. Raises(Use(Push(S, 2), 4), PushBreakEnv(S), -1)
  BY <1>2, PopRaises DEF Raises, PushBreakEnv
<1> QED BY <1>1, <1>2, <1>3 DEF Raises, Stacks

LEMMA EvalRaises ==
  ASSUME NEW S \in Stacks, NEW outcome \in Outcomes, NEW n \in Nat
  PROVE  Raises(S, Eval(S, outcome, n), IF outcome = "value" THEN n ELSE 1)
<1>1. Raises(S, Use(S, 2), 0)
  BY UseRaises
<1>2. \A k \in Nat : Raises(Use(S, 2), Push(Use(S, 2), k), k)
  BY <1>1, PushRaises DEF Raises
<1>3. \A k \in Nat : Raises(S, Push(Use(S, 2), k), k)
  BY <1>1, <1>2 DEF Raises, Stacks
<1>4. Raises(S, Push(S, 1), 1)
  BY PushRaises
<1> QED BY <1>3, <1>4 DEF Eval, Outcomes

(* evalWithEnv, setValue and hit start with an environment and an          *)
(* evaluation in it.                                                       *)
LEMMA EvaluatedRaises ==
  ASSUME NEW S \in Stacks, NEW outcome \in Outcomes, NEW n \in Nat
  PROVE  Raises(S, Eval(PushBreakEnv(S), outcome, n),
                1 + IF outcome = "value" THEN n ELSE 1)
<1>1. PushBreakEnv(S) \in Stacks
  BY BreakEnvRaises DEF Raises
<1>2. Raises(PushBreakEnv(S), Eval(PushBreakEnv(S), outcome, n),
             IF outcome = "value" THEN n ELSE 1)
  BY <1>1, EvalRaises
<1>3. Raises(S, PushBreakEnv(S), 1)
  BY BreakEnvRaises
<1>4. ASSUME NEW A \in Stacks, NEW B, NEW k \in Int, Raises(S, A, 1), Raises(A, B, k)
      PROVE  Raises(S, B, 1 + k)
  BY <1>4 DEF Raises, Stacks
<1>5. (IF outcome = "value" THEN n ELSE 1) \in Int
  OBVIOUS
<1> QED BY <1>1, <1>2, <1>3, <1>4, <1>5

LEMMA NewValueRaises ==
  ASSUME L \in Stacks, NEW n \in Nat, n >= 1
  PROVE  Raises(L, NewValue(n), 2)
<1>1. Raises(L, Eval(PushBreakEnv(L), "value", n), 1 + n)
  BY EvaluatedRaises DEF Outcomes
<1>2. n - 1 \in Nat
  OBVIOUS
<1>3. Raises(Eval(PushBreakEnv(L), "value", n), NewValue(n), -(n - 1))
  BY <1>1, <1>2, PopRaises DEF Raises, NewValue
<1> QED BY <1>1, <1>3 DEF Raises, Stacks

-----------------------------------------------------------------------------
(* Type correctness, and the top.                                          *)

(* The stack between two requests.                                         *)
LEMMA StackType == TypeOK <=> TypeOK /\ L \in Stacks /\ L.top \in 0 .. MaxTop
BY DEF TypeOK, Stacks

(* A breakpoint leaves the stack as it was.                                *)
LEMMA HitRaises ==
  ASSUME TypeOK, NEW outcome \in Outcomes, NEW n \in Nat
  PROVE  Raises(L, Guarded(L, Eval(PushBreakEnv(L), outcome, n)), 0)
<1>1. L \in Stacks
  BY StackType
<1>2. PICK k \in Int : Raises(L, Eval(PushBreakEnv(L), outcome, n), k)
  <2>1. (1 + IF outcome = "value" THEN n ELSE 1) \in Int
    OBVIOUS
  <2> QED BY <1>1, <2>1, EvaluatedRaises
<1> QED BY <1>1, <1>2, GuardRaises

(* A request that assigns no field or local.                               *)
LEMMA EvaluateRaises ==
  ASSUME TypeOK, NEW name \in Names, NEW outcome \in Outcomes, NEW n \in Nat,
         NEW context, Evaluate(name, outcome, n, context)
  PROVE  Raises(L, L', 0)
<1> DEFINE done == Eval(PushBreakEnv(L), outcome, n)
           left == IF outcome = "value" THEN Pop(Pop(done, n), 1) ELSE Pop(done, 2)
<1>1. L \in Stacks
  BY StackType
<1>2. CASE outcome = "value"
  <2>1. Raises(L, done, 1 + n)
    BY <1>1, <1>2, EvaluatedRaises
  <2>2. Raises(done, Pop(done, n), -n)
    BY <2>1, PopRaises DEF Raises
  <2>3. Raises(Pop(done, n), Pop(Pop(done, n), 1), -1)
    BY <2>2, PopRaises DEF Raises
  <2>4. Raises(L, left, 0)
    <3>1. left = Pop(Pop(done, n), 1)
      BY <1>2
    <3> HIDE DEF done, left
    <3>2. Raises(L, Pop(done, n), (1 + n) + (-n))
      BY <1>1, <2>1, <2>2, Chain
    <3>3. (1 + n) + (-n) = 1
      OBVIOUS
    <3>4. Raises(L, left, 1 + (-1))
      BY <1>1, <3>1, <3>2, <3>3, <2>3, Chain
    <3>5. 1 + (-1) = 0
      OBVIOUS
    <3> QED BY <3>4, <3>5
  <2>5. Raises(left, Fetch(left), 0)
    BY <2>4, FetchRaises DEF Raises
  <2>6. L' = left \/ L' = Fetch(left)
    BY DEF Evaluate
  <2> HIDE DEF left
  <2> QED BY <1>1, <2>4, <2>5, <2>6 DEF Raises, Stacks
<1>3. CASE outcome # "value"
  <2>1. Raises(L, done, 2)
    BY <1>1, <1>3, EvaluatedRaises
  <2>2. Raises(done, Pop(done, 2), -2)
    BY <2>1, PopRaises DEF Raises
  <2>3. L' = Pop(done, 2)
    BY <1>3 DEF Evaluate
  <2> HIDE DEF done
  <2> QED BY <1>1, <2>1, <2>2, <2>3 DEF Raises, Stacks
<1> QED BY <1>2, <1>3

LEMMA SetNothingRaises ==
  ASSUME TypeOK, NEW outcome \in Outcomes, SetNothing(outcome)
  PROVE  Raises(L, L', 0)
<1> DEFINE done == Eval(PushBreakEnv(L), outcome, 0)
<1>1. L \in Stacks
  BY StackType
<1>2. CASE outcome = "value"
  <2>1. Raises(L, done, 1)
    BY <1>1, <1>2, EvaluatedRaises
  <2>2. Raises(done, Pop(done, 1), -1)
    BY <2>1, PopRaises DEF Raises
  <2>3. Raises(Pop(done, 1), L', 0)
    BY <1>2, <2>2, FetchRaises DEF Raises, SetNothing
  <2> HIDE DEF done
  <2> QED BY <1>1, <2>1, <2>2, <2>3 DEF Raises, Stacks
<1>3. CASE outcome # "value"
  <2>1. Raises(L, done, 2)
    BY <1>1, <1>3, EvaluatedRaises
  <2>2. Raises(done, L', -2)
    BY <1>3, <2>1, PopRaises DEF Raises, SetNothing
  <2> HIDE DEF done
  <2> QED BY <1>1, <2>1, <2>2 DEF Raises, Stacks
<1> QED BY <1>2, <1>3

LEMMA SetUpvalueRaises ==
  ASSUME TypeOK, NEW j \in Ups, NEW v \in Values, NEW n \in 1 .. MaxResults,
         SetUpvalueVariable(j, v, n)
  PROVE  Raises(L, L', 0)
<1>1. L \in Stacks /\ Raises(L, NewValue(n), 2)
  BY StackType, NewValueRaises
<1>2. Raises(NewValue(n), Use(NewValue(n), 3), 0)
  BY <1>1, UseRaises DEF Raises
<1>3. Raises(Use(NewValue(n), 3), Pop(Use(NewValue(n), 3), 2), -2)
  BY <1>2, PopRaises DEF Raises
<1>4. Raises(Pop(Use(NewValue(n), 3), 2), L', 0)
  BY <1>3, FetchRaises DEF Raises, SetUpvalueVariable
<1> QED BY <1>1, <1>2, <1>3, <1>4 DEF Raises, Stacks

(* Of a local, the first register of its name is assigned.                 *)
LEMMA SetLocalEffect ==
  ASSUME TypeOK, NEW i \in Regs, NEW v \in Values, NEW n \in 1 .. MaxResults,
         SetLocalVariable(i, v, n)
  PROVE  /\ L' \in Stacks /\ L'.top = L.top
         /\ L.top >= Registers =>
              \A k \in Regs : L'.reg[k] =
                 IF k = FirstOf(LocalsOf(LocalName[i])) THEN v ELSE L.reg[k]
<1> DEFINE f == FirstOf(LocalsOf(LocalName[i]))
           T == Use(NewValue(n), 2)
           W == [T EXCEPT !.reg[f] = v]
<1>1. L \in Stacks /\ Raises(L, NewValue(n), 2)
  BY StackType, NewValueRaises
<1>2. Raises(NewValue(n), T, 0)
  BY <1>1, UseRaises DEF Raises
<1>3. /\ W \in Stacks /\ W.top = T.top
      /\ \A k \in Regs : W.reg[k] = IF k = f THEN v ELSE T.reg[k]
  <2>1. T \in Stacks
    BY <1>2 DEF Raises
  <2> HIDE DEF T, f
  <2> QED BY <2>1 DEF Stacks
<1>4. L' = Fetch(Pop(W, 2))
  BY DEF SetLocalVariable, SetLocal
<1> HIDE DEF W, T, f
<1>5. Raises(W, Pop(W, 2), -2)
  BY <1>3, PopRaises
<1>6. Raises(Pop(W, 2), L', 0)
  BY <1>4, <1>5, FetchRaises DEF Raises
<1>7. /\ T.top = L.top + 2 /\ L' \in Stacks /\ L'.top = L.top
      /\ L.top >= Registers => T.reg = L.reg /\ L'.reg = W.reg
  BY <1>1, <1>2, <1>3, <1>5, <1>6 DEF Raises, Stacks
<1> QED BY <1>3, <1>7 DEF f

(* An assignment to a field lowers the top by two; one that fails raises   *)
(* it by six.                                                              *)
LEMMA SetFieldEffect ==
  ASSUME TypeOK, NEW n \in 1 .. MaxResults, SetField(n)
  PROVE  L' \in Stacks /\ L'.top = L.top - 2
<1> DEFINE A == NewValue(n)
<1>1. L \in Stacks /\ Raises(L, A, 2)
  BY StackType, NewValueRaises
<1>2. L' = Fetch(Pop(Pop(Pop(Push(A, 3), 2), 3), 2))
  BY DEF SetField
<1> HIDE DEF A
<1>3. Raises(A, Push(A, 3), 3)
  BY <1>1, PushRaises DEF Raises
<1> DEFINE B == Push(A, 3)
<1>4. B \in Stacks /\ B.top = L.top + 5
  BY <1>1, <1>3 DEF Raises, Stacks
<1> HIDE DEF B
<1>5. /\ Pop(Pop(Pop(B, 2), 3), 2) \in Stacks
      /\ Pop(Pop(Pop(B, 2), 3), 2).top = B.top - 7
  <2>1. Raises(B, Pop(B, 2), -2)
    BY <1>4, PopRaises
  <2>2. Raises(Pop(B, 2), Pop(Pop(B, 2), 3), -3)
    BY <2>1, PopRaises DEF Raises
  <2>3. Raises(Pop(Pop(B, 2), 3), Pop(Pop(Pop(B, 2), 3), 2), -2)
    BY <2>2, PopRaises DEF Raises
  <2> QED BY <1>4, <2>1, <2>2, <2>3 DEF Raises, Stacks
<1>6. Raises(Pop(Pop(Pop(B, 2), 3), 2), L', 0)
  BY <1>2, <1>5, FetchRaises DEF B
<1> QED BY <1>1, <1>4, <1>5, <1>6 DEF Raises, Stacks

LEMMA SetFieldFailsRaises ==
  ASSUME TypeOK, NEW n \in 1 .. MaxResults, SetFieldFails(n)
  PROVE  Raises(L, L', 6)
<1>1. L \in Stacks /\ Raises(L, NewValue(n), 2)
  BY StackType, NewValueRaises
<1>2. Raises(NewValue(n), Push(NewValue(n), 3), 3)
  BY <1>1, PushRaises DEF Raises
<1>3. Raises(Push(NewValue(n), 3), L', 1)
  BY <1>2, PushRaises DEF Raises, SetFieldFails
<1> QED BY <1>1, <1>2, <1>3 DEF Raises, Stacks

LEMMA SetGlobalRaises ==
  ASSUME TypeOK, NEW n \in 1 .. MaxResults, SetGlobal(n)
  PROVE  Raises(L, L', 0)
<1>1. L \in Stacks /\ Raises(L, NewValue(n), 2)
  BY StackType, NewValueRaises
<1>2. Raises(NewValue(n), L', -2)
  BY <1>1, PopRaises DEF Raises, SetGlobal
<1> QED BY <1>1, <1>2 DEF Raises, Stacks

LEMMA LoadRaises ==
  ASSUME TypeOK, LoadFields \/ EvaluateNowhere
  PROVE  Raises(L, L', 0)
<1>1. L \in Stacks
  BY StackType
<1>2. Raises(L, Push(L, 8), 8) /\ Raises(L, Use(L, 1), 0)
  BY <1>1, PushRaises, UseRaises
<1> QED BY <1>1, <1>2, GuardRaises DEF LoadFields, EvaluateNowhere, PushBreakEnvFails

-----------------------------------------------------------------------------
(* What each step does to the stack, the variables and the history, in a   *)
(* few cases.                                                              *)

(* A request that keeps the stack, and the program's own steps.            *)
Keeps ==
  \/ \E outcome \in Outcomes, n \in 0 .. MaxResults :
       HitBreakPoint(outcome, n)
         \/ \E name \in Names, context \in {"repl", "watch"} :
              Evaluate(name, outcome, n, context)
  \/ StopPlainly \/ EvaluateNowhere \/ LoadFields
  \/ \E outcome \in Outcomes : SetNothing(outcome)
  \/ \E n \in 1 .. MaxResults : SetGlobal(n)

LEMMA StopRaises ==
  ASSUME TypeOK, NEW in, NEW S, Stop(in, S), Raises(L, S, 0)
  PROVE  Raises(L, L', 0)
<1>1. Raises(S, L', 0)
  BY FetchRaises DEF Stop, Raises
<1> QED BY <1>1, StackType, Chain

LEMMA KeepsEffect ==
  ASSUME TypeOK, Keeps
  PROVE  /\ Raises(L, L', 0)
         /\ entry' \in {entry, L.top}
         /\ stopped' \in {No, "hook", "interrupt"}
         /\ UNCHANGED <<upvalue, meant, shrunk, raised>>
<1>1. ASSUME NEW outcome \in Outcomes, NEW n \in 0 .. MaxResults, HitBreakPoint(outcome, n)
      PROVE  Raises(L, L', 0)
  <2> DEFINE S == Guarded(L, Eval(PushBreakEnv(L), outcome, n))
  <2>1. Raises(L, S, 0)
    BY HitRaises
  <2>2. Stop("hook", S) \/ L' = S
    BY <1>1 DEF HitBreakPoint
  <2> HIDE DEF S
  <2> QED BY <2>1, <2>2, StopRaises
<1>2. StopPlainly => Raises(L, L', 0)
  <2>1. L \in Stacks
    BY StackType
  <2>2. Raises(L, L, 0)
    BY <2>1 DEF Raises, Stacks
  <2> QED BY <2>2, StopRaises DEF StopPlainly
<1>3. Raises(L, L', 0)
  <2>1. \A n \in 0 .. MaxResults : n \in Nat
    OBVIOUS
  <2> QED BY <1>1, <1>2, <2>1, EvaluateRaises, SetNothingRaises, SetGlobalRaises,
             LoadRaises DEF Keeps
<1>4. /\ entry' \in {entry, L.top}
      /\ stopped' \in {No, "hook", "interrupt"}
      /\ UNCHANGED <<upvalue, meant, shrunk, raised>>
  BY DEF Keeps, HitBreakPoint, Evaluate, StopPlainly, Stop, EvaluateNowhere, LoadFields,
         SetNothing, SetGlobal, TypeOK
<1> QED BY <1>3, <1>4

(* The next-state relation in these cases.                                 *)
LEMMA NextCases ==
  ASSUME Next
  PROVE  \/ Keeps \/ Execute \/ Resume
         \/ \E n \in 1 .. MaxResults, v \in Values :
              \/ \E i \in Regs : SetLocalVariable(i, v, n)
              \/ \E j \in Ups : SetUpvalueVariable(j, v, n)
         \/ \E n \in 1 .. MaxResults : SetField(n) \/ SetFieldFails(n)
BY DEF Next, Keeps, SetVariable

-----------------------------------------------------------------------------
(* Type correctness.                                                       *)

LEMMA TypeInit == Init => TypeOK
<1> SUFFICES ASSUME Init PROVE TypeOK
  OBVIOUS
<1>1. /\ L \in [reg : [Regs -> Values \cup {Other}], top : 0 .. MaxTop]
      /\ L.reg \in [Regs -> Values] /\ upvalue \in [Ups -> Values]
  BY DEF Init
<1>2. meant \in [reg : [Regs -> Values \cup {Other}], up : [Ups -> Values]]
  BY <1>1 DEF Init, Program
<1>3. answer \in [name : Names \cup {None}, value : Values \cup {Other, None}]
  BY DEF Init, NoAnswer
<1>4. shrunk \in BOOLEAN /\ raised \in BOOLEAN
  BY DEF Init
<1> QED BY <1>1, <1>2, <1>3, <1>4 DEF Init, TypeOK, No

(* A name in the environment has a value of the stack, or none.            *)
LEMMA EnvType ==
  ASSUME TypeOK, NEW name \in Names
  PROVE  EnvOf(PushBreakEnv(L), name) \in Values \cup {Other, None}
<1>1. PushBreakEnv(L) \in Stacks
  BY StackType, BreakEnvRaises DEF Raises
<1>2. UpvaluesOf(name) \in SUBSET (1 .. Upvalues) /\ LocalsOf(name) \in SUBSET (1 .. Registers)
  BY DEF UpvaluesOf, LocalsOf
<1>3. /\ UpvaluesOf(name) # {} => LastOf(UpvaluesOf(name)) \in Ups
      /\ LocalsOf(name) # {} => LastOf(LocalsOf(name)) \in Regs
  BY <1>2, FirstAndLast
<1> QED BY <1>1, <1>3 DEF EnvOf, TypeOK, Stacks

(* The answer has its type.                                                *)
LEMMA AnswerType ==
  ASSUME TypeOK, Next
  PROVE  answer' \in [name : Names \cup {None}, value : Values \cup {Other, None}]
<1>1. ASSUME NEW name \in Names, NEW outcome, NEW n, NEW context,
             Evaluate(name, outcome, n, context)
      PROVE  answer' \in [name : Names \cup {None}, value : Values \cup {Other, None}]
  BY <1>1, EnvType DEF Evaluate, NoAnswer
<1>2. (\A name \in Names : \A outcome, n, context : ~Evaluate(name, outcome, n, context))
        => answer' \in {answer, NoAnswer}
  BY DEF Next, Execute, StopPlainly, Stop, HitBreakPoint, Resume, EvaluateNowhere,
         LoadFields, SetVariable, SetNothing, SetLocalVariable, SetUpvalueVariable,
         SetField, SetFieldFails, SetGlobal
<1> QED BY <1>1, <1>2 DEF TypeOK, NoAnswer

LEMMA TypeStep == TypeOK /\ [Next]_vars => TypeOK'
<1> SUFFICES ASSUME TypeOK, Next PROVE TypeOK'
  BY DEF vars, TypeOK
<1>0. L \in Stacks /\ L.top \in 0 .. MaxTop
  BY StackType
<1>a. answer' \in [name : Names \cup {None}, value : Values \cup {Other, None}]
  BY AnswerType
<1>b. ASSUME L' \in Stacks, L'.top \in 0 .. MaxTop
      PROVE  L' \in [reg : [Regs -> Values \cup {Other}], top : 0 .. MaxTop]
  BY <1>b DEF Stacks
<1>1. CASE Keeps
  <2>1. L' \in Stacks /\ L'.top \in 0 .. MaxTop
    BY <1>0, <1>1, KeepsEffect DEF Raises, Stacks
  <2> QED BY <1>0, <1>1, <1>a, <1>b, <2>1, KeepsEffect DEF TypeOK
<1>2. CASE Execute
  <2>1. L' \in Stacks /\ L'.top = L.top
    <3>1. PICK v \in Values : L' = L \/ \E i \in Regs : L' = [L EXCEPT !.reg[i] = v]
      BY <1>2 DEF Execute
    <3>2. ASSUME NEW i \in Regs, L' = [L EXCEPT !.reg[i] = v]
          PROVE  L' \in Stacks /\ L'.top = L.top
      BY <1>0, <3>2 DEF Stacks
    <3> QED BY <1>0, <3>1, <3>2
  <2>2. upvalue' \in [Ups -> Values]
    BY <1>2 DEF Execute, TypeOK
  <2> QED BY <1>0, <1>2, <1>a, <1>b, <2>1, <2>2 DEF Execute, TypeOK, Stacks
<1>3. CASE Resume
  <2>1. L' \in Stacks /\ L'.top \in 0 .. MaxTop
    BY <1>0, <1>3 DEF Resume, Stacks, TypeOK
  <2>2. shrunk' \in BOOLEAN /\ raised' \in BOOLEAN
    BY <1>3 DEF Resume, TypeOK
  <2> QED BY <1>3, <1>a, <1>b, <2>1, <2>2 DEF Resume, TypeOK, Program, No
<1>4. ASSUME NEW n \in 1 .. MaxResults, NEW v \in Values, NEW i \in Regs,
             SetLocalVariable(i, v, n)
      PROVE  TypeOK'
  <2>1. L' \in Stacks /\ L'.top \in 0 .. MaxTop
    BY <1>0, <1>4, SetLocalEffect
  <2> QED BY <1>4, <1>a, <1>b, <2>1 DEF SetLocalVariable, TypeOK
<1>5. ASSUME NEW n \in 1 .. MaxResults, NEW v \in Values, NEW j \in Ups,
             SetUpvalueVariable(j, v, n)
      PROVE  TypeOK'
  <2>1. L' \in Stacks /\ L'.top \in 0 .. MaxTop
    BY <1>0, <1>5, SetUpvalueRaises DEF Raises, Stacks
  <2> QED BY <1>5, <1>a, <1>b, <2>1 DEF SetUpvalueVariable, TypeOK
<1>6. ASSUME NEW n \in 1 .. MaxResults, SetField(n) PROVE TypeOK'
  <2>1. L' \in Stacks /\ L'.top \in 0 .. MaxTop
    BY <1>0, <1>6, SetFieldEffect DEF SetField
  <2> QED BY <1>6, <1>a, <1>b, <2>1 DEF SetField, TypeOK
<1>7. ASSUME NEW n \in 1 .. MaxResults, SetFieldFails(n) PROVE TypeOK'
  <2>1. L' \in Stacks /\ L'.top \in 0 .. MaxTop
    BY <1>0, <1>7, SetFieldFailsRaises DEF SetFieldFails, Raises, Stacks
  <2> QED BY <1>7, <1>a, <1>b, <2>1 DEF SetFieldFails, TypeOK
<1> QED BY <1>1, <1>2, <1>3, <1>4, <1>5, <1>6, <1>7, NextCases

(* The type invariant of the Lua stack: its top never leaves the frame,    *)
(* whatever is evaluated and assigned, as long as a field is assigned only *)
(* with two cells below the top.                                           *)
THEOREM TypeCorrect == Spec => []TypeOK
  BY TypeInit, TypeStep, PTL DEF Spec

-----------------------------------------------------------------------------
(* What the variables hold.                                                *)

LEMMA TopsStep == TypeOK /\ Tops /\ [Next]_vars => Tops'
<1> SUFFICES ASSUME TypeOK, Tops, Next PROVE Tops'
  BY DEF vars, Tops
<1>0. L \in Stacks /\ entry \in Int
  BY StackType DEF TypeOK
<1>a. stopped' = No => answer' = NoAnswer
  BY DEF Tops, Next, Execute, StopPlainly, Stop, HitBreakPoint, Resume, EvaluateNowhere,
         LoadFields, SetVariable, SetNothing, SetLocalVariable, SetUpvalueVariable,
         SetField, SetFieldFails, SetGlobal, Evaluate, No
<1>1. CASE Keeps
  BY <1>0, <1>1, <1>a, KeepsEffect DEF Raises, Stacks, Tops
<1>2. CASE Execute
  <2>1. L'.top = L.top
    <3>1. PICK v \in Values : L' = L \/ \E i \in Regs : L' = [L EXCEPT !.reg[i] = v]
      BY <1>2 DEF Execute
    <3> QED BY <1>0, <3>1 DEF Stacks
  <2> QED BY <1>2, <1>a, <2>1 DEF Execute, Tops
<1>3. CASE Resume
  <2>1. CASE stopped = "hook"
    <3>1. L'.top = entry /\ entry' = entry
      BY <1>0, <1>3, <2>1 DEF Resume, Stacks
    <3>2. ~shrunk' => ~shrunk \/ ~(entry < Registers)
      BY <1>3, <2>1 DEF Resume
    <3>3. ~raised' => ~raised \/ entry = Registers
      BY <1>3, <2>1 DEF Resume
    <3>4. ~shrunk' => entry >= Registers
      BY <1>0, <3>2 DEF Tops
    <3>5. ~raised' => entry <= Registers
      BY <1>0, <3>3 DEF Tops
    <3> QED BY <1>a, <3>1, <3>4, <3>5 DEF Tops
  <2>2. CASE stopped # "hook"
    BY <1>3, <1>a, <2>2 DEF Resume, Tops
  <2> QED BY <2>1, <2>2
<1>4. ASSUME NEW n \in 1 .. MaxResults, NEW v \in Values, NEW i \in Regs,
             SetLocalVariable(i, v, n)
      PROVE  Tops'
  BY <1>4, <1>a, SetLocalEffect DEF SetLocalVariable, Tops
<1>5. ASSUME NEW n \in 1 .. MaxResults, NEW v \in Values, NEW j \in Ups,
             SetUpvalueVariable(j, v, n)
      PROVE  Tops'
  <2>1. L'.top = L.top
    BY <1>0, <1>5, SetUpvalueRaises DEF Raises, Stacks
  <2> QED BY <1>5, <1>a, <2>1 DEF SetUpvalueVariable, Tops
<1>6. ASSUME NEW n \in 1 .. MaxResults, SetField(n) PROVE Tops'
  BY <1>0, <1>6, <1>a, SetFieldEffect DEF SetField, Tops, Stacks
<1>7. ASSUME NEW n \in 1 .. MaxResults, SetFieldFails(n) PROVE Tops'
  BY <1>0, <1>7, <1>a, SetFieldFailsRaises DEF SetFieldFails, Tops, Raises, Stacks
<1> QED BY <1>1, <1>2, <1>3, <1>4, <1>5, <1>6, <1>7, NextCases

(* The first local of a unique name is the one that was meant.             *)
LEMMA LocalMeant ==
  ASSUME NEW i \in Regs, LocalName[i] # None
  PROVE  LET f == FirstOf(LocalsOf(LocalName[i]))
         IN  /\ f \in Regs /\ LocalName[f] = LocalName[i]
             /\ Unique(LocalName[i]) => f = i
<1>1. i \in LocalsOf(LocalName[i]) /\ LocalsOf(LocalName[i]) \in SUBSET (1 .. Registers)
  BY DEF LocalsOf
<1>2. FirstOf(LocalsOf(LocalName[i])) \in LocalsOf(LocalName[i])
  BY <1>1, FirstAndLast
<1>3. Unique(LocalName[i]) => LocalsOf(LocalName[i]) = {i}
  BY <1>1, UniqueName
<1> QED BY <1>2, <1>3 DEF LocalsOf

LEMMA UpvalueMeant ==
  ASSUME NEW j \in Ups
  PROVE  LET f == FirstOf(UpvaluesOf(UpvalueName[j]))
         IN  /\ f \in Ups /\ UpvalueName[f] = UpvalueName[j]
             /\ Unique(UpvalueName[j]) => f = j
<1>1. /\ j \in UpvaluesOf(UpvalueName[j])
      /\ UpvaluesOf(UpvalueName[j]) \in SUBSET (1 .. Upvalues)
  BY DEF UpvaluesOf
<1>2. FirstOf(UpvaluesOf(UpvalueName[j])) \in UpvaluesOf(UpvalueName[j])
  BY <1>1, FirstAndLast
<1>3. Unique(UpvalueName[j]) => UpvaluesOf(UpvalueName[j]) = {j}
  BY <1>1, UniqueName
<1> QED BY <1>2, <1>3 DEF UpvaluesOf

(* The registers and the upvalues of unique names hold what was meant.     *)
Held == /\ \A i \in Regs : LocalName[i] = None \/ Unique(LocalName[i]) =>
             L.reg[i] = meant.reg[i]
        /\ \A j \in Ups : Unique(UpvalueName[j]) => upvalue[j] = meant.up[j]

LEMMA HeldStep ==
  ASSUME TypeOK, Tops, ~shrunk => Held, Next, ~shrunk'
  PROVE  Held'
<1>0. L \in Stacks
  BY StackType
<1>1. CASE Keeps
  BY <1>1, KeepsEffect DEF Raises, Tops, Held
<1>2. CASE Execute
  BY <1>2 DEF Execute, Held
<1>3. CASE Resume
  <2>1. L'.reg = L.reg
    BY <1>0, <1>3 DEF Resume, Stacks
  <2> QED BY <1>3, <2>1 DEF Resume, Program, Held
<1>4. ASSUME NEW n \in 1 .. MaxResults, NEW v \in Values, NEW i \in Regs,
             SetLocalVariable(i, v, n)
      PROVE  Held'
  <2> DEFINE f == FirstOf(LocalsOf(LocalName[i]))
  <2>1. /\ ~shrunk /\ L.top >= Registers /\ LocalName[i] # None
        /\ meant' = [meant EXCEPT !.reg[i] = v] /\ upvalue' = upvalue
    BY <1>4 DEF SetLocalVariable, Tops
  <2>2. /\ \A k \in Regs : meant'.reg[k] = IF k = i THEN v ELSE meant.reg[k]
        /\ meant'.up = meant.up
    BY <2>1 DEF TypeOK
  <2>3. \A k \in Regs : L'.reg[k] = IF k = f THEN v ELSE L.reg[k]
    BY <1>4, <2>1, SetLocalEffect
  <2>4. f \in Regs /\ LocalName[f] = LocalName[i] /\ (Unique(LocalName[i]) => f = i)
    BY <2>1, LocalMeant
  <2> HIDE DEF f
  <2>5. ASSUME NEW k \in Regs, LocalName[k] = None \/ Unique(LocalName[k])
        PROVE  L'.reg[k] = meant'.reg[k]
    <3>1. CASE k = i
      BY <2>1, <2>2, <2>3, <2>4, <2>5, <3>1
    <3>2. CASE k # i
      <4>1. k # f
        BY <2>1, <2>4, <2>5, <3>2
      <4> QED BY <2>1, <2>2, <2>3, <2>5, <3>2, <4>1 DEF Held
    <3> QED BY <3>1, <3>2
  <2> QED BY <2>1, <2>2, <2>5 DEF Held
<1>5. ASSUME NEW n \in 1 .. MaxResults, NEW v \in Values, NEW j \in Ups,
             SetUpvalueVariable(j, v, n)
      PROVE  Held'
  <2> DEFINE f == FirstOf(UpvaluesOf(UpvalueName[j]))
  <2>1. /\ ~shrunk /\ L.top >= Registers
        /\ meant' = [meant EXCEPT !.up[j] = v] /\ upvalue' = [upvalue EXCEPT ![f] = v]
    BY <1>5 DEF SetUpvalueVariable, Tops
  <2>2. L'.reg = L.reg /\ meant'.reg = meant.reg
    BY <1>5, <2>1, SetUpvalueRaises DEF Raises, TypeOK
  <2>3. f \in Ups /\ UpvalueName[f] = UpvalueName[j] /\ (Unique(UpvalueName[j]) => f = j)
    BY UpvalueMeant
  <2>4. \A k \in Ups : meant'.up[k] = IF k = j THEN v ELSE meant.up[k]
    BY <2>1 DEF TypeOK
  <2> HIDE DEF f
  <2>5. \A k \in Ups : upvalue'[k] = IF k = f THEN v ELSE upvalue[k]
    BY <2>1, <2>3 DEF TypeOK
  <2>6. \A k \in Ups : Unique(UpvalueName[k]) => upvalue'[k] = meant'.up[k]
    BY <2>1, <2>3, <2>4, <2>5 DEF Held
  <2> QED BY <2>1, <2>2, <2>6 DEF Held
<1>6. ASSUME NEW n \in 1 .. MaxResults, SetField(n) PROVE Held'
  BY <1>6 DEF SetField
<1>7. ASSUME NEW n \in 1 .. MaxResults, SetFieldFails(n) PROVE Held'
  BY <1>0, <1>7, SetFieldFailsRaises DEF SetFieldFails, Raises, Tops, Held
<1> QED BY <1>1, <1>2, <1>3, <1>4, <1>5, <1>6, <1>7, NextCases

LEMMA RestoredStep == TypeOK /\ Tops /\ Restored /\ [Next]_vars => Restored'
<1> SUFFICES ASSUME TypeOK, TypeOK', Tops, Restored, Next PROVE Restored'
  BY TypeStep DEF vars, Restored, Unique
<1>1. Tops'
  BY TopsStep
<1>2. ~shrunk => Held
  BY DEF Restored, Held
<1>3. ~shrunk' => Held'
  BY <1>2, HeldStep
<1>4. L.top' \in Int
  BY DEF TypeOK
<1> QED BY <1>1, <1>3, <1>4 DEF Tops, Held, Restored

(* A unique name evaluates to what the variable holds.                     *)
LEMMA EnvHeld ==
  ASSUME TypeOK, Tops, ~shrunk, Held, NEW n, Unique(n)
  PROVE  /\ \A i \in LocalsOf(n) : EnvOf(PushBreakEnv(L), n) = meant.reg[i]
         /\ \A j \in UpvaluesOf(n) : EnvOf(PushBreakEnv(L), n) = meant.up[j]
<1>1. PushBreakEnv(L).reg = L.reg
  BY StackType, BreakEnvRaises DEF Raises, Tops
<1>2. ASSUME NEW i \in LocalsOf(n) PROVE EnvOf(PushBreakEnv(L), n) = meant.reg[i]
  <2>1. LocalsOf(n) = {i} /\ UpvaluesOf(n) = {}
    BY UniqueName
  <2>2. LastOf(LocalsOf(n)) = i
    BY <2>1 DEF LastOf
  <2>3. i \in Regs /\ LocalName[i] = n
    BY DEF LocalsOf
  <2> QED BY <1>1, <2>1, <2>2, <2>3 DEF EnvOf, Held
<1>3. ASSUME NEW j \in UpvaluesOf(n) PROVE EnvOf(PushBreakEnv(L), n) = meant.up[j]
  <2>1. UpvaluesOf(n) = {j}
    BY UniqueName
  <2>2. LastOf(UpvaluesOf(n)) = j
    BY <2>1 DEF LastOf
  <2>3. j \in Ups /\ UpvalueName[j] = n
    BY DEF UpvaluesOf
  <2> QED BY <2>1, <2>2, <2>3 DEF EnvOf, Held
<1> QED BY <1>2, <1>3

LEMMA SeesStep == IInv /\ [Next]_vars => SeesProgram'
<1> SUFFICES ASSUME IInv, Next PROVE SeesProgram'
  BY DEF vars, IInv, SeesProgram, Unique, LocalsOf, UpvaluesOf, NoAnswer
<1> USE DEF IInv
<1>1. ~shrunk => Held
  BY DEF Restored, Held
<1>2. ASSUME NEW name \in Names, NEW outcome, NEW n, NEW context,
             Evaluate(name, outcome, n, context)
      PROVE  SeesProgram'
  BY <1>1, <1>2, EnvHeld DEF Evaluate, SeesProgram, NoAnswer
<1>3. CASE \A name \in Names : \A outcome, n, context : ~Evaluate(name, outcome, n, context)
  <2>1. answer' = NoAnswer
        \/ (answer' = answer /\ answer = NoAnswer)
    BY <1>3 DEF Next, Execute, StopPlainly, Stop, HitBreakPoint, Resume, EvaluateNowhere,
         LoadFields, SetVariable, SetNothing, SetLocalVariable, SetUpvalueVariable,
         SetField, SetFieldFails, SetGlobal, Tops
  <2> QED BY <2>1 DEF SeesProgram, NoAnswer
<1> QED BY <1>2, <1>3

LEMMA IInvHolds == Spec => []IInv
<1>1. Init => IInv
  <2> SUFFICES ASSUME Init PROVE IInv
    OBVIOUS
  <2>1. TypeOK
    BY TypeInit
  <2>2. Tops /\ Restored
    BY <2>1 DEF Init, Tops, Restored, Program, TypeOK
  <2>3. SeesProgram
    BY DEF Init, SeesProgram
  <2> QED BY <2>1, <2>2, <2>3 DEF IInv
<1>2. IInv /\ [Next]_vars => IInv'
  BY TypeStep, TopsStep, RestoredStep, SeesStep DEF IInv
<1> QED BY <1>1, <1>2, PTL DEF Spec

(* Until a field is assigned the helpers leave the stack as they found it, *)
(* and every variable of a unique name holds what it was last assigned.    *)
THEOREM StackRestored == Spec => []Restored
<1>1. IInv => Restored
  BY DEF IInv
<1> QED BY <1>1, IInvHolds, PTL

(* Until then an evaluation shows what the program has.                    *)
THEOREM ProgramSeen == Spec => []SeesProgram
<1>1. IInv => SeesProgram
  BY DEF IInv
<1> QED BY <1>1, IInvHolds, PTL

=============================================================================
