--------------------------- MODULE Variables_proofs ---------------------------
(***************************************************************************)
(* Proofs about Variables: the registry is whole and shows what the        *)
(* program holds, its scopes are those of the frames shown, and every      *)
(* reference the client has is to one of them, for any call chains, tables *)
(* and values.                                                             *)
(*                                                                         *)
(* RegistryWhole and CacheFresh are inductive together.  An update reads   *)
(* every scope that is not a table's, because RegistryWhole leaves none it *)
(* would miss, and drops the fields of every table; between updates only   *)
(* tables are added, as unread, since a table that has been read is        *)
(* registered.  Inspected, further below, adds what each frame was given   *)
(* as its depth and what each scope of a frame holds; that the traversal   *)
(* of updateStackFrames and the count of fetch agree is an induction over  *)
(* the threads of the chain and over the levels of each (FramesListed).    *)
(***************************************************************************)
EXTENDS Variables, Induction, FiniteSetTheorems

IInv == RegistryWhole /\ CacheFresh

(* Scopes of tables are told from the others and from each other.          *)
LEMMA TableScopes ==
  /\ \A t : IsTable(TableScope(t)) /\ TableScope(t)[2] = t
  /\ \A c : \A s \in ScopesOfStop(c) : ~IsTable(s)
  BY DEF IsTable, TableScope, ScopesOfStop, getGlobalScope, getLocalScope, getUpvalueScope

(* What an update reads: each scope of the stop, with a variable that      *)
(* holds what is read there.                                               *)
LEMMA FetchedScopes ==
  ASSUME NEW c, NEW held
  PROVE  /\ \A e \in Fetched(c, held) : e[1] \in ScopesOfStop(c) /\ e[2].value = held[e[2].at]
         /\ \A s \in ScopesOfStop(c) : \E e \in Fetched(c, held) : e[1] = s
<1>1. \A p : Variable(p, held).value = held[Variable(p, held).at]
  BY DEF Variable
<1>2. ASSUME NEW e \in Fetched(c, held)
      PROVE  e[1] \in ScopesOfStop(c) /\ \E p : e[2] = Variable(p, held)
  <2>1. e \in FetchGlobals(held) \/ \E f \in LuaFrames(c) : e \in FetchFromStack(c, f, held)
    BY <1>2 DEF Fetched
  <2>2. CASE e \in FetchGlobals(held)
    BY <2>2 DEF FetchGlobals, ScopesOfStop
  <2>3. ASSUME NEW f \in LuaFrames(c), e \in FetchFromStack(c, f, held)
        PROVE  e[1] \in ScopesOfStop(c) /\ \E p : e[2] = Variable(p, held)
    BY <2>3 DEF FetchFromStack, ScopesOfStop
  <2> QED
    BY <2>1, <2>2, <2>3
<1>3. ASSUME NEW s \in ScopesOfStop(c)
      PROVE  \E p : <<s, Variable(p, held)>> \in Fetched(c, held)
  <2>1. CASE s = getGlobalScope
    <3>1. <<s, Variable(Global, held)>> \in FetchGlobals(held)
      BY <2>1 DEF FetchGlobals
    <3> QED
      BY <3>1 DEF Fetched
  <2>2. ASSUME NEW f \in LuaFrames(c),
               s = getLocalScope(Src(c), Depth(c, f)) \/ s = getUpvalueScope(Src(c), Depth(c, f))
        PROVE  \E p : <<s, Variable(p, held)>> \in Fetched(c, held)
    <3>1. \E p : <<s, Variable(p, held)>> \in FetchFromStack(c, f, held)
      BY <2>2 DEF FetchFromStack
    <3> QED
      BY <3>1 DEF Fetched
  <2> QED
    BY <1>3, <2>1, <2>2 DEF ScopesOfStop
<1> QED
  BY <1>1, <1>2, <1>3

(* What VariableRegistry::update leaves: the fields of no table, and of    *)
(* each other scope what was read.                                         *)
LEMMA UpdateIs ==
  ASSUME NEW c, NEW registry, NEW held,
         DOMAIN registry \subseteq ScopesOfStop(c) \cup {TableScope(t) : t \in Tables},
         Update(c, registry, held)
  PROVE  /\ loaded' = {} /\ behind' = (store' # held)
         /\ DOMAIN variables_' = DOMAIN registry \cup ScopesOfStop(c)
                                   \cup ScopesOf({e[2] : e \in Fetched(c, held)})
         /\ \A s \in DOMAIN variables_' :
              \/ IsTable(s) /\ variables_'[s] = {}
              \/ /\ ~IsTable(s) /\ s \in ScopesOfStop(c)
                 /\ variables_'[s] = {e[2] : e \in {x \in Fetched(c, held) : x[1] = s}}
                 /\ {x \in Fetched(c, held) : x[1] = s} # {}
<1> DEFINE fetched == Fetched(c, held)
           seen    == ScopesOf({e[2] : e \in fetched})
           entries == [s \in DOMAIN registry \cup {e[1] : e \in fetched} \cup seen |->
                         LET now == {e \in fetched : e[1] = s}
                         IN  IF now # {} THEN {e[2] : e \in now}
                               ELSE IF s \in DOMAIN registry THEN registry[s] ELSE {}]
<1>1. /\ variables_' = [s \in DOMAIN entries |-> IF IsTable(s) THEN {} ELSE entries[s]]
      /\ loaded' = {}
      /\ behind' = (store' # held)
  BY DEF Update, ClearDirtyScopes
<1>2. DOMAIN variables_' = DOMAIN registry \cup ScopesOfStop(c) \cup seen
  BY <1>1, FetchedScopes
<1>3. seen \subseteq {TableScope(t) : t \in Tables}
  BY DEF ScopesOf
<1>4. ASSUME NEW s \in DOMAIN variables_'
      PROVE  \/ IsTable(s) /\ variables_'[s] = {}
             \/ /\ ~IsTable(s) /\ s \in ScopesOfStop(c)
                /\ variables_'[s] = {e[2] : e \in {x \in fetched : x[1] = s}}
                /\ {x \in fetched : x[1] = s} # {}
  <2>1. CASE IsTable(s)
    BY <1>1, <2>1
  <2>2. CASE ~IsTable(s)
    <3>1. s \in ScopesOfStop(c)
      BY <1>2, <1>3, <2>2, TableScopes
    <3>2. {x \in fetched : x[1] = s} # {}
      BY <3>1, FetchedScopes
    <3>3. variables_'[s] = entries[s]
      BY <1>1, <2>2
    <3>4. entries[s] = {e[2] : e \in {x \in fetched : x[1] = s}}
      BY <3>2, <1>1
    <3> QED
      BY <2>2, <3>1, <3>2, <3>3, <3>4
  <2> QED
    BY <2>1, <2>2
<1> QED
  BY <1>1, <1>2, <1>4

(* VariableRegistry::update makes the registry whole, and fresh but for    *)
(* what its own metamethods change.                                        *)
LEMMA UpdateRefreshes ==
  ASSUME NEW c, NEW registry, NEW held,
         c # Running, stop' = c,
         DOMAIN registry \subseteq ScopesOfStop(c) \cup {TableScope(t) : t \in Tables},
         Update(c, registry, held)
  PROVE  IInv'
<1> DEFINE fetched == Fetched(c, held)
           seen    == ScopesOf({e[2] : e \in fetched})
<1>1. /\ loaded' = {} /\ behind' = (store' # held)
      /\ DOMAIN variables_' = DOMAIN registry \cup ScopesOfStop(c) \cup seen
  BY UpdateIs
<1>2. \A s \in DOMAIN variables_' :
        \/ IsTable(s) /\ variables_'[s] = {}
        \/ /\ ~IsTable(s) /\ s \in ScopesOfStop(c)
           /\ variables_'[s] = {e[2] : e \in {x \in fetched : x[1] = s}}
           /\ {x \in fetched : x[1] = s} # {}
  BY UpdateIs
<1>3. seen \subseteq {TableScope(t) : t \in Tables}
  BY DEF ScopesOf
<1>4. CacheFresh'
  <2> SUFFICES ASSUME NEW s \in DOMAIN variables_', isLoaded(s)'
               PROVE  /\ behind' \/ \A v \in variables_'[s] : v.value = store'[v.at]
                      /\ variables_'[s] # {}
    BY DEF CacheFresh
  <2>1. ~IsTable(s)
    BY <1>1 DEF isLoaded
  <2>2. /\ variables_'[s] = {e[2] : e \in {x \in fetched : x[1] = s}}
        /\ {x \in fetched : x[1] = s} # {}
    BY <1>2, <2>1
  <2>3. \A v \in variables_'[s] : v.value = held[v.at]
    BY <2>2, FetchedScopes
  <2> QED
    BY <1>1, <2>2, <2>3
<1>5. RegistryWhole'
  <2>1. \A s \in DOMAIN variables_' : ScopesOf(variables_'[s]) \subseteq DOMAIN variables_'
    <3> SUFFICES ASSUME NEW s \in DOMAIN variables_'
                 PROVE  ScopesOf(variables_'[s]) \subseteq seen
      BY <1>1
    <3>1. variables_'[s] \subseteq {e[2] : e \in fetched}
      BY <1>2
    <3> QED
      BY <3>1 DEF ScopesOf
  <2>2. stop' # Running
    OBVIOUS
  <2> QED
    BY <1>1, <1>3, <2>1, <2>2 DEF RegistryWhole
<1> QED
  BY <1>4, <1>5 DEF IInv

(* Registering scopes of tables, unread, keeps the registry whole.         *)
LEMMA RegisteredKeeps ==
  ASSUME NEW added, added \subseteq {TableScope(t) : t \in Tables},
         IInv, stop # Running
  PROVE  /\ DOMAIN Registered(added) = DOMAIN variables_ \cup added
         /\ \A s \in DOMAIN variables_ : Registered(added)[s] = variables_[s]
         /\ \A s \in added \ DOMAIN variables_ :
              Registered(added)[s] = {} /\ IsTable(s) /\ s[2] \notin loaded
  BY TableScopes DEF Registered, IInv, RegistryWhole

(* A step that keeps the registry and is no update: what it changes of the *)
(* program puts the registry behind.                                       *)
LEMMA KeepingCache ==
  ASSUME IInv, UNCHANGED <<stop, cache>>,
         behind' \/ (~behind /\ UNCHANGED store)
  PROVE  IInv'
<1>1. RegistryWhole'
  BY DEF IInv, RegistryWhole, cache
<1>2. CacheFresh'
  BY DEF IInv, CacheFresh, isLoaded, cache
<1> QED
  BY <1>1, <1>2 DEF IInv

(* Variable::loadFields of a table that has not been read: its scope has   *)
(* the fields, and those that are tables have scopes, unread.              *)
Loads(s, fields) ==
  /\ \/ \E held \in {store, store'} : fields = {Variable(Field(s[2]), held)}
     \/ fields = {} /\ s[2] \in Iterated
  /\ ScopesOf(fields) \subseteq {TableScope(t) : t \in Tables}
  /\ loaded' = loaded \cup {s[2]}
  /\ DOMAIN variables_' = DOMAIN variables_ \cup ScopesOf(fields)
  /\ variables_'[s] = fields
  /\ \A x \in DOMAIN variables_ \ {s} : variables_'[x] = variables_[x]
  /\ \A x \in ScopesOf(fields) \ DOMAIN variables_ :
       variables_'[x] = {} /\ IsTable(x) /\ x[2] \notin loaded

LEMMA LoadIs ==
  ASSUME IInv, stop # Running, NEW s \in DOMAIN variables_, ~isLoaded(s), LoadFields(s)
  PROVE  /\ IsTable(s) /\ s[2] \notin loaded /\ s = TableScope(s[2]) /\ s[2] \in Tables
         /\ \E fields : Loads(s, fields)
<1>1. PICK fields \in {{Variable(Field(s[2]), held)} : held \in {store, store'}}
                         \cup {{} : t \in Iterated \cap {s[2]}} :
        /\ variables_' = [Registered(ScopesOf(fields)) EXCEPT ![s] = fields]
        /\ loaded' = loaded \cup {s[2]}
  BY DEF LoadFields
<1>2. IsTable(s) /\ s[2] \notin loaded
  BY DEF isLoaded
<1>3. s = TableScope(s[2]) /\ s[2] \in Tables
  BY <1>2, TableScopes DEF IInv, RegistryWhole
<1>4. ScopesOf(fields) \subseteq {TableScope(t) : t \in Tables}
  BY DEF ScopesOf
<1>5. /\ DOMAIN variables_' = DOMAIN variables_ \cup ScopesOf(fields)
      /\ variables_'[s] = fields
      /\ \A x \in DOMAIN variables_ \ {s} : variables_'[x] = variables_[x]
      /\ \A x \in ScopesOf(fields) \ DOMAIN variables_ :
           variables_'[x] = {} /\ IsTable(x) /\ x[2] \notin loaded
  <2> DEFINE added == ScopesOf(fields)
             before == Registered(added)
  <2>1. /\ DOMAIN before = DOMAIN variables_ \cup added
        /\ \A x \in DOMAIN variables_ : before[x] = variables_[x]
        /\ \A x \in added \ DOMAIN variables_ :
             before[x] = {} /\ IsTable(x) /\ x[2] \notin loaded
    BY <1>4, RegisteredKeeps
  <2>2. variables_' = [before EXCEPT ![s] = fields]
    BY <1>1
  <2> HIDE DEF before
  <2>3. /\ DOMAIN variables_' = DOMAIN before
        /\ variables_'[s] = fields
        /\ \A x \in DOMAIN before \ {s} : variables_'[x] = before[x]
    BY <2>1, <2>2
  <2> QED
    BY <2>1, <2>3
<1> QED
  BY <1>1, <1>2, <1>3, <1>4, <1>5 DEF Loads

LEMMA LoadingFields ==
  ASSUME IInv, stop # Running, UNCHANGED stop, Unrefreshed,
         NEW s \in DOMAIN variables_, ~isLoaded(s), LoadFields(s)
  PROVE  IInv'
<1>1. PICK fields : Loads(s, fields)
  BY LoadIs
<1>2. IsTable(s) /\ s[2] \notin loaded
  BY LoadIs
<1>3. s = TableScope(s[2])
  BY LoadIs
<1>4. /\ ScopesOf(fields) \subseteq {TableScope(t) : t \in Tables}
      /\ loaded' = loaded \cup {s[2]}
  BY <1>1 DEF Loads
<1>5. /\ DOMAIN variables_' = DOMAIN variables_ \cup ScopesOf(fields)
      /\ variables_'[s] = fields
      /\ \A x \in DOMAIN variables_ \ {s} : variables_'[x] = variables_[x]
      /\ \A x \in ScopesOf(fields) \ DOMAIN variables_ :
           variables_'[x] = {} /\ IsTable(x) /\ x[2] \notin loaded
  BY <1>1 DEF Loads
<1>6. \A x \in ScopesOf(fields) \ DOMAIN variables_ : x[2] # s[2]
  BY <1>3, <1>4, TableScopes
<1>7. CacheFresh'
  <2> SUFFICES ASSUME NEW x \in DOMAIN variables_', isLoaded(x)'
               PROVE  /\ behind' \/ \A v \in variables_'[x] : v.value = store'[v.at]
                      /\ variables_'[x] = {} => IsTable(x) /\ x[2] \in Iterated
    BY DEF CacheFresh
  <2>1. CASE x = s
    <3>1. ASSUME NEW held \in {store, store'}, fields = {Variable(Field(s[2]), held)}
          PROVE  /\ behind' \/ \A v \in variables_'[x] : v.value = store'[v.at]
                 /\ variables_'[x] # {}
      <4>1. \A v \in fields : v.value = held[v.at]
        BY <3>1 DEF Variable
      <4>2. behind' \/ held = store'
        BY DEF Unrefreshed
      <4> QED
        BY <1>5, <2>1, <3>1, <4>1, <4>2
    <3>2. CASE fields = {} /\ s[2] \in Iterated
      BY <1>2, <1>5, <2>1, <3>2
    <3> QED
      BY <1>1, <3>1, <3>2 DEF Loads
  <2>2. CASE x \in DOMAIN variables_ \ {s}
    <3>1. isLoaded(x)
      <4>1. IsTable(x) => x = TableScope(x[2])
        BY <2>2, TableScopes DEF IInv, RegistryWhole
      <4> QED
        BY <1>3, <1>4, <2>2, <4>1 DEF isLoaded
    <3>2. /\ behind \/ \A v \in variables_'[x] : v.value = store[v.at]
          /\ variables_'[x] = {} => IsTable(x) /\ x[2] \in Iterated
      BY <1>5, <2>2, <3>1 DEF IInv, CacheFresh
    <3> QED
      BY <3>2 DEF Unrefreshed
  <2>3. CASE x \in ScopesOf(fields) \ DOMAIN variables_
    BY <1>4, <1>5, <1>6, <2>3 DEF isLoaded
  <2> QED
    BY <1>5, <2>1, <2>2, <2>3
<1>8. RegistryWhole'
  <2>1. /\ ScopesOfStop(stop) \subseteq DOMAIN variables_'
        /\ DOMAIN variables_' \subseteq ScopesOfStop(stop) \cup {TableScope(t) : t \in Tables}
    BY <1>4, <1>5 DEF IInv, RegistryWhole
  <2>2. {TableScope(t) : t \in loaded'} \subseteq DOMAIN variables_'
    BY <1>3, <1>4, <1>5 DEF IInv, RegistryWhole
  <2>3. \A x \in DOMAIN variables_' : ScopesOf(variables_'[x]) \subseteq DOMAIN variables_'
    <3>1. ScopesOf({}) = {}
      BY DEF ScopesOf
    <3>2. \A x \in DOMAIN variables_ : ScopesOf(variables_[x]) \subseteq DOMAIN variables_
      BY DEF IInv, RegistryWhole
    <3> QED
      BY <1>5, <3>1, <3>2
  <2> QED
    BY <2>1, <2>2, <2>3 DEF RegistryWhole
<1> QED
  BY <1>7, <1>8 DEF IInv

(* A watch whose result is a table: its scope is added, unread.            *)
LEMMA AddingResult ==
  ASSUME IInv, stop # Running, UNCHANGED <<stop, loaded>>, Unrefreshed,
         NEW added, added \subseteq {TableScope(t) : t \in Tables},
         variables_' = Registered(added)
  PROVE  IInv'
<1>1. /\ DOMAIN variables_' = DOMAIN variables_ \cup added
      /\ \A s \in DOMAIN variables_ : variables_'[s] = variables_[s]
      /\ \A s \in added \ DOMAIN variables_ :
           variables_'[s] = {} /\ IsTable(s) /\ s[2] \notin loaded
  BY RegisteredKeeps
<1>2. CacheFresh'
  <2> SUFFICES ASSUME NEW s \in DOMAIN variables_', isLoaded(s)
               PROVE  /\ behind' \/ \A v \in variables_'[s] : v.value = store'[v.at]
                      /\ variables_'[s] = {} => IsTable(s) /\ s[2] \in Iterated
    BY DEF CacheFresh, isLoaded
  <2>1. s \in DOMAIN variables_
    BY <1>1 DEF isLoaded
  <2>2. /\ behind \/ \A v \in variables_[s] : v.value = store[v.at]
        /\ variables_[s] = {} => IsTable(s) /\ s[2] \in Iterated
    BY <2>1 DEF IInv, CacheFresh
  <2> QED
    BY <1>1, <2>1, <2>2 DEF Unrefreshed
<1>3. RegistryWhole'
  <2>1. ScopesOf({}) = {}
    BY DEF ScopesOf
  <2>2. \A s \in DOMAIN variables_' : ScopesOf(variables_'[s]) \subseteq DOMAIN variables_'
    BY <1>1, <2>1 DEF IInv, RegistryWhole
  <2> QED
    BY <1>1, <2>2 DEF IInv, RegistryWhole
<1> QED
  BY <1>2, <1>3 DEF IInv

(* A stop has a thread that stopped.                                       *)
LEMMA StopsHaveThreads == \A c \in Stops : c # Running
  BY StopsAssumption DEF Running

(* Each step keeps the inductive invariant.                                *)
LEMMA Step ==
  ASSUME IInv, [Next]_vars
  PROVE  IInv'
<1>1. CASE MainThreadWait
  <2>1. PICK c \in Stops : stop' = c /\ \E held : Update(c, <<>>, held)
    BY <1>1 DEF MainThreadWait
  <2>2. DOMAIN <<>> = {}
    OBVIOUS
  <2> QED
    BY <2>1, <2>2, UpdateRefreshes, StopsHaveThreads
<1>2. CASE Resume
  <2>1. stop' = Running /\ variables_' = <<>> /\ loaded' = {}
    BY <1>2 DEF Resume
  <2>2. DOMAIN variables_' = {}
    BY <2>1
  <2> QED
    BY <2>1, <2>2 DEF IInv, RegistryWhole, CacheFresh
<1>3. CASE GetStackTrace
  BY <1>3, KeepingCache DEF GetStackTrace
<1>4. ASSUME NEW id \in 1 .. MaxFrames, GetScopes(id)
      PROVE  IInv'
  BY <1>4, KeepingCache DEF GetScopes
<1>5. ASSUME NEW s \in known, GetVariables(s)
      PROVE  IInv'
  <2>1. s \in DOMAIN variables_ /\ UNCHANGED stop /\ Unrefreshed
    BY <1>5 DEF GetVariables
  <2>2. stop # Running
    BY <1>5 DEF GetVariables
  <2>3. CASE isLoaded(s)
    BY <1>5, <2>1, <2>3, KeepingCache DEF GetVariables, Unrefreshed
  <2>4. CASE ~isLoaded(s)
    BY <1>5, <2>1, <2>2, <2>4, LoadingFields DEF GetVariables
  <2> QED
    BY <2>3, <2>4
<1>6. ASSUME NEW s \in known, SetVariable(s)
      PROVE  IInv'
  <2>1. s \in DOMAIN variables_ /\ UNCHANGED stop
    BY <1>6 DEF SetVariable
  <2>2. stop # Running
    BY <1>6 DEF SetVariable
  <2>3. (\E held : Update(stop, variables_, held)) \/ (Unrefreshed /\ UNCHANGED cache)
    BY <1>6 DEF SetVariable
  <2>4. ASSUME NEW held, Update(stop, variables_, held) PROVE IInv'
    BY <2>1, <2>2, <2>4, UpdateRefreshes DEF IInv, RegistryWhole
  <2>5. CASE Unrefreshed /\ UNCHANGED cache
    BY <2>1, <2>5, KeepingCache DEF Unrefreshed
  <2> QED
    BY <2>3, <2>4, <2>5
<1>7. ASSUME NEW id \in 1 .. MaxFrames, NEW context \in {"repl", "watch"},
             Evaluate(id, context)
      PROVE  IInv'
  <2>1. UNCHANGED stop /\ stop # Running
    BY <1>7 DEF Evaluate
  <2>2. \/ \E result \in {{}} \cup {{TableScope(t)} : t \in Tables} :
             \/ \E held : Update(stop, Registered(result), held)
             \/ variables_' = Registered(result) /\ UNCHANGED loaded /\ Unrefreshed
        \/ Unrefreshed /\ UNCHANGED cache
    BY <1>7 DEF Evaluate
  <2>3. ASSUME NEW result \in {{}} \cup {{TableScope(t)} : t \in Tables},
               NEW held, Update(stop, Registered(result), held)
        PROVE  IInv'
    <3>1. DOMAIN Registered(result) \subseteq ScopesOfStop(stop) \cup {TableScope(t) : t \in Tables}
      BY <2>1 DEF IInv, RegistryWhole, Registered
    <3> QED
      BY <2>1, <2>3, <3>1, UpdateRefreshes
  <2>4. ASSUME NEW result \in {{}} \cup {{TableScope(t)} : t \in Tables},
               variables_' = Registered(result), UNCHANGED loaded, Unrefreshed
        PROVE  IInv'
    BY <2>1, <2>4, AddingResult
  <2>5. CASE Unrefreshed /\ UNCHANGED cache
    BY <2>1, <2>5, KeepingCache DEF Unrefreshed
  <2> QED
    BY <2>2, <2>3, <2>4, <2>5
<1>8. CASE UNCHANGED vars
  BY <1>8, KeepingCache DEF vars, cache
<1> QED
  BY <1>1, <1>2, <1>3, <1>4, <1>5, <1>6, <1>7, <1>8 DEF Next

-----------------------------------------------------------------------------
(* The two invariants hold, together, in every state.                      *)
THEOREM Invariance == Spec => []IInv
<1>1. Init => IInv
  <2>1. DOMAIN <<>> = {}
    OBVIOUS
  <2> QED
    BY <2>1 DEF Init, IInv, RegistryWhole, CacheFresh
<1> QED
  BY <1>1, Step, PTL DEF Spec

(* The registry has the scopes of every frame of the stop, of every table  *)
(* it shows or has read, and no others (VariableRegistry, addScope).       *)
THEOREM Whole == Spec => []RegistryWhole
<1>1. IInv => RegistryWhole
  BY DEF IInv
<1> QED
  BY <1>1, Invariance, PTL

(* What is shown is what the program holds, unless code of the program has *)
(* run with no update after it: an expression that failed or that a watch  *)
(* ran, a metamethod that opened a table or read the registry              *)
(* (updateVariables, clearDirtyScopes, loadFields).                        *)
THEOREM Fresh == Spec => []CacheFresh
<1>1. IInv => CacheFresh
  BY DEF IInv
<1> QED
  BY <1>1, Invariance, PTL

-----------------------------------------------------------------------------
(* The frames of a stop in the order of the two traversals.                *)

(* The frames of Lua functions before a place; Depth counts them.          *)
Before(c, f) == {g \in LuaFrames(c) : Earlier(g, f)}

(* What a stop is, and its frames of Lua functions.                        *)
LEMMA StopIs ==
  ASSUME NEW c \in Stops
  PROVE  /\ Len(c.chain) \in Nat \ {0} /\ DOMAIN c.chain = 1..Len(c.chain)
         /\ \A i \in 1..Len(c.chain) :
              /\ c.chain[i] \in Threads /\ Len(c.calls[i]) \in Nat
              /\ \A l \in 1..Len(c.calls[i]) : c.calls[i][l] \in {"Lua", "C"}
         /\ Src(c) \in Threads
<1>1. /\ c.chain \in Seq(Threads) /\ c.chain # <<>>
      /\ c.calls \in Seq(Seq({"Lua", "C"})) /\ Len(c.calls) = Len(c.chain)
  BY StopsAssumption
<1>2. Len(c.chain) \in Nat \ {0} /\ DOMAIN c.chain = 1..Len(c.chain)
  BY <1>1
<1>3. \A i \in 1..Len(c.chain) : c.chain[i] \in Threads
  BY <1>1
<1>4. \A i \in 1..Len(c.chain) : c.calls[i] \in Seq({"Lua", "C"})
  BY <1>1
<1>5. \A s \in Seq({"Lua", "C"}) : Len(s) \in Nat /\ \A l \in 1..Len(s) : s[l] \in {"Lua", "C"}
  OBVIOUS
<1>6. 1 \in 1..Len(c.chain)
  BY <1>2
<1> QED
  BY <1>2, <1>3, <1>4, <1>5, <1>6 DEF Src

LEMMA FrameIs ==
  ASSUME NEW c \in Stops, NEW f
  PROVE  f \in LuaFrames(c) <=>
           \E i \in 1..Len(c.chain) : \E l \in 0..(Len(c.calls[i]) - 1) :
             f = <<i, l>> /\ c.calls[i][l + 1] = "Lua"
<1>1. f \in AllFrames(c) <=>
        \E i \in 1..Len(c.chain) : \E l \in 0..(Len(c.calls[i]) - 1) : f = <<i, l>>
  BY StopIs DEF AllFrames
<1> QED
  BY <1>1 DEF LuaFrames, IsLua

(* A frame is one thread of the chain and one of its levels.               *)
LEMMA FrameParts ==
  ASSUME NEW c \in Stops, NEW f \in LuaFrames(c)
  PROVE  /\ f = <<f[1], f[2]>> /\ f[1] \in 1..Len(c.chain)
         /\ f[2] \in Nat /\ f[2] < Len(c.calls[f[1]])
         /\ c.calls[f[1]][f[2] + 1] = "Lua"
<1>1. PICK i \in 1..Len(c.chain) :
        \E l \in 0..(Len(c.calls[i]) - 1) : f = <<i, l>> /\ c.calls[i][l + 1] = "Lua"
  BY FrameIs
<1>2. PICK l \in 0..(Len(c.calls[i]) - 1) : f = <<i, l>> /\ c.calls[i][l + 1] = "Lua"
  BY <1>1
<1>3. Len(c.calls[i]) \in Nat
  BY StopIs
<1> QED
  BY <1>2, <1>3

LEMMA BeforeFirst == ASSUME NEW c \in Stops PROVE Before(c, <<1, 0>>) = {}
<1> SUFFICES ASSUME NEW g \in LuaFrames(c), Earlier(g, <<1, 0>>) PROVE FALSE
  BY DEF Before
<1>1. g[1] \in Nat /\ g[1] >= 1 /\ g[2] \in Nat
  BY FrameParts, StopIs
<1> QED
  BY <1>1 DEF Earlier

(* A frame of a Lua function is before those after it.                     *)
LEMMA BeforeNext ==
  ASSUME NEW c \in Stops, NEW i \in 1..Len(c.chain), NEW l \in 0..(Len(c.calls[i]) - 1)
  PROVE  /\ Before(c, <<i, l + 1>>) = IF c.calls[i][l + 1] = "Lua"
                                      THEN Before(c, <<i, l>>) \cup {<<i, l>>}
                                      ELSE Before(c, <<i, l>>)
         /\ <<i, l>> \notin Before(c, <<i, l>>)
         /\ c.calls[i][l + 1] = "Lua" => <<i, l>> \in LuaFrames(c)
<1>1. i \in Nat /\ l \in Nat /\ Len(c.calls[i]) \in Nat
  BY StopIs
<1>2. <<i, l>> \in LuaFrames(c) <=> c.calls[i][l + 1] = "Lua"
  <2>1. ASSUME <<i, l>> \in LuaFrames(c) PROVE c.calls[i][l + 1] = "Lua"
    <3>1. <<i, l>>[1] = i /\ <<i, l>>[2] = l
      OBVIOUS
    <3> QED
      BY <2>1, <3>1, FrameParts
  <2>2. ASSUME c.calls[i][l + 1] = "Lua" PROVE <<i, l>> \in LuaFrames(c)
    BY <2>2, FrameIs
  <2> QED
    BY <2>1, <2>2
<1>3. \A g \in LuaFrames(c) :
        Earlier(g, <<i, l + 1>>) <=> Earlier(g, <<i, l>>) \/ g = <<i, l>>
  <2> SUFFICES ASSUME NEW g \in LuaFrames(c)
               PROVE  Earlier(g, <<i, l + 1>>) <=> Earlier(g, <<i, l>>) \/ g = <<i, l>>
    OBVIOUS
  <2>1. g = <<g[1], g[2]>> /\ g[1] \in Nat /\ g[2] \in Nat
    BY FrameParts, StopIs
  <2>2. g = <<i, l>> <=> g[1] = i /\ g[2] = l
    BY <2>1
  <2> QED
    BY <1>1, <2>1, <2>2 DEF Earlier
<1>4. ~ Earlier(<<i, l>>, <<i, l>>)
  BY <1>1 DEF Earlier
<1> QED
  BY <1>2, <1>3, <1>4 DEF Before

(* All frames of a thread are before those of the next.                    *)
LEMMA BeforeThread ==
  ASSUME NEW c \in Stops, NEW i \in 1..Len(c.chain)
  PROVE  Before(c, <<i + 1, 0>>) = Before(c, <<i, Len(c.calls[i])>>)
<1> SUFFICES ASSUME NEW g \in LuaFrames(c)
             PROVE  Earlier(g, <<i + 1, 0>>) <=> Earlier(g, <<i, Len(c.calls[i])>>)
  BY DEF Before
<1>1. g[1] \in Nat /\ g[2] \in Nat /\ g[2] < Len(c.calls[g[1]])
  BY FrameParts, StopIs
<1>2. i \in Nat /\ Len(c.calls[i]) \in Nat
  BY StopIs
<1> QED
  BY <1>1, <1>2 DEF Earlier

(* s lists the frames before f, each where Depth has it.                   *)
Listed(c, s, f) ==
  /\ s \in Seq(LuaFrames(c))
  /\ IsFiniteSet(Before(c, f)) /\ Depth(c, f) = Len(s)
  /\ \A k \in 1..Len(s) : Depth(c, s[k]) = k - 1

LEMMA NoneListed == ASSUME NEW c \in Stops PROVE Listed(c, <<>>, <<1, 0>>)
<1>1. <<>> \in Seq(LuaFrames(c)) /\ Len(<<>>) = 0
  OBVIOUS
<1>2. Depth(c, <<1, 0>>) = Cardinality(Before(c, <<1, 0>>))
  BY DEF Depth, Before
<1> QED
  BY <1>1, <1>2, BeforeFirst, FS_EmptySet DEF Listed

(* A turn of the loop over levels.                                         *)
LEMMA NextListed ==
  ASSUME NEW c \in Stops, NEW i \in 1..Len(c.chain), NEW l \in 0..(Len(c.calls[i]) - 1),
         NEW s, Listed(c, s, <<i, l>>)
  PROVE  Listed(c, IF c.calls[i][l + 1] = "C" THEN s ELSE Append(s, <<i, l>>), <<i, l + 1>>)
<1> DEFINE t == IF c.calls[i][l + 1] = "C" THEN s ELSE Append(s, <<i, l>>)
<1>1. /\ s \in Seq(LuaFrames(c))
      /\ IsFiniteSet(Before(c, <<i, l>>)) /\ Depth(c, <<i, l>>) = Len(s)
      /\ \A k \in 1..Len(s) : Depth(c, s[k]) = k - 1
  BY DEF Listed
<1>2. \A f : Depth(c, f) = Cardinality(Before(c, f))
  BY DEF Depth, Before
<1>3. c.calls[i][l + 1] \in {"Lua", "C"}
  <2>1. l + 1 \in 1..Len(c.calls[i])
    BY StopIs
  <2> QED
    BY <2>1, StopIs
<1>4. CASE c.calls[i][l + 1] = "C"
  <2>1. Before(c, <<i, l + 1>>) = Before(c, <<i, l>>) /\ t = s
    BY <1>4, BeforeNext
  <2> HIDE DEF t
  <2> QED
    BY <1>1, <1>2, <2>1 DEF Listed, t
<1>5. CASE c.calls[i][l + 1] = "Lua"
  <2>1. /\ Before(c, <<i, l + 1>>) = Before(c, <<i, l>>) \cup {<<i, l>>}
        /\ <<i, l>> \notin Before(c, <<i, l>>) /\ <<i, l>> \in LuaFrames(c)
        /\ t = Append(s, <<i, l>>)
    BY <1>5, BeforeNext
  <2>2. /\ IsFiniteSet(Before(c, <<i, l + 1>>))
        /\ Cardinality(Before(c, <<i, l + 1>>)) = Cardinality(Before(c, <<i, l>>)) + 1
    BY <1>1, <2>1, FS_AddElement
  <2> HIDE DEF t
  <2>3. /\ t \in Seq(LuaFrames(c)) /\ Len(t) = Len(s) + 1 /\ Len(s) \in Nat
        /\ t[Len(s) + 1] = <<i, l>> /\ \A k \in 1..Len(s) : t[k] = s[k]
    BY <1>1, <2>1
  <2>4. \A k \in 1..Len(t) : k = Len(s) + 1 \/ k \in 1..Len(s)
    BY <2>3
  <2>5. ASSUME NEW k \in 1..Len(t) PROVE Depth(c, t[k]) = k - 1
    <3>1. CASE k = Len(s) + 1
      <4>1. t[k] = <<i, l>>
        BY <2>3, <3>1
      <4>2. k - 1 = Len(s)
        BY <2>3, <3>1
      <4> QED
        BY <1>1, <4>1, <4>2
    <3>2. CASE k \in 1..Len(s)
      <4>1. t[k] = s[k]
        BY <2>3, <3>2
      <4> QED
        BY <1>1, <3>2, <4>1
    <3> QED
      BY <2>4, <3>1, <3>2
  <2>6. Depth(c, <<i, l + 1>>) = Len(t)
    BY <1>1, <1>2, <2>2, <2>3
  <2> QED
    BY <2>2, <2>3, <2>5, <2>6 DEF Listed, t
<1> QED
  BY <1>3, <1>4, <1>5

(* The recursive function of FramesOf.                                     *)
LEMMA FramesOfIs ==
  ASSUME NEW c \in Stops, NEW i \in 1..Len(c.chain), NEW before \in Seq(LuaFrames(c))
  PROVE  \E d : /\ d \in [0..Len(c.calls[i]) -> Seq(LuaFrames(c))] /\ d[0] = before
                /\ \A l \in 1..Len(c.calls[i]) :
                     d[l] = IF c.calls[i][l] = "C" THEN d[l - 1]
                            ELSE Append(d[l - 1], <<i, l - 1>>)
                /\ FramesOf(c, i, before) = d[Len(c.calls[i])]
<1> DEFINE n == Len(c.calls[i])
           S == Seq(LuaFrames(c))
           Next1(l, x) == IF c.calls[i][l] = "C" THEN x ELSE Append(x, <<i, l - 1>>)
           Solves(d) == d = [l \in 0..n |-> IF l = 0 THEN before
                                            ELSE IF c.calls[i][l] = "C" THEN d[l - 1]
                                            ELSE Append(d[l - 1], <<i, l - 1>>)]
           step == [p \in (1..n) \X S |-> Next1(p[1], p[2])]
<1>1. n \in Nat
  BY StopIs
<1>2. \A l \in 1..n : \A x \in S : Next1(l, x) \in S
  <2> SUFFICES ASSUME NEW l \in 1..n, NEW x \in S, c.calls[i][l] # "C"
               PROVE  Append(x, <<i, l - 1>>) \in S
    OBVIOUS
  <2>1. l - 1 \in 0..(n - 1) /\ l - 1 + 1 = l
    BY <1>1
  <2>2. c.calls[i][l] = "Lua"
    BY StopIs
  <2>3. \A m \in 0..(n - 1) : c.calls[i][m + 1] = "Lua" => <<i, m>> \in LuaFrames(c)
    BY BeforeNext
  <2>4. <<i, l - 1>> \in LuaFrames(c)
    BY <2>1, <2>2, <2>3
  <2> QED
    BY <2>4
<1> HIDE DEF Next1
<1>3. \A l \in 1..n : \A x \in S : step[<<l, x>>] = Next1(l, x) /\ step[<<l, x>>] \in S
  BY <1>2
<1>4. PICK e : e \in [0..n -> S] /\ Iterates(e, n, before, step)
  <2> HIDE DEF step, n
  <2>1. before \in S
    OBVIOUS
  <2> HIDE DEF S
  <2> QED
    BY <1>1, <1>3, <2>1, RecursiveExists
<1>5. Solves(e)
  <2> SUFFICES ASSUME NEW k \in 0..n
               PROVE  e[k] = IF k = 0 THEN before ELSE Next1(k, e[k - 1])
    BY <1>4 DEF Next1
  <2>1. CASE k = 0
    BY <1>4, <2>1 DEF Iterates
  <2>2. CASE k # 0
    <3>1. k \in 1..n /\ k - 1 \in 0..n
      BY <1>1, <2>2
    <3>2. e[k] = step[<<k, e[k - 1]>>] /\ e[k - 1] \in S
      BY <1>4, <3>1 DEF Iterates
    <3> HIDE DEF step
    <3> QED
      BY <1>3, <2>2, <3>1, <3>2
  <2> QED
    BY <2>1, <2>2
<1> DEFINE d == CHOOSE v : Solves(v)
<1>6. FramesOf(c, i, before) = d[n]
  BY DEF FramesOf
<1>7. Solves(d)
  <2> HIDE DEF Solves
  <2> QED
    BY <1>5
<1> HIDE DEF d
<1>8. DOMAIN d = 0..n /\ d = [l \in 0..n |-> d[l]]
  BY <1>7
<1>9. d[0] = before
  <2>1. 0 \in 0..n
    BY <1>1
  <2> QED
    BY <1>7, <2>1
<1>10. \A l \in 1..n : d[l] = Next1(l, d[l - 1])
  <2>1. \A l \in 1..n : l \in 0..n /\ l # 0
    BY <1>1
  <2> QED
    BY <1>7, <2>1 DEF Next1
<1>11. \A l \in 0..n : d[l] \in S
  <2> DEFINE M == {l \in Nat : l <= n => d[l] \in S}
  <2> HIDE DEF S, n
  <2>1. 0 \in M
    BY <1>9 DEF S
  <2>2. \A l \in Nat : l \in M => l + 1 \in M
    <3> SUFFICES ASSUME NEW l \in Nat, l \in M, l + 1 <= n PROVE d[l + 1] \in S
      BY <1>1
    <3>1. l + 1 \in 1..n /\ l + 1 - 1 = l /\ l <= n
      BY <1>1
    <3>2. d[l + 1] = Next1(l + 1, d[l])
      BY <1>10, <3>1
    <3> QED
      BY <1>2, <3>1, <3>2
  <2>3. Nat \subseteq M
    <3> HIDE DEF M
    <3> QED
      BY <2>1, <2>2, Induct
  <2> QED
    BY <1>1, <2>3
<1>12. d \in [0..n -> S]
  BY <1>8, <1>11
<1> QED
  BY <1>6, <1>9, <1>10, <1>12 DEF Next1

(* The loop over the levels of a thread.                                   *)
LEMMA ThreadListed ==
  ASSUME NEW c \in Stops, NEW i \in 1..Len(c.chain), NEW before, Listed(c, before, <<i, 0>>)
  PROVE  Listed(c, FramesOf(c, i, before), <<i + 1, 0>>)
<1> DEFINE n == Len(c.calls[i])
<1>1. n \in Nat /\ before \in Seq(LuaFrames(c))
  BY StopIs DEF Listed
<1>2. PICK d : /\ d \in [0..n -> Seq(LuaFrames(c))] /\ d[0] = before
               /\ \A l \in 1..n : d[l] = IF c.calls[i][l] = "C" THEN d[l - 1]
                                         ELSE Append(d[l - 1], <<i, l - 1>>)
               /\ FramesOf(c, i, before) = d[n]
  BY <1>1, FramesOfIs
<1> DEFINE M == {l \in Nat : l <= n => Listed(c, d[l], <<i, l>>)}
<1>3. 0 \in M
  BY <1>2
<1>4. \A l \in Nat : l \in M => l + 1 \in M
  <2> SUFFICES ASSUME NEW l \in Nat, l \in M, l + 1 <= n
               PROVE  Listed(c, d[l + 1], <<i, l + 1>>)
    BY <1>1
  <2>1. l \in 0..(n - 1) /\ l + 1 \in 1..n /\ l + 1 - 1 = l /\ l <= n
    BY <1>1
  <2>2. d[l + 1] = IF c.calls[i][l + 1] = "C" THEN d[l] ELSE Append(d[l], <<i, l>>)
    BY <1>2, <2>1
  <2>3. Listed(c, d[l], <<i, l>>)
    BY <2>1
  <2> QED
    BY <2>1, <2>2, <2>3, NextListed
<1>5. n \in M
  <2> HIDE DEF M, n
  <2> QED
    BY <1>1, <1>3, <1>4, Induct
<1>6. Listed(c, d[n], <<i, n>>)
  <2>1. n <= n
    BY <1>1
  <2> HIDE DEF n
  <2> QED
    BY <1>5, <2>1
<1>7. Depth(c, <<i + 1, 0>>) = Depth(c, <<i, n>>) /\ Before(c, <<i + 1, 0>>) = Before(c, <<i, n>>)
  BY BeforeThread DEF Depth, Before
<1> HIDE DEF n
<1> QED
  BY <1>2, <1>6, <1>7 DEF Listed

(* The recursive function of Frames.                                       *)
LEMMA FramesIs ==
  ASSUME NEW c \in Stops
  PROVE  \E d : /\ d \in [0..Len(c.chain) -> Seq(LuaFrames(c))] /\ d[0] = <<>>
                /\ \A i \in 1..Len(c.chain) : d[i] = FramesOf(c, i, d[i - 1])
                /\ Frames(c) = d[Len(c.chain)]
<1> DEFINE n == Len(c.chain)
           S == Seq(LuaFrames(c))
           Solves(d) == d = [i \in 0..n |-> IF i = 0 THEN <<>> ELSE FramesOf(c, i, d[i - 1])]
           step == [p \in (1..n) \X S |-> FramesOf(c, p[1], p[2])]
<1>1. n \in Nat
  BY StopIs
<1>2. \A i \in 1..n : \A x \in S : FramesOf(c, i, x) \in S
  <2> SUFFICES ASSUME NEW i \in 1..n, NEW x \in S PROVE FramesOf(c, i, x) \in S
    OBVIOUS
  <2>1. PICK d : /\ d \in [0..Len(c.calls[i]) -> Seq(LuaFrames(c))] /\ d[0] = x
                 /\ \A l \in 1..Len(c.calls[i]) :
                      d[l] = IF c.calls[i][l] = "C" THEN d[l - 1]
                             ELSE Append(d[l - 1], <<i, l - 1>>)
                 /\ FramesOf(c, i, x) = d[Len(c.calls[i])]
    BY FramesOfIs
  <2>2. Len(c.calls[i]) \in 0..Len(c.calls[i])
    BY StopIs
  <2> QED
    BY <2>1, <2>2
<1>3. \A i \in 1..n : \A x \in S : step[<<i, x>>] = FramesOf(c, i, x) /\ step[<<i, x>>] \in S
  BY <1>2
<1>s. <<>> \in S
  OBVIOUS
<1>4. PICK e : e \in [0..n -> S] /\ Iterates(e, n, <<>>, step)
  <2> HIDE DEF step, n, S
  <2> QED
    BY <1>1, <1>3, <1>s, RecursiveExists
<1>5. Solves(e)
  <2> SUFFICES ASSUME NEW k \in 0..n
               PROVE  e[k] = IF k = 0 THEN <<>> ELSE FramesOf(c, k, e[k - 1])
    BY <1>4
  <2>1. CASE k = 0
    BY <1>4, <2>1 DEF Iterates
  <2>2. CASE k # 0
    <3>1. k \in 1..n /\ k - 1 \in 0..n
      BY <1>1, <2>2
    <3>2. e[k] = step[<<k, e[k - 1]>>] /\ e[k - 1] \in S
      BY <1>4, <3>1 DEF Iterates
    <3> HIDE DEF step
    <3> QED
      BY <1>3, <2>2, <3>1, <3>2
  <2> QED
    BY <2>1, <2>2
<1> DEFINE d == CHOOSE v : Solves(v)
<1>6. Frames(c) = d[n]
  BY DEF Frames
<1>7. Solves(d)
  <2> HIDE DEF Solves
  <2> QED
    BY <1>5
<1> HIDE DEF d
<1>8. DOMAIN d = 0..n /\ d = [i \in 0..n |-> d[i]]
  BY <1>7
<1>9. d[0] = <<>>
  <2>1. 0 \in 0..n
    BY <1>1
  <2> QED
    BY <1>7, <2>1
<1>10. \A i \in 1..n : d[i] = FramesOf(c, i, d[i - 1])
  <2>1. \A i \in 1..n : i \in 0..n /\ i # 0
    BY <1>1
  <2> QED
    BY <1>7, <2>1
<1>11. \A i \in 0..n : d[i] \in S
  <2> DEFINE M == {i \in Nat : i <= n => d[i] \in S}
  <2> HIDE DEF S, n
  <2>1. 0 \in M
    BY <1>9, <1>s
  <2>2. \A i \in Nat : i \in M => i + 1 \in M
    <3> SUFFICES ASSUME NEW i \in Nat, i \in M, i + 1 <= n PROVE d[i + 1] \in S
      BY <1>1
    <3>1. i + 1 \in 1..n /\ i + 1 - 1 = i /\ i <= n
      BY <1>1
    <3>2. d[i + 1] = FramesOf(c, i + 1, d[i])
      BY <1>10, <3>1
    <3> QED
      BY <1>2, <3>1, <3>2
  <2>3. Nat \subseteq M
    <3> HIDE DEF M
    <3> QED
      BY <2>1, <2>2, Induct
  <2> QED
    BY <1>1, <2>3
<1>12. d \in [0..n -> S]
  BY <1>8, <1>11
<1> QED
  BY <1>6, <1>9, <1>10, <1>12

(* updateStackFrames lists every frame of a Lua function, in the order in  *)
(* which fetch counts them.                                                *)
LEMMA FramesListed ==
  ASSUME NEW c \in Stops
  PROVE  Listed(c, Frames(c), <<Len(c.chain) + 1, 0>>)
<1> DEFINE n == Len(c.chain)
<1>1. n \in Nat
  BY StopIs
<1>2. PICK d : /\ d[0] = <<>> /\ \A i \in 1..n : d[i] = FramesOf(c, i, d[i - 1])
               /\ Frames(c) = d[n]
  BY FramesIs
<1> DEFINE M == {i \in Nat : i <= n => Listed(c, d[i], <<i + 1, 0>>)}
<1>3. 0 \in M
  <2>1. 0 + 1 = 1
    OBVIOUS
  <2> QED
    BY <1>2, <2>1, NoneListed
<1>4. \A i \in Nat : i \in M => i + 1 \in M
  <2> SUFFICES ASSUME NEW i \in Nat, i \in M, i + 1 <= n
               PROVE  Listed(c, d[i + 1], <<(i + 1) + 1, 0>>)
    BY <1>1
  <2>1. i + 1 \in 1..n /\ i + 1 - 1 = i /\ i <= n
    BY <1>1
  <2>2. d[i + 1] = FramesOf(c, i + 1, d[i])
    BY <1>2, <2>1
  <2>3. Listed(c, d[i], <<i + 1, 0>>)
    BY <2>1
  <2> QED
    BY <2>1, <2>2, <2>3, ThreadListed
<1>5. n \in M
  <2> HIDE DEF M, n
  <2> QED
    BY <1>1, <1>3, <1>4, Induct
<1> QED
  BY <1>1, <1>2, <1>5

(* Each frame has its own depth.                                           *)
LEMMA DepthsDiffer ==
  ASSUME NEW c \in Stops
  PROVE  /\ \A f \in LuaFrames(c) : Depth(c, f) \in Nat
         /\ \A f, g \in LuaFrames(c) : Depth(c, f) = Depth(c, g) => f = g
<1>1. IsFiniteSet(LuaFrames(c))
  <2>1. Before(c, <<Len(c.chain) + 1, 0>>) = LuaFrames(c)
    <3> SUFFICES ASSUME NEW g \in LuaFrames(c) PROVE Earlier(g, <<Len(c.chain) + 1, 0>>)
      BY DEF Before
    <3>1. g[1] \in 1..Len(c.chain) /\ Len(c.chain) \in Nat
      BY FrameParts, StopIs
    <3>2. g[1] < Len(c.chain) + 1
      BY <3>1
    <3> QED
      BY <3>2 DEF Earlier
  <2> QED
    BY <2>1, FramesListed DEF Listed
<1>2. ASSUME NEW f \in LuaFrames(c)
      PROVE  IsFiniteSet(Before(c, f)) /\ Depth(c, f) = Cardinality(Before(c, f)) /\ Depth(c, f) \in Nat
  <2>1. Before(c, f) \in SUBSET LuaFrames(c)
    BY DEF Before
  <2> QED
    BY <1>1, <2>1, FS_Subset, FS_CardinalityType DEF Depth, Before
<1>3. ASSUME NEW f \in LuaFrames(c), NEW g \in LuaFrames(c), Earlier(f, g)
      PROVE  Depth(c, f) < Depth(c, g)
  <2>1. f[1] \in Nat /\ f[2] \in Nat /\ g[1] \in Nat /\ g[2] \in Nat
    BY FrameParts, StopIs
  <2>2. f \notin Before(c, f)
    BY <2>1 DEF Before, Earlier
  <2>3. Before(c, f) \cup {f} \in SUBSET Before(c, g)
    <3> SUFFICES ASSUME NEW h \in LuaFrames(c), Earlier(h, f) PROVE Earlier(h, g)
      BY <1>3 DEF Before
    <3>1. h[1] \in Nat /\ h[2] \in Nat
      BY FrameParts, StopIs
    <3> QED
      BY <1>3, <2>1, <3>1 DEF Earlier
  <2>4. Cardinality(Before(c, f) \cup {f}) = Cardinality(Before(c, f)) + 1
    BY <1>2, <2>2, FS_AddElement
  <2>5. Cardinality(Before(c, f) \cup {f}) <= Cardinality(Before(c, g))
    BY <1>2, <2>3, FS_Subset
  <2> QED
    BY <1>2, <2>4, <2>5
<1>4. ASSUME NEW f \in LuaFrames(c), NEW g \in LuaFrames(c), f # g
      PROVE  Earlier(f, g) \/ Earlier(g, f)
  <2>1. /\ f[1] \in Nat /\ f[2] \in Nat /\ g[1] \in Nat /\ g[2] \in Nat
        /\ f = <<f[1], f[2]>> /\ g = <<g[1], g[2]>>
    BY FrameParts, StopIs
  <2>2. f[1] # g[1] \/ f[2] # g[2]
    BY <1>4, <2>1
  <2> QED
    BY <2>1, <2>2 DEF Earlier
<1>5. ASSUME NEW f \in LuaFrames(c), NEW g \in LuaFrames(c), Depth(c, f) = Depth(c, g)
      PROVE  f = g
  <2>1. ~ Earlier(f, g) /\ ~ Earlier(g, f)
    BY <1>2, <1>3, <1>5
  <2> QED
    BY <1>4, <2>1
<1> QED
  BY <1>2, <1>5

-----------------------------------------------------------------------------
(* The types, the references and the frames.                               *)

StopOK ==
  /\ stop \in Stops \cup {Running} /\ behind \in BOOLEAN
  /\ stop # Running => store \in [Places(stop) -> Value]

(* What is shown are variables of the program, with values it may hold.    *)
VariablesOK ==
  /\ loaded \subseteq Tables
  /\ \A s \in DOMAIN variables_ : \A v \in variables_[s] :
       v.at \in DOMAIN store /\ v.value \in Value

(* The local variables of a frame are behind the scope with its depth.     *)
LocalsOK ==
  stop # Running =>
    \A f \in LuaFrames(stop) :
      \A v \in variables_[getLocalScope(Src(stop), Depth(stop, f))] : v.at = LocalOf(stop, f)

(* The client's frames are of this stop, each with its depth.              *)
FramesOK ==
  IF stop = Running THEN shown = <<>> /\ stack_frames_ = <<>>
  ELSE /\ shown \in Seq(LuaFrames(stop)) /\ stack_frames_ \in Seq([L : Threads, depth : Nat])
       /\ Len(stack_frames_) = Len(shown)
       /\ \A id \in 1..Len(shown) : /\ stack_frames_[id].L = Src(stop)
                                    /\ stack_frames_[id].depth = Depth(stop, shown[id])

Inspected == /\ IInv /\ StopOK /\ VariablesOK /\ LocalsOK /\ FramesOK
             /\ ReferencesResolve

LEMMA LocalScopes ==
  /\ \A t, d, u, e : getLocalScope(t, d) = getLocalScope(u, e) => t = u /\ d = e
  /\ \A t, d, u, e : getLocalScope(t, d) # getUpvalueScope(u, e)
  /\ \A t, d : getLocalScope(t, d) # getGlobalScope
  /\ \A t, d : ~ IsTable(getLocalScope(t, d))
  BY DEF getLocalScope, getUpvalueScope, getGlobalScope, IsTable

(* An update reads variables of the program, and into the scope of a frame *)
(* only that frame's.                                                      *)
LEMMA FetchedPlaces ==
  ASSUME NEW c \in Stops, NEW held
  PROVE  /\ \A e \in Fetched(c, held) : e[2].at \in Places(c)
         /\ \A e \in Fetched(c, held) : \A f \in LuaFrames(c) :
              e[1] = getLocalScope(Src(c), Depth(c, f)) => e[2].at = LocalOf(c, f)
<1>1. \A p : Variable(p, held).at = p
  BY DEF Variable
<1> SUFFICES ASSUME NEW e \in Fetched(c, held)
             PROVE  /\ e[2].at \in Places(c)
                    /\ \A f \in LuaFrames(c) :
                         e[1] = getLocalScope(Src(c), Depth(c, f)) => e[2].at = LocalOf(c, f)
  OBVIOUS
<1>2. CASE e \in FetchGlobals(held)
  <2>1. e[1] = getGlobalScope /\ e[2] = Variable(Global, held)
    BY <1>2 DEF FetchGlobals
  <2> QED
    BY <1>1, <2>1, LocalScopes DEF Places
<1>3. ASSUME NEW g \in LuaFrames(c), e \in FetchFromStack(c, g, held)
      PROVE  /\ e[2].at \in Places(c)
             /\ \A f \in LuaFrames(c) :
                  e[1] = getLocalScope(Src(c), Depth(c, f)) => e[2].at = LocalOf(c, f)
  <2>1. CASE e = <<getLocalScope(Src(c), Depth(c, g)), Variable(LocalOf(c, g), held)>>
    <3>1. e[1] = getLocalScope(Src(c), Depth(c, g)) /\ e[2].at = LocalOf(c, g)
      BY <1>1, <2>1
    <3>2. ASSUME NEW f \in LuaFrames(c), e[1] = getLocalScope(Src(c), Depth(c, f))
          PROVE  f = g
      <4>1. Depth(c, f) = Depth(c, g)
        BY <3>1, <3>2, LocalScopes
      <4> QED
        BY <4>1, DepthsDiffer
    <3> QED
      BY <3>1, <3>2 DEF Places
  <2>2. CASE e = <<getUpvalueScope(Src(c), Depth(c, g)), Variable(Upvalue, held)>>
    BY <1>1, <2>2, LocalScopes DEF Places
  <2> QED
    BY <1>3, <2>1, <2>2 DEF FetchFromStack
<1> QED
  BY <1>2, <1>3 DEF Fetched

(* Code of the program that a request runs leaves the places as they are.  *)
LEMMA EffectsType ==
  ASSUME NEW P, NEW held \in [P -> Value], NEW s \in Effects(held)
  PROVE  s \in [P -> Value]
  BY DEF Effects

(* VariableRegistry::update, as the types and the scopes of frames see it. *)
LEMMA UpdateTypes ==
  ASSUME NEW c \in Stops, NEW registry, NEW held \in [Places(c) -> Value], stop' = c,
         DOMAIN registry \subseteq ScopesOfStop(c) \cup {TableScope(t) : t \in Tables},
         Update(c, registry, held)
  PROVE  StopOK' /\ VariablesOK' /\ LocalsOK' /\ DOMAIN registry \subseteq DOMAIN variables_'
<1>1. /\ loaded' = {} /\ behind' \in BOOLEAN
      /\ DOMAIN variables_' = DOMAIN registry \cup ScopesOfStop(c)
                                \cup ScopesOf({e[2] : e \in Fetched(c, held)})
  BY UpdateIs
<1>2. \A s \in DOMAIN variables_' :
        \/ IsTable(s) /\ variables_'[s] = {}
        \/ variables_'[s] = {e[2] : e \in {x \in Fetched(c, held) : x[1] = s}}
  <2>1. \A s \in DOMAIN variables_' :
          \/ IsTable(s) /\ variables_'[s] = {}
          \/ /\ ~IsTable(s) /\ s \in ScopesOfStop(c)
             /\ variables_'[s] = {e[2] : e \in {x \in Fetched(c, held) : x[1] = s}}
             /\ {x \in Fetched(c, held) : x[1] = s} # {}
    BY UpdateIs
  <2> QED
    BY <2>1
<1>3. StopOK' /\ store' \in [Places(c) -> Value]
  <2>1. store' \in Effects(held)
    BY DEF Update
  <2>2. store' \in [Places(c) -> Value]
    BY <2>1, EffectsType
  <2> QED
    BY <1>1, <2>2 DEF StopOK
<1>4. VariablesOK'
  <2> SUFFICES ASSUME NEW s \in DOMAIN variables_', NEW v \in variables_'[s]
               PROVE  v.at \in DOMAIN store' /\ v.value \in Value
    BY <1>1 DEF VariablesOK
  <2>1. PICK e \in Fetched(c, held) : v = e[2]
    BY <1>2
  <2>2. e[2].at \in Places(c) /\ e[2].value = held[e[2].at]
    BY FetchedPlaces, FetchedScopes
  <2>3. DOMAIN store' = Places(c) /\ held[e[2].at] \in Value
    BY <1>3, <2>2
  <2> QED
    BY <2>1, <2>2, <2>3
<1>5. LocalsOK'
  <2> SUFFICES ASSUME NEW f \in LuaFrames(c),
                      NEW v \in variables_'[getLocalScope(Src(c), Depth(c, f))]
               PROVE  v.at = LocalOf(c, f)
    BY DEF LocalsOK
  <2> DEFINE s == getLocalScope(Src(c), Depth(c, f))
  <2>1. s \in DOMAIN variables_' /\ ~IsTable(s)
    BY <1>1, LocalScopes DEF ScopesOfStop
  <2>2. PICK e \in Fetched(c, held) : e[1] = s /\ v = e[2]
    BY <1>2, <2>1
  <2> QED
    BY <2>2, FetchedPlaces
<1> QED
  BY <1>1, <1>3, <1>4, <1>5

LEMMA AssignedType ==
  ASSUME StopOK, stop # Running, NEW variable, NEW s \in Assigned(variable)
  PROVE  s \in [Places(stop) -> Value]
<1>1. PICK v \in Value : s \in Written(variable.at, v)
  BY DEF Assigned
<1>2. PICK after \in Effects(store) : s = [after EXCEPT ![variable.at] = v]
  BY <1>1 DEF Written
<1>3. after \in [Places(stop) -> Value]
  BY EffectsType DEF StopOK
<1> QED
  BY <1>2, <1>3

(* A step that adds scopes of tables and changes no other scope.           *)
LEMMA OtherScopes ==
  ASSUME Inspected, UNCHANGED stop,
         DOMAIN variables_ \subseteq DOMAIN variables_',
         \A s \in DOMAIN variables_ : ~IsTable(s) => variables_'[s] = variables_[s]
  PROVE  LocalsOK'
<1> SUFFICES ASSUME stop # Running, NEW f \in LuaFrames(stop),
                    NEW v \in variables_'[getLocalScope(Src(stop), Depth(stop, f))]
             PROVE  v.at = LocalOf(stop, f)
  BY DEF LocalsOK
<1> DEFINE s == getLocalScope(Src(stop), Depth(stop, f))
<1>1. s \in DOMAIN variables_ /\ ~IsTable(s)
  BY LocalScopes DEF Inspected, IInv, RegistryWhole, ScopesOfStop
<1>2. variables_'[s] = variables_[s]
  BY <1>1
<1> QED
  BY <1>2 DEF Inspected, LocalsOK

(* A step that keeps the registry, and at most changes what the program    *)
(* holds.                                                                  *)
LEMMA KeepingTypes ==
  ASSUME Inspected, UNCHANGED <<stop, cache>>, behind' \in BOOLEAN,
         stop # Running => store' \in [Places(stop) -> Value],
         stop = Running => UNCHANGED store
  PROVE  StopOK' /\ VariablesOK' /\ LocalsOK'
<1>1. StopOK'
  BY DEF Inspected, StopOK
<1>2. VariablesOK'
  <2>1. DOMAIN store' = DOMAIN store
    BY DEF Inspected, StopOK
  <2> QED
    BY <2>1 DEF Inspected, VariablesOK, cache
<1>3. LocalsOK'
  BY OtherScopes DEF cache
<1> QED
  BY <1>1, <1>2, <1>3

LEMMA ConcatIs ==
  ASSUME NEW S, NEW s \in Seq(S), NEW t \in Seq(S)
  PROVE  /\ s \o t \in Seq(S) /\ Len(s \o t) = Len(s) + Len(t) /\ Len(s) \in Nat
         /\ \A k \in 1..Len(s) : (s \o t)[k] = s[k]
         /\ \A k \in 1..Len(t) : (s \o t)[Len(s) + k] = t[k]
  OBVIOUS

(* getStackTrace lists frames of the stop, with their depths.              *)
LEMMA TraceTypes == ASSUME Inspected, GetStackTrace PROVE FramesOK'
<1> DEFINE F == Frames(stop)
           infos == [n \in DOMAIN F |-> [L |-> Src(stop), depth |-> n - 1]]
<1>1. /\ stop # Running /\ stop \in Stops /\ UNCHANGED stop
      /\ shown' = shown \o F /\ stack_frames_' = stack_frames_ \o infos
  BY DEF GetStackTrace, Inspected, StopOK
<1>2. F \in Seq(LuaFrames(stop)) /\ \A k \in 1..Len(F) : Depth(stop, F[k]) = k - 1
  BY <1>1, FramesListed DEF Listed
<1>3. /\ shown \in Seq(LuaFrames(stop)) /\ stack_frames_ \in Seq([L : Threads, depth : Nat])
      /\ Len(stack_frames_) = Len(shown)
      /\ \A id \in 1..Len(shown) : /\ stack_frames_[id].L = Src(stop)
                                   /\ stack_frames_[id].depth = Depth(stop, shown[id])
  BY <1>1 DEF Inspected, FramesOK
<1>4. Src(stop) \in Threads
  BY <1>1, StopIs
<1> HIDE DEF F
<1>5. DOMAIN F = 1..Len(F) /\ Len(F) \in Nat
  BY <1>2
<1>6. /\ infos \in Seq([L : Threads, depth : Nat]) /\ Len(infos) = Len(F)
      /\ \A k \in 1..Len(F) : infos[k] = [L |-> Src(stop), depth |-> k - 1]
  <2>1. \A k \in 1..Len(F) : [L |-> Src(stop), depth |-> k - 1] \in [L : Threads, depth : Nat]
    BY <1>4
  <2>2. infos \in [1..Len(F) -> [L : Threads, depth : Nat]]
    BY <1>5, <2>1
  <2> QED
    BY <1>5, <2>2
<1> HIDE DEF infos
<1>7. /\ shown' \in Seq(LuaFrames(stop)) /\ Len(shown') = Len(shown) + Len(F)
      /\ Len(shown) \in Nat
      /\ \A id \in 1..Len(shown) : shown'[id] = shown[id]
      /\ \A k \in 1..Len(F) : shown'[Len(shown) + k] = F[k]
  BY <1>1, <1>2, <1>3, ConcatIs
<1>8. /\ stack_frames_' \in Seq([L : Threads, depth : Nat])
      /\ Len(stack_frames_') = Len(shown) + Len(F)
      /\ \A id \in 1..Len(shown) : stack_frames_'[id] = stack_frames_[id]
      /\ \A k \in 1..Len(F) : stack_frames_'[Len(shown) + k] = infos[k]
  <2> DEFINE I == [L : Threads, depth : Nat]
  <2>1. stack_frames_ \in Seq(I) /\ infos \in Seq(I)
    BY <1>3, <1>6
  <2> HIDE DEF I
  <2>2. /\ stack_frames_' \in Seq(I)
        /\ Len(stack_frames_') = Len(stack_frames_) + Len(infos)
        /\ \A id \in 1..Len(stack_frames_) : stack_frames_'[id] = stack_frames_[id]
        /\ \A k \in 1..Len(infos) : stack_frames_'[Len(stack_frames_) + k] = infos[k]
    BY <1>1, <2>1, ConcatIs
  <2>3. Len(stack_frames_) = Len(shown) /\ Len(infos) = Len(F)
    BY <1>3, <1>6
  <2> USE DEF I
  <2> QED
    BY <2>2, <2>3
<1>9. ASSUME NEW id \in 1..Len(shown')
      PROVE  /\ stack_frames_'[id].L = Src(stop)
             /\ stack_frames_'[id].depth = Depth(stop, shown'[id])
  <2>1. CASE id \in 1..Len(shown)
    BY <1>3, <1>7, <1>8, <2>1
  <2>2. CASE id \notin 1..Len(shown)
    <3> DEFINE k == id - Len(shown)
    <3>1. k \in 1..Len(F) /\ id = Len(shown) + k
      BY <1>5, <1>7, <2>2
    <3> HIDE DEF k
    <3>2. stack_frames_'[Len(shown) + k] = infos[k] /\ shown'[Len(shown) + k] = F[k]
      BY <1>7, <1>8, <3>1
    <3>3. infos[k] = [L |-> Src(stop), depth |-> k - 1]
      BY <1>6, <3>1
    <3>4. infos[k].L = Src(stop) /\ infos[k].depth = k - 1
      BY <3>3
    <3>5. Depth(stop, F[k]) = k - 1
      BY <1>2, <3>1
    <3> QED
      BY <3>1, <3>2, <3>4, <3>5
  <2> QED
    BY <2>1, <2>2
<1> QED
  BY <1>1, <1>7, <1>8, <1>9 DEF FramesOK

(* getScopes gives references to scopes that are registered.               *)
LEMMA ScopesResolve ==
  ASSUME Inspected, NEW id, GetScopes(id)
  PROVE  ReferencesResolve'
<1> DEFINE frame == stack_frames_[id]
           refs  == {getLocalScope(frame.L, frame.depth),
                     getUpvalueScope(frame.L, frame.depth), getGlobalScope}
<1>1. /\ stop # Running /\ id \in DOMAIN stack_frames_ /\ UNCHANGED variables_
      /\ known' = known \cup refs
  BY DEF GetScopes, cache
<1>2. id \in 1..Len(shown) /\ shown[id] \in LuaFrames(stop)
  BY <1>1 DEF Inspected, FramesOK
<1>3. frame.L = Src(stop) /\ frame.depth = Depth(stop, shown[id])
  BY <1>1, <1>2 DEF Inspected, FramesOK
<1>4. refs \subseteq ScopesOfStop(stop)
  BY <1>2, <1>3 DEF ScopesOfStop
<1>5. ScopesOfStop(stop) \subseteq DOMAIN variables_
  BY <1>1 DEF Inspected, IInv, RegistryWhole
<1> HIDE DEF refs
<1> QED
  BY <1>1, <1>4, <1>5 DEF Inspected, ReferencesResolve

(* getVariables gives references to scopes that are registered, and shows  *)
(* variables of the program.                                               *)
LEMMA OpeningKeeps ==
  ASSUME Inspected, IInv', NEW s, GetVariables(s)
  PROVE  Inspected'
<1>1. /\ stop # Running /\ s \in DOMAIN variables_ /\ UNCHANGED stop
      /\ UNCHANGED <<stack_frames_, shown>> /\ known' = known \cup ScopesOf(variables_'[s])
      /\ IF isLoaded(s) THEN UNCHANGED <<store, cache>> ELSE LoadFields(s)
      /\ behind' \in BOOLEAN
  BY DEF GetVariables, Unrefreshed, Inspected, StopOK
<1>t. store \in [Places(stop) -> Value] /\ store' \in [Places(stop) -> Value]
  <2>1. store \in [Places(stop) -> Value]
    BY <1>1 DEF Inspected, StopOK
  <2>2. store' = store \/ store' \in Effects(store)
    BY <1>1 DEF LoadFields
  <2> QED
    BY <2>1, <2>2, EffectsType
<1>2. StopOK' /\ FramesOK'
  <2>1. StopOK'
    BY <1>1, <1>t DEF Inspected, StopOK
  <2>2. FramesOK'
    BY <1>1 DEF Inspected, FramesOK
  <2> QED
    BY <2>1, <2>2
<1>3. CASE isLoaded(s)
  <2>1. VariablesOK' /\ LocalsOK'
    <3>1. UNCHANGED <<stop, cache>>
      BY <1>1, <1>3
    <3> QED
      BY <1>1, <1>t, <3>1, KeepingTypes
  <2>2. variables_' = variables_
    BY <1>1, <1>3 DEF cache
  <2>3. ReferencesResolve'
    BY <1>1, <2>2 DEF Inspected, ReferencesResolve, IInv, RegistryWhole
  <2> QED
    BY <1>2, <2>1, <2>3 DEF Inspected
<1>4. CASE ~ isLoaded(s)
  <2>1. PICK fields : Loads(s, fields)
    BY <1>1, <1>4, LoadIs DEF Inspected
  <2>2. IsTable(s) /\ s[2] \in Tables
    BY <1>1, <1>4, LoadIs DEF Inspected
  <2>3. /\ loaded' = loaded \cup {s[2]}
        /\ DOMAIN variables_' = DOMAIN variables_ \cup ScopesOf(fields)
        /\ variables_'[s] = fields
        /\ \A x \in DOMAIN variables_ \ {s} : variables_'[x] = variables_[x]
        /\ \A x \in ScopesOf(fields) \ DOMAIN variables_ : variables_'[x] = {}
    BY <2>1 DEF Loads
  <2>4. \A v \in fields : v.at \in DOMAIN store /\ v.value \in Value
    <3> SUFFICES ASSUME NEW held \in {store, store'}, fields = {Variable(Field(s[2]), held)}
                 PROVE  \A v \in fields : v.at \in DOMAIN store /\ v.value \in Value
      BY <2>1 DEF Loads
    <3>1. Field(s[2]) \in Places(stop) /\ held \in [Places(stop) -> Value]
      BY <1>t, <2>2 DEF Places
    <3>2. \A v \in fields : v.at = Field(s[2]) /\ v.value = held[Field(s[2])]
      BY DEF Variable
    <3> QED
      BY <1>t, <3>1, <3>2
  <2>5. VariablesOK'
    <3>1. loaded' \subseteq Tables
      BY <2>2, <2>3 DEF Inspected, VariablesOK
    <3>2. ASSUME NEW x \in DOMAIN variables_', NEW v \in variables_'[x]
          PROVE  v.at \in DOMAIN store /\ v.value \in Value
      <4>1. CASE x = s
        BY <2>3, <2>4, <3>2, <4>1
      <4>2. CASE x \in DOMAIN variables_ \ {s}
        BY <2>3, <3>2, <4>2 DEF Inspected, VariablesOK
      <4>3. x \in ScopesOf(fields) \ DOMAIN variables_ => FALSE
        BY <2>3, <3>2
      <4> QED
        BY <2>3, <4>1, <4>2, <4>3
    <3>3. DOMAIN store' = DOMAIN store
      BY <1>t
    <3> QED
      BY <3>1, <3>2, <3>3 DEF VariablesOK
  <2>6. LocalsOK'
    <3>1. \A x \in DOMAIN variables_ : ~IsTable(x) => variables_'[x] = variables_[x]
      BY <2>2, <2>3
    <3> QED
      BY <1>1, <2>3, <3>1, OtherScopes
  <2>7. ReferencesResolve'
    <3>1. DOMAIN variables_ \subseteq DOMAIN variables_'
      BY <2>3
    <3>2. ScopesOf(variables_'[s]) \subseteq DOMAIN variables_'
      BY <2>3
    <3> QED
      BY <1>1, <3>1, <3>2 DEF Inspected, ReferencesResolve
  <2> QED
    BY <1>2, <2>5, <2>6, <2>7 DEF Inspected
<1> QED
  BY <1>3, <1>4

(* A request that only reads or changes what the program holds.            *)
LEMMA UnrefreshedKeeps ==
  ASSUME Inspected, IInv', stop # Running, UNCHANGED <<stop, cache, client>>, Unrefreshed,
         store' \in Effects(store)
  PROVE  Inspected'
<1>1. behind' \in BOOLEAN
  BY DEF Unrefreshed, Inspected, StopOK
<1>2. store' \in [Places(stop) -> Value]
  BY EffectsType DEF Inspected, StopOK
<1>3. StopOK' /\ VariablesOK' /\ LocalsOK'
  BY <1>1, <1>2, KeepingTypes
<1> QED
  BY <1>3 DEF Inspected, FramesOK, ReferencesResolve, client, cache

(* A request that ends with an update of the registry.                     *)
LEMMA UpdatedKeeps ==
  ASSUME Inspected, IInv', stop # Running, UNCHANGED <<stop, stack_frames_, shown>>,
         NEW held \in [Places(stop) -> Value], NEW added,
         added \subseteq {TableScope(t) : t \in Tables}, known' \subseteq known \cup added,
         Update(stop, Registered(added), held)
  PROVE  Inspected'
<1>1. stop \in Stops
  BY DEF Inspected, StopOK
<1>2. DOMAIN Registered(added) = DOMAIN variables_ \cup added
  BY DEF Registered
<1>3. DOMAIN Registered(added) \subseteq ScopesOfStop(stop) \cup {TableScope(t) : t \in Tables}
  BY <1>2 DEF Inspected, IInv, RegistryWhole
<1>4. StopOK' /\ VariablesOK' /\ LocalsOK' /\ DOMAIN Registered(added) \subseteq DOMAIN variables_'
  BY <1>1, <1>3, UpdateTypes
<1>5. ReferencesResolve'
  BY <1>2, <1>4 DEF Inspected, ReferencesResolve
<1> QED
  BY <1>4, <1>5 DEF Inspected, FramesOK

(* An assignment.                                                          *)
LEMMA AssigningKeeps ==
  ASSUME Inspected, IInv', NEW s, SetVariable(s)
  PROVE  Inspected'
<1>1. stop # Running /\ s \in DOMAIN variables_ /\ UNCHANGED <<stop, client>>
  BY DEF SetVariable
<1>2. PICK variable \in variables_[s] :
        \/ \E held \in Effects(store) \cup Assigned(variable) : Update(stop, variables_, held)
        \/ store' \in Effects(store) /\ Unrefreshed /\ UNCHANGED cache
  BY DEF SetVariable
<1>3. ASSUME NEW held \in Effects(store) \cup Assigned(variable),
             Update(stop, variables_, held)
      PROVE  Inspected'
  <2>1. held \in [Places(stop) -> Value]
    <3>1. CASE held \in Effects(store)
      BY <1>1, <3>1, EffectsType DEF Inspected, StopOK
    <3>2. CASE held \in Assigned(variable)
      BY <1>1, <3>2, AssignedType DEF Inspected
    <3> QED
      BY <1>3, <3>1, <3>2
  <2>2. stop \in Stops
    BY <1>1 DEF Inspected, StopOK
  <2>3. DOMAIN variables_ \subseteq ScopesOfStop(stop) \cup {TableScope(t) : t \in Tables}
    BY <1>1 DEF Inspected, IInv, RegistryWhole
  <2>4. StopOK' /\ VariablesOK' /\ LocalsOK' /\ DOMAIN variables_ \subseteq DOMAIN variables_'
    BY <1>1, <1>3, <2>1, <2>2, <2>3, UpdateTypes
  <2> QED
    BY <1>1, <2>4 DEF Inspected, FramesOK, ReferencesResolve, client
<1>4. CASE store' \in Effects(store) /\ Unrefreshed /\ UNCHANGED cache
  BY <1>1, <1>4, UnrefreshedKeeps
<1> QED
  BY <1>2, <1>3, <1>4

(* An evaluation.                                                          *)
LEMMA EvaluatingKeeps ==
  ASSUME Inspected, IInv', NEW id, NEW context, Evaluate(id, context)
  PROVE  Inspected'
<1>1. stop # Running /\ UNCHANGED <<stop, stack_frames_, shown>>
  BY DEF Evaluate
<1>2. \A held \in Effects(store) : held \in [Places(stop) -> Value]
  BY <1>1, EffectsType DEF Inspected, StopOK
<1>3. ASSUME NEW result \in {{}} \cup {{TableScope(t)} : t \in Tables},
             known' = known \cup result,
             NEW held \in Effects(store), Update(stop, Registered(result), held)
      PROVE  Inspected'
  BY <1>1, <1>2, <1>3, UpdatedKeeps
<1>4. ASSUME NEW result \in {{}} \cup {{TableScope(t)} : t \in Tables},
             known' = known \cup result, store' \in Effects(store),
             variables_' = Registered(result), UNCHANGED loaded, Unrefreshed
      PROVE  Inspected'
  <2>0. result \subseteq {TableScope(t) : t \in Tables}
    OBVIOUS
  <2>1. /\ DOMAIN variables_' = DOMAIN variables_ \cup result
        /\ \A x \in DOMAIN variables_ : variables_'[x] = variables_[x]
        /\ \A x \in result \ DOMAIN variables_ : variables_'[x] = {}
    BY <1>1, <1>4, <2>0, RegisteredKeeps DEF Inspected
  <2>2. StopOK'
    BY <1>1, <1>2, <1>4 DEF Inspected, StopOK, Unrefreshed
  <2>3. VariablesOK'
    <3>1. DOMAIN store' = DOMAIN store
      BY <1>1, <1>2, <1>4 DEF Inspected, StopOK
    <3> QED
      BY <1>4, <2>1, <3>1 DEF Inspected, VariablesOK
  <2>4. LocalsOK'
    BY <1>1, <2>1, OtherScopes
  <2> QED
    BY <1>1, <1>4, <2>1, <2>2, <2>3, <2>4 DEF Inspected, FramesOK, ReferencesResolve
<1>5. CASE store' \in Effects(store) /\ Unrefreshed /\ UNCHANGED <<cache, known>>
  BY <1>1, <1>5, UnrefreshedKeeps DEF client
<1> QED
  BY <1>3, <1>4, <1>5 DEF Evaluate

LEMMA InspectedStep == Inspected /\ IInv' /\ [Next]_vars => Inspected'
<1> SUFFICES ASSUME Inspected, IInv', [Next]_vars PROVE Inspected'
  OBVIOUS
<1>1. CASE MainThreadWait
  <2>1. PICK c \in Stops : stop' = c /\ \E held \in [Places(c) -> Value] : Update(c, <<>>, held)
    BY <1>1 DEF MainThreadWait
  <2>2. stop = Running /\ UNCHANGED client /\ stop' # Running
    BY <1>1, <2>1, StopsHaveThreads DEF MainThreadWait
  <2>3. DOMAIN <<>> \subseteq ScopesOfStop(c) \cup {TableScope(t) : t \in Tables}
    OBVIOUS
  <2>4. StopOK' /\ VariablesOK' /\ LocalsOK'
    BY <2>1, <2>3, UpdateTypes
  <2>5. shown' = <<>> /\ stack_frames_' = <<>>
    BY <2>2 DEF Inspected, FramesOK, client
  <2>6. FramesOK'
    BY <2>2, <2>5 DEF FramesOK
  <2>7. known' = {}
    <3>1. DOMAIN variables_ = {}
      BY <2>2 DEF Inspected, IInv, RegistryWhole
    <3> QED
      BY <2>2, <3>1 DEF Inspected, ReferencesResolve, client
  <2> QED
    BY <2>4, <2>6, <2>7 DEF Inspected, ReferencesResolve
<1>2. CASE Resume
  <2>1. /\ stop' = Running /\ variables_' = <<>> /\ loaded' = {} /\ behind' = FALSE
        /\ stack_frames_' = <<>> /\ shown' = <<>> /\ known' = {}
    BY <1>2 DEF Resume
  <2>2. DOMAIN variables_' = {}
    BY <2>1
  <2> QED
    BY <2>1, <2>2 DEF Inspected, StopOK, VariablesOK, LocalsOK, FramesOK, ReferencesResolve
<1>q. ASSUME UNCHANGED <<stop, store, cache, behind>> PROVE StopOK' /\ VariablesOK' /\ LocalsOK'
  BY <1>q, KeepingTypes DEF Inspected, StopOK
<1>3. CASE GetStackTrace
  <2>1. FramesOK'
    BY <1>3, TraceTypes
  <2>2. UNCHANGED <<stop, store, cache, behind, known>>
    BY <1>3 DEF GetStackTrace
  <2> QED
    BY <1>q, <2>1, <2>2 DEF Inspected, ReferencesResolve, cache
<1>4. ASSUME NEW id, GetScopes(id) PROVE Inspected'
  <2>1. UNCHANGED <<stop, store, cache, behind, stack_frames_, shown>>
    BY <1>4 DEF GetScopes
  <2>2. ReferencesResolve'
    BY <1>4, ScopesResolve
  <2> QED
    BY <1>q, <2>1, <2>2 DEF Inspected, FramesOK
<1>5. ASSUME NEW s, GetVariables(s) PROVE Inspected'
  BY <1>5, OpeningKeeps
<1>6. ASSUME NEW s, SetVariable(s) PROVE Inspected'
  BY <1>6, AssigningKeeps
<1>7. ASSUME NEW id, NEW context, Evaluate(id, context) PROVE Inspected'
  BY <1>7, EvaluatingKeeps
<1>8. CASE UNCHANGED vars
  <2>1. UNCHANGED <<stop, store, cache, behind, known, stack_frames_, shown>>
    BY <1>8 DEF vars, client
  <2> QED
    BY <1>q, <2>1 DEF Inspected, FramesOK, ReferencesResolve, cache
<1> QED
  BY <1>1, <1>2, <1>3, <1>4, <1>5, <1>6, <1>7, <1>8 DEF Next

LEMMA AlwaysInspected == Spec => []Inspected
<1>1. Init => Inspected
  <2> SUFFICES ASSUME Init PROVE Inspected
    OBVIOUS
  <2>1. DOMAIN <<>> = {}
    OBVIOUS
  <2> QED
    BY <2>1 DEF Init, Inspected, IInv, RegistryWhole, CacheFresh, StopOK, VariablesOK,
       LocalsOK, FramesOK, ReferencesResolve
<1>2. Inspected /\ IInv' /\ [Next]_vars => Inspected'
  BY InspectedStep
<1> QED
  BY <1>1, <1>2, Invariance, PTL DEF Spec

(* Every reference the client holds names a registered scope as long as    *)
(* the program is stopped (getScopes, getVariables, evaluate).             *)
THEOREM Resolve == Spec => []ReferencesResolve
<1>1. Inspected => ReferencesResolve
  BY DEF Inspected
<1> QED
  BY <1>1, AlwaysInspected, PTL

(* The two numberings agree for any call chains: what is registered under  *)
(* the depth updateStackFrames gave a frame are that frame's locals.       *)
THEOREM FramesAgree == Spec => []ScopesOfFrames
<1>1. Inspected => ScopesOfFrames
  <2> SUFFICES ASSUME Inspected, NEW id \in DOMAIN shown
               PROVE  LET s == getLocalScope(stack_frames_[id].L, stack_frames_[id].depth)
                      IN  /\ s \in DOMAIN variables_
                          /\ \A v \in variables_[s] : v.at = LocalOf(stop, shown[id])
    BY DEF ScopesOfFrames
  <2>1. stop # Running
    BY DEF Inspected, FramesOK
  <2>2. id \in 1..Len(shown) /\ shown[id] \in LuaFrames(stop)
    BY <2>1 DEF Inspected, FramesOK
  <2>3. stack_frames_[id].L = Src(stop) /\ stack_frames_[id].depth = Depth(stop, shown[id])
    BY <2>1, <2>2 DEF Inspected, FramesOK
  <2>4. getLocalScope(Src(stop), Depth(stop, shown[id])) \in DOMAIN variables_
    BY <2>1, <2>2 DEF Inspected, IInv, RegistryWhole, ScopesOfStop
  <2> QED
    BY <2>1, <2>2, <2>3, <2>4 DEF Inspected, LocalsOK
<1> QED
  BY <1>1, AlwaysInspected, PTL

(* Every variable has its type, and the client has a frame for each entry  *)
(* of stack_frames_.                                                       *)
THEOREM Types == Spec => []TypeOK
<1>1. Inspected => TypeOK
  <2> SUFFICES ASSUME Inspected PROVE TypeOK
    OBVIOUS
  <2>1. DOMAIN variables_ \subseteq Scope
    <3>1. CASE stop = Running
      <4>1. DOMAIN variables_ = {}
        BY <3>1 DEF Inspected, IInv, RegistryWhole
      <4> QED
        BY <4>1
    <3>2. CASE stop # Running
      <4>1. stop \in Stops
        BY <3>2 DEF Inspected, StopOK
      <4>2. ScopesOfStop(stop) \subseteq Scope
        <5>1. Src(stop) \in Threads /\ \A f \in LuaFrames(stop) : Depth(stop, f) \in Nat
          BY <4>1, StopIs, DepthsDiffer
        <5> QED
          BY <5>1 DEF ScopesOfStop, Scope, getLocalScope, getUpvalueScope
      <4>3. {TableScope(t) : t \in Tables} \subseteq Scope
        BY DEF Scope
      <4> QED
        BY <3>2, <4>2, <4>3 DEF Inspected, IInv, RegistryWhole
    <3> QED
      BY <3>1, <3>2
  <2>2. known \subseteq Scope
    BY <2>1 DEF Inspected, ReferencesResolve
  <2>3. Len(stack_frames_) = Len(shown) /\ stack_frames_ \in Seq([L : Threads, depth : Nat])
    <3>1. CASE stop = Running
      <4>1. shown = <<>> /\ stack_frames_ = <<>>
        BY <3>1 DEF Inspected, FramesOK
      <4>2. <<>> \in Seq([L : Threads, depth : Nat])
        OBVIOUS
      <4> QED
        BY <4>1, <4>2
    <3>2. CASE stop # Running
      BY <3>2 DEF Inspected, FramesOK
    <3> QED
      BY <3>1, <3>2
  <2> QED
    BY <2>1, <2>2, <2>3 DEF Inspected, StopOK, VariablesOK, TypeOK
<1> QED
  BY <1>1, AlwaysInspected, PTL

=============================================================================
