--------------------------- MODULE RegistryProofs ---------------------------
(***************************************************************************)
(* Proofs about module Registry, for every set of goroutines, of names, of *)
(* settings and of arguments of Configure, and any number of operations.   *)
(***************************************************************************)
EXTENDS Registry, FiniteSetTheorems, TLAPS

----------------------------------------------------------------------------
(* The strengthening that makes the properties inductive.                  *)

Location ==
    {"idle", "lockSettings", "clone", "store", "getSettings", "lockBreakers", "recheck",
     "create", "publish", "using", "running", "reporting", "flush", "drop"}

\* What newCircuitBreaker makes.
Circuit == [name : Name, max : Int, tickets : Int, born : Nat, events : SUBSET Nat]

\* A map from some of the names to S.
IsMap(m, S) == DOMAIN m \subseteq Name /\ \A n \in DOMAIN m : m[n] \in S

ControlTypes ==
    /\ pc \in [Proc -> Location]
    /\ op \in [Proc -> {"none", "configure", "read", "get", "flush"}]
    /\ name \in [Proc -> Name \cup {None}]

SettingsTypes ==
    /\ IsMap(circuitSettings, [Field -> Int])
    /\ DOMAIN cmds = Proc /\ \A p \in Proc : IsMap(cmds[p], [Field -> Int])
    /\ DOMAIN settings = Proc /\ \A p \in Proc : IsMap(settings[p], [Field -> Int])
    /\ max \in [Proc -> Int]

HeapTypes ==
    /\ heap \in Seq(Circuit)
    /\ flushes \in Nat
    /\ DOMAIN cbs = Proc
    /\ DOMAIN result = Proc

\* Which operation a goroutine is in at which place of the code.
OpInv ==
    \A p \in Proc :
        /\ pc[p] \in {"lockSettings", "clone", "store"} => op[p] \in {"configure", "read", "get"}
        /\ pc[p] = "getSettings" => op[p] \in {"read", "get"}
        /\ pc[p] \in {"recheck", "create", "publish", "using", "running", "reporting"} =>
             op[p] = "get"
        /\ pc[p] = "lockBreakers" => op[p] \in {"get", "flush"}
        /\ pc[p] \in {"flush", "drop"} => op[p] = "flush"
        /\ op[p] \in {"read", "get"} => name[p] \in Name

\* A goroutine holds settingsMutex from its Lock to the store of Configure, and
\* circuitBreakersMutex from its Lock to the end of GetCircuit or Flush, the call of
\* getSettings under newCircuitBreaker included.
InConfigure(p) == pc[p] \in {"clone", "store"}
InCreate(p) ==
    \/ pc[p] \in {"create", "publish"}
    \/ op[p] = "get" /\ pc[p] \in {"getSettings", "lockSettings", "clone", "store"}
InBreakers(p) == pc[p] \in {"recheck", "flush", "drop"} \/ InCreate(p)

LockInv ==
    \A p \in Proc :
        /\ InConfigure(p) <=> settingsMutex = p
        /\ InBreakers(p) <=> circuitBreakersMutex = p

\* The map that is about to be stored is the one that is there with the new entries.
CloneInv ==
    \A p \in Proc :
        /\ pc[p] \notin {"lockSettings", "clone", "store"} => DOMAIN cmds[p] = {}
        /\ pc[p] = "store" => settings[p] =
             Put(circuitSettings, [n \in DOMAIN cmds[p] |-> Settings(cmds[p][n])])

\* Defaults are on their way only to names that nobody has configured, or that have been
\* overtaken.
DefaultsInv ==
    \A p \in Proc : op[p] # "configure" => DOMAIN cmds[p] \cap DOMAIN explicit \subseteq overtaken

\* Whoever creates a circuit works on a copy of the map that is there, and its name is
\* not in it.
CopyInv ==
    \A p \in Proc : InCreate(p) => cbs[p] = circuitBreakers /\ name[p] \notin DOMAIN circuitBreakers

\* A circuit of the current generation, the circuits made since the last Flush, is
\* published or about to be; what is published is of the current generation.
Publishing(p, i) == pc[p] = "publish" /\ result[p] = i /\ name[p] = heap[i].name
HeapInv ==
    /\ \A p \in Proc : pc[p] \in {"publish", "using", "running", "reporting"} =>
         result[p] \in DOMAIN heap
    /\ \A p \in Proc : pc[p] = "publish" =>
         heap[result[p]].name = name[p] /\ heap[result[p]].born = flushes
    /\ \A n \in DOMAIN circuitBreakers :
         /\ circuitBreakers[n] \in DOMAIN heap
         /\ heap[circuitBreakers[n]].name = n
         /\ heap[circuitBreakers[n]].born = flushes
    /\ \A i \in DOMAIN heap :
         /\ heap[i].born <= flushes
         /\ heap[i].born = flushes =>
              \/ heap[i].name \in DOMAIN circuitBreakers /\ circuitBreakers[heap[i].name] = i
              \/ \E p \in Proc : Publishing(p, i)

\* A circuit of the current generation holds events of it alone.
EventsInv == \A i \in DOMAIN heap : heap[i].born = flushes => heap[i].events \subseteq {flushes}

\* The calls that run on circuit i.
Running(i) == {p \in Proc : pc[p] = "running" /\ result[p] = i}
TicketsInv ==
    \A i \in DOMAIN heap :
        IsFiniteSet(Running(i)) /\ heap[i].tickets + Cardinality(Running(i)) = heap[i].max

\* What newExecutorPool read is what the settings say, until the name is stored again.
SizeInv ==
    /\ \A p \in Proc : pc[p] = "create" /\ name[p] \notin resettled =>
         /\ name[p] \in DOMAIN circuitSettings
         /\ max[p] = circuitSettings[name[p]]["MaxConcurrentRequests"]
    /\ \A p \in Proc : pc[p] = "publish" /\ name[p] \notin resettled =>
         /\ name[p] \in DOMAIN circuitSettings
         /\ heap[result[p]].max = circuitSettings[name[p]]["MaxConcurrentRequests"]
    /\ \A n \in DOMAIN circuitBreakers \ resettled : n \in DOMAIN circuitSettings
----------------------------------------------------------------------------
(* Control and locks.                                                      *)

ControlInv == ControlTypes /\ OpInv /\ LockInv

LEMMA InitControl == Init => ControlInv
BY NoneAssumption DEF Init, ControlInv, ControlTypes, OpInv, LockInv, InConfigure, InBreakers,
   InCreate, Location

\* A mutex is taken only when nobody holds it and released only by who holds it.
LEMMA StepControl == ControlInv /\ [Next]_vars => ControlInv'
<1> SUFFICES ASSUME ControlInv, [Next]_vars PROVE ControlInv'
  OBVIOUS
<1> USE NoneAssumption DEF ControlInv, ControlTypes, OpInv, LockInv, InConfigure, InBreakers,
    InCreate, Location, Goto, maps, locals
<1>1. ASSUME NEW p \in Proc, Configure(p) PROVE ControlInv'
  BY <1>1 DEF Configure, Begin
<1>2. ASSUME NEW p \in Proc, LockSettings(p) PROVE ControlInv'
  BY <1>2 DEF LockSettings
<1>3. ASSUME NEW p \in Proc, CloneSettings(p) PROVE ControlInv'
  BY <1>3 DEF CloneSettings
<1>4. ASSUME NEW p \in Proc, StoreSettings(p) PROVE ControlInv'
  BY <1>4 DEF StoreSettings
<1>5. ASSUME NEW p \in Proc, ReadSettings(p) PROVE ControlInv'
  BY <1>5 DEF ReadSettings, Begin
<1>6. ASSUME NEW p \in Proc, GetSettings(p) PROVE ControlInv'
  BY <1>6 DEF GetSettings
<1>7. ASSUME NEW p \in Proc, ApplyDefaults(p) PROVE ControlInv'
  BY <1>7 DEF ApplyDefaults
<1>8. ASSUME NEW p \in Proc, GetCircuit(p) PROVE ControlInv'
  BY <1>8 DEF GetCircuit, Begin
<1>9. ASSUME NEW p \in Proc, LockBreakers(p) PROVE ControlInv'
  BY <1>9 DEF LockBreakers
<1>10. ASSUME NEW p \in Proc, Found(p) PROVE ControlInv'
  BY <1>10 DEF Found
<1>11. ASSUME NEW p \in Proc, NotFound(p) PROVE ControlInv'
  BY <1>11 DEF NotFound
<1>12. ASSUME NEW p \in Proc, MakeChanPanics(p) PROVE ControlInv'
  BY <1>12 DEF MakeChanPanics
<1>13. ASSUME NEW p \in Proc, NewCircuitBreaker(p) PROVE ControlInv'
  BY <1>13 DEF NewCircuitBreaker
<1>14. ASSUME NEW p \in Proc, StoreBreakers(p) PROVE ControlInv'
  BY <1>14 DEF StoreBreakers
<1>15. ASSUME NEW p \in Proc, TakeTicket(p) PROVE ControlInv'
  BY <1>15 DEF TakeTicket, Touch
<1>16. ASSUME NEW p \in Proc, Refuse(p) PROVE ControlInv'
  BY <1>16 DEF Refuse
<1>17. ASSUME NEW p \in Proc, Return(p) PROVE ControlInv'
  BY <1>17 DEF Return, Touch
<1>18. ASSUME NEW p \in Proc, ReportEvent(p) PROVE ControlInv'
  BY <1>18 DEF ReportEvent, Touch
<1>19. ASSUME NEW p \in Proc, Flush(p) PROVE ControlInv'
  BY <1>19 DEF Flush, Begin
<1>20. ASSUME NEW p \in Proc, ResetAll(p) PROVE ControlInv'
  BY <1>20 DEF ResetAll
<1>21. ASSUME NEW p \in Proc, StoreEmpty(p) PROVE ControlInv'
  BY <1>21 DEF StoreEmpty
<1>22. CASE UNCHANGED <<pc, op, name, settingsMutex, circuitBreakersMutex>>
  BY <1>22
<1> QED
  BY <1>1, <1>2, <1>3, <1>4, <1>5, <1>6, <1>7, <1>8, <1>9, <1>10, <1>11, <1>12, <1>13,
     <1>14, <1>15, <1>16, <1>17, <1>18, <1>19, <1>20, <1>21, <1>22 DEF Next, Proceed,
     Terminated, vars
----------------------------------------------------------------------------
(* Settings.                                                               *)

\* Adding the entries of one map to another.
LEMMA PutIsMap ==
    ASSUME NEW S, NEW m, IsMap(m, S), NEW new, IsMap(new, S)
    PROVE  IsMap(Put(m, new), S)
BY DEF Put, IsMap

LEMMA EmptyIsMap == ASSUME NEW S PROVE IsMap(Empty, S) /\ DOMAIN Empty = {}
BY DEF IsMap, Empty

\* Settings completes a CommandConfig.
LEMMA SettingsOfConfig ==
    ASSUME NEW config \in [Field -> Int]
    PROVE  /\ Settings(config) \in [Field -> Int]
           /\ \A f \in Field : config[f] # 0 => Settings(config)[f] = config[f]
BY FieldAssumption DEF Settings

\* The entries Configure is about to store.
LEMMA NewEntries ==
    ASSUME SettingsTypes, NEW p \in Proc
    PROVE  IsMap([n \in DOMAIN cmds[p] |-> Settings(cmds[p][n])], [Field -> Int])
<1>1. IsMap(cmds[p], [Field -> Int])
  BY DEF SettingsTypes
<1>2. \A n \in DOMAIN cmds[p] : Settings(cmds[p][n]) \in [Field -> Int]
  BY <1>1, SettingsOfConfig DEF IsMap
<1> QED
  BY <1>1, <1>2 DEF IsMap

LEMMA InitSettings == Init => SettingsTypes /\ CloneInv /\ DefaultsInv /\ ExplicitKept
BY EmptyIsMap DEF Init, SettingsTypes, CloneInv, DefaultsInv, ExplicitKept, Empty, IsMap

\* A step that leaves the settings alone, and who is in Configure.
SettingsStill ==
    /\ UNCHANGED <<circuitSettings, cmds, settings, max, explicit, overtaken>>
    /\ \A p \in Proc :
         /\ pc[p] \in {"lockSettings", "clone", "store"}
              <=> pc'[p] \in {"lockSettings", "clone", "store"}
         /\ pc[p] = "store" <=> pc'[p] = "store"
         /\ pc[p] \in {"lockSettings", "clone", "store"} => op'[p] = op[p]

LEMMA SettingsAlone ==
    ASSUME ControlInv, [Next]_vars
    PROVE  \/ \E p \in Proc : \/ Configure(p) \/ CloneSettings(p) \/ StoreSettings(p)
                              \/ GetSettings(p) \/ ApplyDefaults(p)
           \/ SettingsStill
<1> USE DEF SettingsStill, ControlInv, ControlTypes, Goto, maps, locals, history
<1>1. ASSUME NEW p \in Proc, ReadSettings(p) \/ GetCircuit(p) \/ Flush(p) PROVE SettingsStill
  BY <1>1 DEF ReadSettings, GetCircuit, Flush, Begin
<1>2. ASSUME NEW p \in Proc, LockSettings(p) \/ LockBreakers(p) \/ Found(p) \/ NotFound(p) PROVE SettingsStill
  BY <1>2 DEF LockSettings, LockBreakers, Found, NotFound
<1>3. ASSUME NEW p \in Proc, MakeChanPanics(p) \/ NewCircuitBreaker(p) \/ StoreBreakers(p) PROVE SettingsStill
  BY <1>3 DEF MakeChanPanics, NewCircuitBreaker, StoreBreakers
<1>4. ASSUME NEW p \in Proc, TakeTicket(p) \/ Refuse(p) \/ Return(p) \/ ReportEvent(p) PROVE SettingsStill
  BY <1>4 DEF TakeTicket, Refuse, Return, ReportEvent, Touch
<1>5. ASSUME NEW p \in Proc, ResetAll(p) \/ StoreEmpty(p) PROVE SettingsStill
  BY <1>5 DEF ResetAll, StoreEmpty
<1>6. CASE Terminated \/ UNCHANGED vars
  <2>1. SettingsStill
    BY <1>6 DEF Terminated, vars
  <2> QED
    BY <2>1
<1> QED
  BY <1>1, <1>2, <1>3, <1>4, <1>5, <1>6 DEF Next, Proceed

LEMMA StepSettingsTypes == ControlInv /\ SettingsTypes /\ [Next]_vars => SettingsTypes'
<1> SUFFICES ASSUME ControlInv, SettingsTypes, [Next]_vars PROVE SettingsTypes'
  OBVIOUS
<1> USE DEF SettingsTypes
<1>1. ASSUME NEW p \in Proc, Configure(p) PROVE SettingsTypes'
  <2>1. PICK m \in Configs : cmds' = [cmds EXCEPT ![p] = m]
    BY <1>1 DEF Configure
  <2>2. IsMap(m, [Field -> Int])
    BY ConfigsAssumption DEF IsMap
  <2>3. UNCHANGED <<circuitSettings, settings, max>>
    BY <1>1 DEF Configure, maps
  <2> QED
    BY <2>1, <2>2, <2>3 DEF IsMap
<1>2. ASSUME NEW p \in Proc, CloneSettings(p) PROVE SettingsTypes'
  <2> DEFINE new == [n \in DOMAIN cmds[p] |-> Settings(cmds[p][n])]
  <2>1. IsMap(Put(circuitSettings, new), [Field -> Int])
    BY NewEntries, PutIsMap
  <2>2. /\ settings' = [settings EXCEPT ![p] = Put(circuitSettings, new)]
        /\ UNCHANGED <<circuitSettings, cmds, max>>
    BY <1>2 DEF CloneSettings, maps
  <2> HIDE DEF new
  <2>3. \A q \in Proc : IsMap(settings'[q], [Field -> Int])
    BY <2>1, <2>2
  <2> QED
    BY <2>2, <2>3 DEF IsMap
<1>3. ASSUME NEW p \in Proc, StoreSettings(p) PROVE SettingsTypes'
  <2>1. /\ circuitSettings' = settings[p] /\ cmds' = [cmds EXCEPT ![p] = Empty]
        /\ settings' = [settings EXCEPT ![p] = Empty] /\ UNCHANGED max
    BY <1>3 DEF StoreSettings
  <2>2. IsMap(Empty, [Field -> Int])
    BY EmptyIsMap
  <2> QED
    BY <2>1, <2>2 DEF IsMap
<1>4. ASSUME NEW p \in Proc, GetSettings(p) PROVE SettingsTypes'
  <2>1. circuitSettings[name[p]]["MaxConcurrentRequests"] \in Int
    BY <1>4, FieldAssumption DEF GetSettings, IsMap
  <2>2. UNCHANGED <<circuitSettings, cmds, settings>>
    BY <1>4 DEF GetSettings, maps
  <2> QED
    BY <1>4, <2>1, <2>2 DEF GetSettings, IsMap
<1>5. ASSUME NEW p \in Proc, ApplyDefaults(p) PROVE SettingsTypes'
  <2>1. name[p] \in Name
    BY <1>5 DEF ApplyDefaults, Goto, ControlInv, OpInv
  <2>2. IsMap([n \in {name[p]} |-> Unset], [Field -> Int])
    BY <2>1 DEF IsMap, Unset
  <2>3. /\ cmds' = [cmds EXCEPT ![p] = [n \in {name[p]} |-> Unset]]
        /\ UNCHANGED <<circuitSettings, settings, max>>
    BY <1>5 DEF ApplyDefaults, maps
  <2> QED
    BY <2>2, <2>3 DEF IsMap
<1>6. CASE SettingsStill
  BY <1>6 DEF SettingsStill, IsMap
<1> QED
  BY <1>1, <1>2, <1>3, <1>4, <1>5, <1>6, SettingsAlone

\* Nobody stores into the map between the clone and the store of another goroutine.
LEMMA StepClone == ControlInv /\ SettingsTypes /\ CloneInv /\ [Next]_vars => CloneInv'
<1> SUFFICES ASSUME ControlInv, SettingsTypes, CloneInv, [Next]_vars PROVE CloneInv'
  OBVIOUS
<1> USE DEF ControlInv, ControlTypes, SettingsTypes, CloneInv, Goto, maps
<1>1. ASSUME NEW p \in Proc, Configure(p) PROVE CloneInv'
  BY <1>1 DEF Configure, Begin
<1>2. ASSUME NEW p \in Proc, CloneSettings(p) PROVE CloneInv'
  BY <1>2 DEF CloneSettings
<1>3. ASSUME NEW p \in Proc, StoreSettings(p) PROVE CloneInv'
  <2>1. \A q \in Proc : q # p => pc[q] # "store"
    BY <1>3 DEF StoreSettings, LockInv, InConfigure
  <2>2. DOMAIN Empty = {}
    BY EmptyIsMap
  <2> QED
    BY <1>3, <2>1, <2>2 DEF StoreSettings
<1>4. ASSUME NEW p \in Proc, GetSettings(p) PROVE CloneInv'
  BY <1>4 DEF GetSettings
<1>5. ASSUME NEW p \in Proc, ApplyDefaults(p) PROVE CloneInv'
  BY <1>5 DEF ApplyDefaults
<1>6. CASE SettingsStill
  BY <1>6 DEF SettingsStill
<1> QED
  BY <1>1, <1>2, <1>3, <1>4, <1>5, <1>6, SettingsAlone
\* What is stored: Configure's new entries, and what was there under every other name.
LEMMA Stored ==
    ASSUME ControlInv, SettingsTypes, CloneInv, NEW p \in Proc, StoreSettings(p)
    PROVE  /\ DOMAIN circuitSettings' = DOMAIN circuitSettings \cup DOMAIN cmds[p]
           /\ \A n \in DOMAIN cmds[p] : circuitSettings'[n] = Settings(cmds[p][n])
           /\ \A n \in DOMAIN circuitSettings \ DOMAIN cmds[p] :
                circuitSettings'[n] = circuitSettings[n]
<1> DEFINE new == [n \in DOMAIN cmds[p] |-> Settings(cmds[p][n])]
<1>1. circuitSettings' = Put(circuitSettings, new)
  BY DEF StoreSettings, Goto, CloneInv
<1>2. DOMAIN new = DOMAIN cmds[p] /\ \A n \in DOMAIN cmds[p] : new[n] = Settings(cmds[p][n])
  OBVIOUS
<1> HIDE DEF new
<1> QED
  BY <1>1, <1>2 DEF Put

\* What Configure was told is stored as it is; defaults reach only names for which
\* Configure was told nothing, or which it was told while they were on their way.
LEMMA StepExplicit ==
    ControlInv /\ SettingsTypes /\ CloneInv /\ DefaultsInv /\ ExplicitKept /\ [Next]_vars
        => DefaultsInv' /\ ExplicitKept'
<1> SUFFICES ASSUME ControlInv, SettingsTypes, CloneInv, DefaultsInv, ExplicitKept, [Next]_vars
             PROVE  DefaultsInv' /\ ExplicitKept'
  OBVIOUS
<1>t. /\ pc \in [Proc -> Location] /\ DOMAIN cmds = Proc
      /\ op \in [Proc -> {"none", "configure", "read", "get", "flush"}]
  BY DEF ControlInv, ControlTypes, SettingsTypes
<1> USE DEF DefaultsInv, ExplicitKept, Goto, maps, history
<1>1. ASSUME NEW p \in Proc, Configure(p) PROVE DefaultsInv' /\ ExplicitKept'
  BY <1>1, <1>t DEF Configure, Begin
<1>2. ASSUME NEW p \in Proc, CloneSettings(p) \/ GetSettings(p) PROVE DefaultsInv' /\ ExplicitKept'
  BY <1>2 DEF CloneSettings, GetSettings
<1>3. ASSUME NEW p \in Proc, StoreSettings(p) PROVE DefaultsInv' /\ ExplicitKept'
  <2>1. /\ cmds' = [cmds EXCEPT ![p] = Empty] /\ op' = op /\ DOMAIN Empty = {}
    BY <1>3, EmptyIsMap DEF StoreSettings
  <2>2. /\ DOMAIN circuitSettings' = DOMAIN circuitSettings \cup DOMAIN cmds[p]
        /\ \A n \in DOMAIN cmds[p] : circuitSettings'[n] = Settings(cmds[p][n])
        /\ \A n \in DOMAIN circuitSettings \ DOMAIN cmds[p] :
             circuitSettings'[n] = circuitSettings[n]
    BY <1>3, Stored
  <2>3. CASE op[p] = "configure"
    <3>1. /\ DOMAIN explicit' = DOMAIN explicit \cup DOMAIN cmds[p]
          /\ \A n \in DOMAIN cmds[p] : explicit'[n] = cmds[p][n]
          /\ \A n \in DOMAIN explicit \ DOMAIN cmds[p] : explicit'[n] = explicit[n]
      BY <1>3, <2>3 DEF StoreSettings, Put
    <3>2. overtaken' = (overtaken \ DOMAIN cmds[p]) \cup (DOMAIN cmds[p] \cap Defaulting)
      BY <1>3, <2>3 DEF StoreSettings
    <3>3. DefaultsInv'
      <4> SUFFICES ASSUME NEW q \in Proc, op'[q] # "configure", NEW n \in DOMAIN cmds'[q],
                          n \in DOMAIN explicit'
                   PROVE  n \in overtaken'
        OBVIOUS
      <4>1. q # p /\ cmds'[q] = cmds[q] /\ n \in Defaulting
        BY <1>t, <2>1, <2>3 DEF Defaulting
      <4>2. CASE n \in DOMAIN cmds[p]
        BY <4>1, <4>2, <3>2
      <4>3. CASE n \notin DOMAIN cmds[p]
        BY <4>1, <4>3, <3>1, <3>2, <2>1
      <4> QED
        BY <4>2, <4>3
    <3>4. ExplicitKept'
      <4> SUFFICES ASSUME NEW n \in DOMAIN explicit', n \notin overtaken'
                   PROVE  /\ n \in DOMAIN circuitSettings'
                          /\ \A f \in Field : explicit'[n][f] # 0 =>
                               circuitSettings'[n][f] = explicit'[n][f]
        OBVIOUS
      <4>1. CASE n \in DOMAIN cmds[p]
        <5>1. cmds[p][n] \in [Field -> Int]
          BY <4>1 DEF SettingsTypes, IsMap
        <5> QED
          BY <4>1, <5>1, <2>2, <3>1, SettingsOfConfig
      <4>2. CASE n \notin DOMAIN cmds[p]
        BY <4>2, <2>2, <3>1, <3>2
      <4> QED
        BY <4>1, <4>2
    <3> QED
      BY <3>3, <3>4
  <2>4. CASE op[p] # "configure"
    <3>1. explicit' = explicit /\ overtaken' = overtaken
      BY <1>3, <2>4 DEF StoreSettings
    <3>2. DefaultsInv'
      BY <1>t, <2>1, <3>1
    <3>3. ExplicitKept'
      BY <2>2, <2>4, <3>1
    <3> QED
      BY <3>2, <3>3
  <2> QED
    BY <2>3, <2>4
<1>4. ASSUME NEW p \in Proc, ApplyDefaults(p) PROVE DefaultsInv' /\ ExplicitKept'
  BY <1>4, <1>t DEF ApplyDefaults
<1>5. CASE SettingsStill
  BY <1>5, <1>t DEF SettingsStill, CloneInv
<1> QED
  BY <1>1, <1>2, <1>3, <1>4, <1>5, SettingsAlone

\* The settings part of the invariant.
SettingsInv == ControlInv /\ SettingsTypes /\ CloneInv

LEMMA SettingsKept == Spec => []SettingsInv
<1>1. Init => SettingsInv
  BY InitControl, InitSettings DEF SettingsInv
<1>2. SettingsInv /\ [Next]_vars => SettingsInv'
  BY StepControl, StepSettingsTypes, StepClone DEF SettingsInv
<1> QED
  BY <1>1, <1>2, PTL DEF Spec

\* What Configure was last told of a name holds, whoever looks the name up or creates and
\* flushes its circuit in the meantime, unless defaults for it were already on their way
\* (settings.go:57-89).
THEOREM ExplicitSettingsKept == Spec => []ExplicitKept
<1>1. Init => DefaultsInv /\ ExplicitKept
  BY InitSettings
<1>2. SettingsInv /\ DefaultsInv /\ ExplicitKept /\ [Next]_vars => DefaultsInv' /\ ExplicitKept'
  BY StepExplicit DEF SettingsInv
<1> QED
  BY <1>1, <1>2, SettingsKept, PTL DEF Spec
----------------------------------------------------------------------------
(* Circuits.                                                               *)

LEMMA NewInHeap ==
    ASSUME HeapTypes, NEW c \in Circuit, heap' = Append(heap, c)
    PROVE  /\ heap' \in Seq(Circuit)
           /\ Len(heap) + 1 \notin DOMAIN heap
           /\ DOMAIN heap' = DOMAIN heap \cup {Len(heap) + 1}
           /\ heap'[Len(heap) + 1] = c
           /\ \A j \in DOMAIN heap : heap'[j] = heap[j]
BY DEF HeapTypes

LEMMA CircuitAt ==
    ASSUME HeapTypes, NEW i \in DOMAIN heap
    PROVE  heap[i] \in Circuit
BY DEF HeapTypes

\* A step that creates no circuit: the circuits keep their name, size and generation, and
\* hold no event that they did not hold before but one of this generation.
SameCircuits ==
    /\ DOMAIN heap' = DOMAIN heap
    /\ \A i \in DOMAIN heap :
         /\ heap'[i].name = heap[i].name
         /\ heap'[i].born = heap[i].born
         /\ heap'[i].max = heap[i].max
         /\ heap'[i].events \subseteq heap[i].events \cup {flushes}

LEMMA InitCircuits == Init => HeapTypes /\ CopyInv /\ HeapInv /\ EventsInv /\ OneCircuitPerName
<1> SUFFICES ASSUME Init PROVE HeapTypes /\ CopyInv /\ HeapInv /\ EventsInv /\ OneCircuitPerName
  OBVIOUS
<1>1. heap = <<>> /\ DOMAIN heap = {} /\ DOMAIN circuitBreakers = {}
  BY DEF Init, Empty
<1>2. \A p \in Proc : pc[p] = "idle"
  BY DEF Init
<1>3. HeapTypes
  BY DEF Init, HeapTypes
<1> QED
  BY <1>1, <1>2, <1>3 DEF CopyInv, HeapInv, EventsInv, OneCircuitPerName, InCreate

\* A circuit of the heap is replaced by c, which differs in its tickets and its events.
LEMMA TouchCircuit ==
    ASSUME HeapTypes, NEW i \in DOMAIN heap, NEW c \in Circuit, heap' = [heap EXCEPT ![i] = c],
           c.name = heap[i].name, c.born = heap[i].born, c.max = heap[i].max,
           c.events \subseteq heap[i].events \cup {flushes}
    PROVE  /\ heap' \in Seq(Circuit) /\ SameCircuits
           /\ heap'[i] = c
           /\ \A j \in DOMAIN heap : j # i => heap'[j] = heap[j]
<1>1. /\ heap' \in Seq(Circuit) /\ DOMAIN heap' = DOMAIN heap /\ heap'[i] = c
      /\ \A j \in DOMAIN heap : j # i => heap'[j] = heap[j]
  BY DEF HeapTypes
<1> QED
  BY <1>1 DEF SameCircuits

\* What the steps of a call do to the circuit it got, whatever circuit has its name now.
LEMMA TakeTicketHeap ==
    ASSUME HeapTypes, HeapInv, NEW p \in Proc, TakeTicket(p)
    PROVE  /\ heap' \in Seq(Circuit) /\ SameCircuits
           /\ heap'[result[p]].tickets = heap[result[p]].tickets - 1
           /\ \A j \in DOMAIN heap : j # result[p] => heap'[j] = heap[j]
<1>1. result[p] \in DOMAIN heap
  BY DEF HeapInv, TakeTicket, Goto
<1>2. heap[result[p]] \in Circuit
  BY <1>1, CircuitAt
<1> DEFINE c == [heap[result[p]] EXCEPT !.tickets = @ - 1]
<1>3. c \in Circuit /\ c.name = heap[result[p]].name /\ c.born = heap[result[p]].born
      /\ c.max = heap[result[p]].max /\ c.events = heap[result[p]].events
      /\ c.tickets = heap[result[p]].tickets - 1
  BY <1>2 DEF Circuit
<1>4. heap' = [heap EXCEPT ![result[p]] = c]
  BY DEF TakeTicket, Touch
<1> HIDE DEF c
<1> QED
  BY <1>1, <1>3, <1>4, TouchCircuit

LEMMA ReturnHeap ==
    ASSUME HeapTypes, HeapInv, NEW p \in Proc, Return(p)
    PROVE  /\ heap' \in Seq(Circuit) /\ SameCircuits
           /\ heap'[result[p]].tickets = heap[result[p]].tickets + 1
           /\ \A j \in DOMAIN heap : j # result[p] => heap'[j] = heap[j]
<1>1. result[p] \in DOMAIN heap
  BY DEF HeapInv, Return, Goto
<1>2. heap[result[p]] \in Circuit /\ flushes \in Nat
  BY <1>1, CircuitAt DEF HeapTypes
<1> DEFINE c == [heap[result[p]] EXCEPT !.tickets = @ + 1, !.events = @ \cup {flushes}]
<1>3. c \in Circuit /\ c.name = heap[result[p]].name /\ c.born = heap[result[p]].born
      /\ c.max = heap[result[p]].max /\ c.events = heap[result[p]].events \cup {flushes}
      /\ c.tickets = heap[result[p]].tickets + 1
  <2> DEFINE b == [heap[result[p]] EXCEPT !.tickets = @ + 1]
  <2>1. b \in Circuit /\ b.name = heap[result[p]].name /\ b.born = heap[result[p]].born
        /\ b.max = heap[result[p]].max /\ b.events = heap[result[p]].events
        /\ b.tickets = heap[result[p]].tickets + 1
    BY <1>2 DEF Circuit
  <2>2. c = [b EXCEPT !.events = heap[result[p]].events \cup {flushes}]
    OBVIOUS
  <2> HIDE DEF b, c
  <2> QED
    BY <1>2, <2>1, <2>2 DEF Circuit
<1>4. heap' = [heap EXCEPT ![result[p]] = c]
  BY DEF Return, Touch
<1> HIDE DEF c
<1> QED
  BY <1>1, <1>3, <1>4, TouchCircuit

LEMMA ReportEventHeap ==
    ASSUME HeapTypes, HeapInv, NEW p \in Proc, ReportEvent(p)
    PROVE  /\ heap' \in Seq(Circuit) /\ SameCircuits
           /\ \A j \in DOMAIN heap : heap'[j].tickets = heap[j].tickets
<1>1. result[p] \in DOMAIN heap
  BY DEF HeapInv, ReportEvent, Goto
<1>2. heap[result[p]] \in Circuit /\ flushes \in Nat
  BY <1>1, CircuitAt DEF HeapTypes
<1> DEFINE c == [heap[result[p]] EXCEPT !.events = @ \cup {flushes}]
<1>3. c \in Circuit /\ c.name = heap[result[p]].name /\ c.born = heap[result[p]].born
      /\ c.max = heap[result[p]].max /\ c.events = heap[result[p]].events \cup {flushes}
      /\ c.tickets = heap[result[p]].tickets
  BY <1>2 DEF Circuit
<1>4. heap' = [heap EXCEPT ![result[p]] = c]
  BY DEF ReportEvent, Touch
<1> HIDE DEF c
<1>5. /\ heap' \in Seq(Circuit) /\ SameCircuits /\ heap'[result[p]] = c
      /\ \A j \in DOMAIN heap : j # result[p] => heap'[j] = heap[j]
  BY <1>1, <1>3, <1>4, TouchCircuit
<1> QED
  BY <1>3, <1>5

\* The loop of Flush resets what the circuits of the map have counted, and nothing else.
LEMMA ResetAllHeap ==
    ASSUME HeapTypes, NEW p \in Proc, ResetAll(p)
    PROVE  /\ heap' \in Seq(Circuit) /\ SameCircuits
           /\ \A j \in DOMAIN heap : heap'[j].tickets = heap[j].tickets
<1> DEFINE In(i) == \E n \in DOMAIN circuitBreakers : circuitBreakers[n] = i
<1> DEFINE r(i) == [heap[i] EXCEPT !.events = {}]
<1>1. \A i \in DOMAIN heap : r(i) \in Circuit /\ r(i).name = heap[i].name
        /\ r(i).born = heap[i].born /\ r(i).max = heap[i].max /\ r(i).events = {}
        /\ r(i).tickets = heap[i].tickets
  BY CircuitAt DEF Circuit
<1>2. heap' = [i \in DOMAIN heap |-> IF In(i) THEN r(i) ELSE heap[i]]
  BY DEF ResetAll
<1> HIDE DEF r, In
<1>3. DOMAIN heap = 1..Len(heap) /\ Len(heap) \in Nat
  BY DEF HeapTypes
<1>4. DOMAIN heap' = DOMAIN heap /\ \A i \in DOMAIN heap : heap'[i] = r(i) \/ heap'[i] = heap[i]
  BY <1>2
<1>5. heap' \in Seq(Circuit)
  <2>1. \A i \in 1..Len(heap) : heap'[i] \in Circuit
    BY <1>1, <1>3, <1>4, CircuitAt
  <2>2. heap' = [i \in 1..Len(heap) |-> IF In(i) THEN r(i) ELSE heap[i]]
    BY <1>2, <1>3
  <2>3. heap' \in [1..Len(heap) -> Circuit]
    BY <2>1, <2>2
  <2> QED
    BY <2>3, <1>3
<1>6. SameCircuits
  BY <1>1, <1>4 DEF SameCircuits
<1> QED
  BY <1>1, <1>4, <1>5, <1>6

\* newCircuitBreaker adds one circuit, of the name and the generation of its caller.
LEMMA NewCircuitHeap ==
    ASSUME ControlInv, SettingsTypes, HeapTypes, NEW p \in Proc, NewCircuitBreaker(p)
    PROVE  /\ heap' \in Seq(Circuit)
           /\ Len(heap) + 1 \notin DOMAIN heap
           /\ DOMAIN heap' = DOMAIN heap \cup {Len(heap) + 1}
           /\ \A j \in DOMAIN heap : heap'[j] = heap[j]
           /\ heap'[Len(heap) + 1].name = name[p]
           /\ heap'[Len(heap) + 1].max = max[p] /\ heap'[Len(heap) + 1].tickets = max[p]
           /\ heap'[Len(heap) + 1].born = flushes /\ heap'[Len(heap) + 1].events = {}
<1> DEFINE c == [name |-> name[p], max |-> max[p], tickets |-> max[p],
                 born |-> flushes, events |-> {}]
<1>1. c \in Circuit
  <2>1. name[p] \in Name
    BY DEF NewCircuitBreaker, Goto, ControlInv, OpInv
  <2> QED
    BY <2>1 DEF SettingsTypes, HeapTypes, Circuit
<1>2. heap' = Append(heap, c)
  BY DEF NewCircuitBreaker
<1>3. /\ c.name = name[p] /\ c.max = max[p] /\ c.tickets = max[p] /\ c.born = flushes
      /\ c.events = {}
  OBVIOUS
<1> HIDE DEF c
<1> QED
  BY <1>1, <1>2, <1>3, NewInHeap

\* A step that creates, publishes and drops no circuit; whoever gets a circuit gets one
\* that exists.
CircuitsStill ==
    /\ UNCHANGED <<circuitBreakers, flushes>>
    /\ heap' \in Seq(Circuit) /\ SameCircuits
    /\ \A p \in Proc :
         /\ pc'[p] = "publish" <=> pc[p] = "publish"
         /\ pc[p] = "publish" => result'[p] = result[p] /\ name'[p] = name[p]
         /\ pc'[p] \in {"using", "running", "reporting"} => result'[p] \in DOMAIN heap
         /\ InCreate(p)' =>
              \/ InCreate(p) /\ cbs'[p] = cbs[p] /\ name'[p] = name[p]
              \/ cbs'[p] = circuitBreakers /\ name'[p] \notin DOMAIN circuitBreakers

LEMMA SameHeap == ASSUME UNCHANGED heap PROVE SameCircuits
BY DEF SameCircuits

LEMMA CircuitsAlone ==
    ASSUME ControlInv, HeapTypes, CopyInv, HeapInv, [Next]_vars
    PROVE  \/ \E p \in Proc : NewCircuitBreaker(p) \/ StoreBreakers(p) \/ StoreEmpty(p)
           \/ CircuitsStill
<1>t. /\ pc \in [Proc -> Location] /\ DOMAIN result = Proc /\ DOMAIN cbs = Proc
      /\ op \in [Proc -> {"none", "configure", "read", "get", "flush"}]
      /\ name \in [Proc -> Name \cup {None}] /\ heap \in Seq(Circuit)
  BY DEF ControlInv, ControlTypes, HeapTypes
<1> USE <1>t DEF CircuitsStill, HeapInv, InCreate, Goto, maps, locals, history
<1>1. ASSUME NEW p \in Proc, Configure(p) \/ ReadSettings(p) \/ Flush(p) PROVE CircuitsStill
  BY <1>1, SameHeap DEF Configure, ReadSettings, Flush, Begin
<1>2. ASSUME NEW p \in Proc, LockSettings(p) \/ CloneSettings(p) \/ StoreSettings(p)
      PROVE  CircuitsStill
  BY <1>2, SameHeap DEF LockSettings, CloneSettings, StoreSettings
<1>3. ASSUME NEW p \in Proc, GetSettings(p) \/ ApplyDefaults(p) PROVE CircuitsStill
  BY <1>3, SameHeap DEF GetSettings, ApplyDefaults, ControlInv, OpInv
<1>4. ASSUME NEW p \in Proc, GetCircuit(p) PROVE CircuitsStill
  BY <1>4, SameHeap DEF GetCircuit, Begin
<1>5. ASSUME NEW p \in Proc, LockBreakers(p) \/ Found(p) PROVE CircuitsStill
  BY <1>5, SameHeap DEF LockBreakers, Found
<1>6. ASSUME NEW p \in Proc, NotFound(p) PROVE CircuitsStill
  BY <1>6, SameHeap DEF NotFound
<1>7. ASSUME NEW p \in Proc, MakeChanPanics(p) \/ Refuse(p) PROVE CircuitsStill
  BY <1>7, SameHeap DEF MakeChanPanics, Refuse
<1>8. ASSUME NEW p \in Proc, TakeTicket(p) PROVE CircuitsStill
  <2>1. heap' \in Seq(Circuit) /\ SameCircuits
    BY <1>8, TakeTicketHeap
  <2>2. /\ UNCHANGED <<circuitBreakers, flushes, op, name, cbs, result>>
        /\ pc[p] = "using" /\ pc' = [pc EXCEPT ![p] = "running"]
    BY <1>8 DEF TakeTicket, Touch
  <2> QED
    BY <2>1, <2>2
<1>9. ASSUME NEW p \in Proc, Return(p) PROVE CircuitsStill
  <2>1. heap' \in Seq(Circuit) /\ SameCircuits
    BY <1>9, ReturnHeap
  <2>2. /\ UNCHANGED <<circuitBreakers, flushes, op, name, cbs, result>>
        /\ pc[p] = "running" /\ pc' = [pc EXCEPT ![p] = "reporting"]
    BY <1>9 DEF Return, Touch
  <2> QED
    BY <2>1, <2>2
<1>10. ASSUME NEW p \in Proc, ReportEvent(p) PROVE CircuitsStill
  <2>1. heap' \in Seq(Circuit) /\ SameCircuits
    BY <1>10, ReportEventHeap
  <2>2. /\ UNCHANGED <<circuitBreakers, flushes, op, name, cbs>>
        /\ pc[p] = "reporting" /\ pc' = [pc EXCEPT ![p] = "idle"]
        /\ result' = [result EXCEPT ![p] = None]
    BY <1>10 DEF ReportEvent, Touch
  <2> QED
    BY <2>1, <2>2
<1>11. ASSUME NEW p \in Proc, ResetAll(p) PROVE CircuitsStill
  <2>1. heap' \in Seq(Circuit) /\ SameCircuits
    BY <1>11, ResetAllHeap
  <2>2. /\ UNCHANGED <<circuitBreakers, flushes, op, name, cbs, result>>
        /\ pc[p] = "flush" /\ pc' = [pc EXCEPT ![p] = "drop"]
    BY <1>11 DEF ResetAll
  <2> QED
    BY <2>1, <2>2
<1>12. CASE Terminated \/ UNCHANGED vars
  <2>1. CircuitsStill
    BY <1>12, SameHeap DEF Terminated, vars
  <2> QED
    BY <2>1
<1> HIDE DEF CircuitsStill
<1> QED
  BY <1>1, <1>2, <1>3, <1>4, <1>5, <1>6, <1>7, <1>8, <1>9, <1>10, <1>11, <1>12 DEF Next, Proceed

\* The circuits part of the invariant.
CircuitsInv == HeapTypes /\ CopyInv /\ HeapInv

LEMMA StepHeapTypes ==
    ControlInv /\ SettingsTypes /\ CircuitsInv /\ [Next]_vars => HeapTypes'
<1> SUFFICES ASSUME ControlInv, SettingsTypes, CircuitsInv, [Next]_vars PROVE HeapTypes'
  OBVIOUS
<1>1. heap' \in Seq(Circuit)
  <2>1. ASSUME NEW p \in Proc, NewCircuitBreaker(p) PROVE heap' \in Seq(Circuit)
    BY <2>1, NewCircuitHeap DEF CircuitsInv
  <2>2. ASSUME NEW p \in Proc, StoreBreakers(p) \/ StoreEmpty(p) PROVE heap' \in Seq(Circuit)
    BY <2>2 DEF StoreBreakers, StoreEmpty, CircuitsInv, HeapTypes
  <2> QED
    BY <2>1, <2>2, CircuitsAlone DEF CircuitsInv, CircuitsStill
<1>2. flushes' \in Nat
  <2>1. ASSUME NEW p \in Proc, NewCircuitBreaker(p) \/ StoreBreakers(p) \/ StoreEmpty(p)
        PROVE  flushes' \in Nat
    BY <2>1 DEF NewCircuitBreaker, StoreBreakers, StoreEmpty, history, CircuitsInv, HeapTypes
  <2> QED
    BY <2>1, CircuitsAlone DEF CircuitsInv, CircuitsStill, HeapTypes
<1>3. DOMAIN cbs' = Proc /\ DOMAIN result' = Proc
  <2>1. DOMAIN cbs = Proc /\ DOMAIN result = Proc
    BY DEF CircuitsInv, HeapTypes
  <2> QED
    BY <2>1 DEF Next, Proceed, Configure, LockSettings, CloneSettings, StoreSettings,
       ReadSettings, GetSettings, ApplyDefaults, GetCircuit, LockBreakers, Found, NotFound,
       MakeChanPanics, NewCircuitBreaker, StoreBreakers, TakeTicket, Refuse, Return, ReportEvent,
       Flush, ResetAll, StoreEmpty, Touch, Terminated, locals, vars
<1> QED
  BY <1>1, <1>2, <1>3 DEF HeapTypes

\* Nobody else publishes while a goroutine creates a circuit.
LEMMA StepCopy == ControlInv /\ CircuitsInv /\ [Next]_vars => CopyInv'
<1> SUFFICES ASSUME ControlInv, CircuitsInv, [Next]_vars PROVE CopyInv'
  OBVIOUS
<1>1. ASSUME NEW p \in Proc, NewCircuitBreaker(p) PROVE CopyInv'
  <2>1. /\ UNCHANGED <<circuitBreakers, cbs, name, op>>
        /\ pc[p] = "create" /\ pc' = [pc EXCEPT ![p] = "publish"]
    BY <1>1 DEF NewCircuitBreaker, Goto
  <2> QED
    BY <2>1 DEF CopyInv, CircuitsInv, InCreate, ControlInv, ControlTypes
<1>2. ASSUME NEW p \in Proc, StoreBreakers(p) \/ StoreEmpty(p) PROVE CopyInv'
  <2>1. \A q \in Proc : ~ InCreate(q)'
    BY <1>2 DEF StoreBreakers, StoreEmpty, Goto, locals, ControlInv, ControlTypes, OpInv, LockInv,
       InBreakers, InCreate
  <2> QED
    BY <2>1 DEF CopyInv
<1>3. CASE CircuitsStill
  BY <1>3 DEF CircuitsStill, CopyInv, CircuitsInv
<1> QED
  BY <1>1, <1>2, <1>3, CircuitsAlone DEF CircuitsInv

\* Two goroutines never create at the same time, so what is created under a name is the
\* only one of its generation, and it is published before the next one is looked for.
LEMMA StepHeap == ControlInv /\ SettingsTypes /\ CircuitsInv /\ [Next]_vars => HeapInv'
<1> SUFFICES ASSUME ControlInv, SettingsTypes, CircuitsInv, [Next]_vars PROVE HeapInv'
  OBVIOUS
<1>t. /\ pc \in [Proc -> Location] /\ DOMAIN result = Proc /\ flushes \in Nat
      /\ name \in [Proc -> Name \cup {None}]
  BY DEF ControlInv, ControlTypes, CircuitsInv, HeapTypes
<1>b. \A i \in DOMAIN heap : heap[i].born \in Nat
  BY CircuitAt DEF CircuitsInv, Circuit
<1>1. ASSUME NEW p \in Proc, NewCircuitBreaker(p) PROVE HeapInv'
  <2>0. PICK k : k = Len(heap) + 1
    OBVIOUS
  <2>1. /\ UNCHANGED <<circuitBreakers, flushes, name>>
        /\ pc[p] = "create" /\ pc' = [pc EXCEPT ![p] = "publish"]
        /\ result' = [result EXCEPT ![p] = k]
    BY <1>1, <2>0 DEF NewCircuitBreaker, Goto, history
  <2>2. /\ k \notin DOMAIN heap /\ DOMAIN heap' = DOMAIN heap \cup {k}
        /\ \A j \in DOMAIN heap : heap'[j] = heap[j]
        /\ heap'[k].name = name[p] /\ heap'[k].born = flushes
    BY <1>1, <2>0, NewCircuitHeap DEF CircuitsInv
  <2>3. Publishing(p, k)'
    BY <1>t, <2>1, <2>2 DEF Publishing
  <2>4. \A q \in Proc, i \in DOMAIN heap : Publishing(q, i) => Publishing(q, i)'
    BY <1>t, <2>1, <2>2 DEF Publishing
  <2> QED
    BY <1>t, <2>1, <2>2, <2>3, <2>4 DEF HeapInv, CircuitsInv
<1>2. ASSUME NEW p \in Proc, StoreBreakers(p) PROVE HeapInv'
  <2>1. /\ UNCHANGED <<heap, flushes, name, result>>
        /\ pc[p] = "publish" /\ pc' = [pc EXCEPT ![p] = "using"]
    BY <1>2 DEF StoreBreakers, Goto, history
  <2>2. cbs[p] = circuitBreakers /\ name[p] \notin DOMAIN circuitBreakers
    BY <2>1 DEF CircuitsInv, CopyInv, InCreate
  <2>3. /\ DOMAIN circuitBreakers' = DOMAIN circuitBreakers \cup {name[p]}
        /\ circuitBreakers'[name[p]] = result[p]
        /\ \A n \in DOMAIN circuitBreakers : circuitBreakers'[n] = circuitBreakers[n]
    BY <1>2, <2>2 DEF StoreBreakers, Put
  <2>4. \A q \in Proc, i \in DOMAIN heap :
          Publishing(q, i) => q = p /\ i = result[p] /\ heap[i].name = name[p]
    BY <2>1 DEF Publishing, ControlInv, LockInv, InBreakers, InCreate
  <2>5. \A q \in Proc : pc'[q] # "publish"
    BY <1>t, <2>1 DEF ControlInv, LockInv, InBreakers, InCreate
  <2>6. \A i \in DOMAIN heap : heap[i].born = flushes =>
           heap[i].name \in DOMAIN circuitBreakers' /\ circuitBreakers'[heap[i].name] = i
    BY <2>3, <2>4 DEF HeapInv, CircuitsInv
  <2> QED
    BY <1>t, <2>1, <2>3, <2>5, <2>6 DEF HeapInv, CircuitsInv
<1>3. ASSUME NEW p \in Proc, StoreEmpty(p) PROVE HeapInv'
  <2>1. /\ UNCHANGED <<heap, name, result>> /\ flushes' = flushes + 1
        /\ DOMAIN circuitBreakers' = {}
        /\ pc[p] = "drop" /\ pc' = [pc EXCEPT ![p] = "idle"]
    BY <1>3, EmptyIsMap DEF StoreEmpty, Goto, locals
  <2>2. \A q \in Proc : pc'[q] # "publish"
    BY <1>t, <2>1 DEF ControlInv, LockInv, InBreakers, InCreate
  <2>3. \A i \in DOMAIN heap : heap[i].born <= flushes' /\ heap[i].born # flushes'
    BY <1>t, <1>b, <2>1 DEF HeapInv, CircuitsInv
  <2> QED
    BY <1>t, <2>1, <2>2, <2>3 DEF HeapInv, CircuitsInv
<1>4. CASE CircuitsStill
  <2>1. \A q \in Proc, i \in DOMAIN heap : Publishing(q, i) => Publishing(q, i)'
    BY <1>4 DEF CircuitsStill, SameCircuits, Publishing
  <2> QED
    BY <1>4, <2>1 DEF CircuitsStill, SameCircuits, HeapInv, CircuitsInv
<1> QED
  BY <1>1, <1>2, <1>3, <1>4, CircuitsAlone DEF CircuitsInv

\* The inductive invariant that the properties of the circuits rest on.
RegistryInv == SettingsInv /\ CircuitsInv

LEMMA StepRegistry == RegistryInv /\ [Next]_vars => RegistryInv'
BY StepControl, StepSettingsTypes, StepClone, StepHeapTypes, StepCopy, StepHeap
   DEF RegistryInv, SettingsInv, CircuitsInv

LEMMA RegistryKept == Spec => []RegistryInv
<1>1. Init => RegistryInv
  BY InitControl, InitSettings, InitCircuits DEF RegistryInv, SettingsInv, CircuitsInv
<1> QED
  BY <1>1, StepRegistry, PTL DEF Spec

LEMMA StepOneCircuit == RegistryInv /\ OneCircuitPerName /\ [Next]_vars => OneCircuitPerName'
<1> SUFFICES ASSUME RegistryInv, OneCircuitPerName, [Next]_vars PROVE OneCircuitPerName'
  OBVIOUS
<1> USE DEF RegistryInv, SettingsInv, CircuitsInv
<1>1. ASSUME NEW p \in Proc, NewCircuitBreaker(p) PROVE OneCircuitPerName'
  <2>0. PICK k : k = Len(heap) + 1
    OBVIOUS
  <2>1. /\ k \notin DOMAIN heap /\ DOMAIN heap' = DOMAIN heap \cup {k}
        /\ \A j \in DOMAIN heap : heap'[j] = heap[j]
        /\ heap'[k].name = name[p] /\ heap'[k].born = flushes
    BY <1>1, <2>0, NewCircuitHeap
  <2>2. pc[p] = "create" /\ name[p] \notin DOMAIN circuitBreakers
    BY <1>1 DEF NewCircuitBreaker, Goto, CopyInv, InCreate
  <2>3. \A q \in Proc : pc[q] # "publish"
    BY <2>2 DEF ControlInv, LockInv, InBreakers, InCreate
  <2>4. \A i \in DOMAIN heap : ~(heap[i].name = name[p] /\ heap[i].born = flushes)
    BY <2>2, <2>3 DEF HeapInv, Publishing
  <2> QED
    BY <2>1, <2>4 DEF OneCircuitPerName
<1>2. ASSUME NEW p \in Proc, StoreBreakers(p) \/ StoreEmpty(p) PROVE OneCircuitPerName'
  BY <1>2 DEF StoreBreakers, StoreEmpty, OneCircuitPerName
<1>3. CASE CircuitsStill
  BY <1>3 DEF CircuitsStill, SameCircuits, OneCircuitPerName
<1> QED
  BY <1>1, <1>2, <1>3, CircuitsAlone

\* However many goroutines ask for a name first at the same time, one circuit is made for
\* it until the next Flush (circuit.go:34-50).
THEOREM OneCircuit == Spec => []OneCircuitPerName
BY RegistryKept, InitCircuits, StepOneCircuit, PTL DEF Spec

LEMMA KeepsPublished ==
    ASSUME RegistryInv, [Next]_vars, flushes' = flushes, NEW n \in DOMAIN circuitBreakers
    PROVE  n \in DOMAIN circuitBreakers' /\ circuitBreakers'[n] = circuitBreakers[n]
<1> USE DEF RegistryInv, SettingsInv, CircuitsInv
<1>1. ASSUME NEW p \in Proc, NewCircuitBreaker(p)
      PROVE  n \in DOMAIN circuitBreakers' /\ circuitBreakers'[n] = circuitBreakers[n]
  BY <1>1 DEF NewCircuitBreaker
<1>2. ASSUME NEW p \in Proc, StoreBreakers(p)
      PROVE  n \in DOMAIN circuitBreakers' /\ circuitBreakers'[n] = circuitBreakers[n]
  <2>1. cbs[p] = circuitBreakers /\ name[p] \notin DOMAIN circuitBreakers
    BY <1>2 DEF StoreBreakers, Goto, CopyInv, InCreate
  <2> QED
    BY <1>2, <2>1 DEF StoreBreakers, Put
<1>3. ASSUME NEW p \in Proc, StoreEmpty(p) PROVE FALSE
  BY <1>3 DEF StoreEmpty, HeapTypes
<1> QED
  BY <1>1, <1>2, <1>3, CircuitsAlone DEF CircuitsStill

\* A published circuit stays under its name until Flush: no slower writer stores a map
\* without it (circuit.go:45-48).
THEOREM PublishedKept == Spec => CircuitsKept
<1>1. RegistryInv /\ [Next]_vars =>
        [flushes' = flushes =>
           \A n \in DOMAIN circuitBreakers :
             n \in DOMAIN circuitBreakers' /\ circuitBreakers'[n] = circuitBreakers[n]]_vars
  BY KeepsPublished
<1> QED
  BY <1>1, RegistryKept, PTL DEF Spec, CircuitsKept

LEMMA StepEvents == RegistryInv /\ EventsInv /\ [Next]_vars => EventsInv'
<1> SUFFICES ASSUME RegistryInv, EventsInv, [Next]_vars PROVE EventsInv'
  OBVIOUS
<1> USE DEF RegistryInv, SettingsInv, CircuitsInv
<1>1. ASSUME NEW p \in Proc, NewCircuitBreaker(p) PROVE EventsInv'
  <2>0. PICK k : k = Len(heap) + 1
    OBVIOUS
  <2>1. /\ k \notin DOMAIN heap /\ DOMAIN heap' = DOMAIN heap \cup {k}
        /\ \A j \in DOMAIN heap : heap'[j] = heap[j]
        /\ heap'[k].events = {}
    BY <1>1, <2>0, NewCircuitHeap
  <2>2. flushes' = flushes
    BY <1>1 DEF NewCircuitBreaker, history
  <2> QED
    BY <2>1, <2>2 DEF EventsInv
<1>2. ASSUME NEW p \in Proc, StoreBreakers(p) PROVE EventsInv'
  BY <1>2 DEF StoreBreakers, EventsInv, history
<1>3. ASSUME NEW p \in Proc, StoreEmpty(p) PROVE EventsInv'
  <2>1. heap' = heap /\ flushes' = flushes + 1 /\ flushes \in Nat
    BY <1>3 DEF StoreEmpty, HeapTypes
  <2>2. \A i \in DOMAIN heap : heap[i].born \in Nat /\ heap[i].born <= flushes
    BY CircuitAt DEF Circuit, HeapInv
  <2>3. \A i \in DOMAIN heap : heap[i].born # flushes'
    BY <2>1, <2>2
  <2> QED
    BY <2>1, <2>3 DEF EventsInv
<1>4. CASE CircuitsStill
  BY <1>4 DEF CircuitsStill, SameCircuits, EventsInv
<1> QED
  BY <1>1, <1>2, <1>3, <1>4, CircuitsAlone

\* "Flush purges all circuit and metric information" (circuit.go:52), although calls that
\* began before it report later: they report to circuits that nobody can find.
THEOREM FlushForgets == Spec => []FlushPurges
<1>1. RegistryInv /\ EventsInv => FlushPurges
  BY DEF RegistryInv, CircuitsInv, HeapInv, EventsInv, FlushPurges
<1> QED
  BY <1>1, RegistryKept, InitCircuits, StepEvents, PTL DEF Spec

----------------------------------------------------------------------------
(* Tickets.                                                                *)

\* A step at which no ticket moves.
TicketsStill ==
    /\ DOMAIN heap' = DOMAIN heap
    /\ \A i \in DOMAIN heap :
         /\ heap'[i].tickets = heap[i].tickets
         /\ heap'[i].max = heap[i].max
         /\ Running(i)' = Running(i)

LEMMA TicketsAlone ==
    ASSUME RegistryInv, [Next]_vars
    PROVE  \/ \E p \in Proc : NewCircuitBreaker(p) \/ TakeTicket(p) \/ Return(p)
           \/ TicketsStill
<1>t. /\ pc \in [Proc -> Location] /\ DOMAIN result = Proc /\ HeapTypes /\ HeapInv
  BY DEF RegistryInv, SettingsInv, CircuitsInv, ControlInv, ControlTypes, HeapTypes
<1> USE <1>t DEF TicketsStill, Running, Goto, maps, locals
<1>1. ASSUME NEW p \in Proc, Configure(p) \/ ReadSettings(p) \/ Flush(p) \/ GetCircuit(p)
      PROVE  TicketsStill
  BY <1>1 DEF Configure, ReadSettings, Flush, GetCircuit, Begin
<1>2. ASSUME NEW p \in Proc, LockSettings(p) \/ CloneSettings(p) \/ StoreSettings(p)
                             \/ GetSettings(p) \/ ApplyDefaults(p)
      PROVE  TicketsStill
  BY <1>2 DEF LockSettings, CloneSettings, StoreSettings, GetSettings, ApplyDefaults
<1>3. ASSUME NEW p \in Proc, LockBreakers(p) \/ Found(p) \/ NotFound(p) \/ MakeChanPanics(p)
                             \/ StoreBreakers(p) \/ Refuse(p) \/ StoreEmpty(p)
      PROVE  TicketsStill
  BY <1>3 DEF LockBreakers, Found, NotFound, MakeChanPanics, StoreBreakers, Refuse, StoreEmpty
<1>4. ASSUME NEW p \in Proc, ReportEvent(p) PROVE TicketsStill
  <2>1. SameCircuits /\ \A j \in DOMAIN heap : heap'[j].tickets = heap[j].tickets
    BY <1>4, ReportEventHeap
  <2>2. /\ pc[p] = "reporting" /\ pc' = [pc EXCEPT ![p] = "idle"]
        /\ result' = [result EXCEPT ![p] = None]
    BY <1>4 DEF ReportEvent
  <2> QED
    BY <2>1, <2>2 DEF SameCircuits
<1>5. ASSUME NEW p \in Proc, ResetAll(p) PROVE TicketsStill
  <2>1. SameCircuits /\ \A j \in DOMAIN heap : heap'[j].tickets = heap[j].tickets
    BY <1>5, ResetAllHeap
  <2>2. /\ pc[p] = "flush" /\ pc' = [pc EXCEPT ![p] = "drop"] /\ UNCHANGED result
    BY <1>5 DEF ResetAll
  <2> QED
    BY <2>1, <2>2 DEF SameCircuits
<1>6. CASE Terminated \/ UNCHANGED vars
  <2>1. TicketsStill
    BY <1>6 DEF Terminated, vars
  <2> QED
    BY <2>1
<1> HIDE DEF TicketsStill
<1> QED
  BY <1>1, <1>2, <1>3, <1>4, <1>5, <1>6 DEF Next, Proceed

\* A ticket that is taken adds a call to those that run on the circuit, and one that is
\* returned removes it, whatever circuit has the name of the call by then.
LEMMA StepTickets == RegistryInv /\ TicketsInv /\ [Next]_vars => TicketsInv'
<1> SUFFICES ASSUME RegistryInv, TicketsInv, [Next]_vars PROVE TicketsInv'
  OBVIOUS
<1>t. /\ pc \in [Proc -> Location] /\ DOMAIN result = Proc /\ HeapTypes /\ HeapInv
      /\ ControlInv /\ SettingsTypes
  BY DEF RegistryInv, SettingsInv, CircuitsInv, ControlInv, ControlTypes, HeapTypes
<1>c. \A i \in DOMAIN heap : /\ heap[i].tickets \in Int /\ heap[i].max \in Int
                             /\ Cardinality(Running(i)) \in Nat
  BY <1>t, CircuitAt, FS_CardinalityType DEF TicketsInv, Circuit
<1>1. ASSUME NEW p \in Proc, NewCircuitBreaker(p) PROVE TicketsInv'
  <2>0. PICK k : k = Len(heap) + 1
    OBVIOUS
  <2>1. /\ k \notin DOMAIN heap /\ DOMAIN heap' = DOMAIN heap \cup {k}
        /\ \A j \in DOMAIN heap : heap'[j] = heap[j]
        /\ heap'[k].max = max[p] /\ heap'[k].tickets = max[p]
    BY <1>t, <1>1, <2>0, NewCircuitHeap
  <2>2. /\ pc[p] = "create" /\ pc' = [pc EXCEPT ![p] = "publish"]
        /\ result' = [result EXCEPT ![p] = k]
    BY <1>1, <2>0 DEF NewCircuitBreaker, Goto
  <2>3. Running(k)' = {}
    BY <1>t, <2>1, <2>2 DEF HeapInv, Running
  <2>4. \A i \in DOMAIN heap : Running(i)' = Running(i)
    BY <1>t, <2>1, <2>2 DEF Running
  <2>5. IsFiniteSet({}) /\ Cardinality({}) = 0 /\ max[p] \in Int
    BY <1>t, FS_EmptySet DEF SettingsTypes
  <2>6. IsFiniteSet(Running(k)') /\ heap'[k].tickets + Cardinality(Running(k)') = heap'[k].max
    BY <2>1, <2>3, <2>5
  <2> QED
    BY <2>1, <2>4, <2>6 DEF TicketsInv
<1>2. ASSUME NEW p \in Proc, TakeTicket(p) PROVE TicketsInv'
  <2>0. PICK k \in DOMAIN heap : k = result[p]
    BY <1>2, <1>t DEF TakeTicket, Goto, HeapInv
  <2>1. /\ SameCircuits /\ heap'[k].tickets = heap[k].tickets - 1
        /\ \A j \in DOMAIN heap : j # k => heap'[j] = heap[j]
    BY <1>t, <1>2, <2>0, TakeTicketHeap
  <2>2. pc[p] = "using" /\ pc' = [pc EXCEPT ![p] = "running"] /\ UNCHANGED result
    BY <1>2 DEF TakeTicket, Goto
  <2>3. Running(k)' = Running(k) \cup {p} /\ p \notin Running(k)
    BY <1>t, <2>0, <2>2 DEF Running
  <2>4. \A i \in DOMAIN heap : i # k => Running(i)' = Running(i)
    BY <1>t, <2>0, <2>2 DEF Running
  <2>5. IsFiniteSet(Running(k)') /\ Cardinality(Running(k)') = Cardinality(Running(k)) + 1
    BY <2>3, FS_AddElement DEF TicketsInv
  <2>6. heap'[k].tickets + Cardinality(Running(k)') = heap'[k].max
    BY <1>c, <2>1, <2>5 DEF TicketsInv, SameCircuits
  <2> QED
    BY <2>1, <2>4, <2>5, <2>6 DEF TicketsInv, SameCircuits
<1>3. ASSUME NEW p \in Proc, Return(p) PROVE TicketsInv'
  <2>0. PICK k \in DOMAIN heap : k = result[p]
    BY <1>3, <1>t DEF Return, Goto, HeapInv
  <2>1. /\ SameCircuits /\ heap'[k].tickets = heap[k].tickets + 1
        /\ \A j \in DOMAIN heap : j # k => heap'[j] = heap[j]
    BY <1>t, <1>3, <2>0, ReturnHeap
  <2>2. pc[p] = "running" /\ pc' = [pc EXCEPT ![p] = "reporting"] /\ UNCHANGED result
    BY <1>3 DEF Return, Goto
  <2>3. Running(k)' = Running(k) \ {p} /\ p \in Running(k)
    BY <1>t, <2>0, <2>2 DEF Running
  <2>4. \A i \in DOMAIN heap : i # k => Running(i)' = Running(i)
    BY <1>t, <2>0, <2>2 DEF Running
  <2>5. IsFiniteSet(Running(k)') /\ Cardinality(Running(k)') = Cardinality(Running(k)) - 1
    BY <2>3, FS_RemoveElement DEF TicketsInv
  <2>6. heap'[k].tickets + Cardinality(Running(k)') = heap'[k].max
    BY <1>c, <2>1, <2>5 DEF TicketsInv, SameCircuits
  <2> QED
    BY <2>1, <2>4, <2>5, <2>6 DEF TicketsInv, SameCircuits
<1>4. CASE TicketsStill
  BY <1>4 DEF TicketsStill, TicketsInv
<1> QED
  BY <1>1, <1>2, <1>3, <1>4, TicketsAlone

\* A ticket goes back to the pool it was taken from, also when the name has another circuit
\* by then (pool.go:41, circuit.go:53).
THEOREM TicketsStayWithCircuit == Spec => []TicketsKept
<1>1. Init => TicketsInv
  <2> SUFFICES ASSUME Init PROVE DOMAIN heap = {}
    BY DEF TicketsInv
  <2> QED
    BY DEF Init
<1>2. TicketsInv => TicketsKept
  BY DEF TicketsInv, TicketsKept, Running
<1> QED
  BY <1>1, <1>2, RegistryKept, StepTickets, PTL DEF Spec

----------------------------------------------------------------------------
(* Sizes of the pools.                                                     *)

LEMMA StepSize == RegistryInv /\ SizeInv /\ SizeStaleUntilFlush /\ [Next]_vars
                      => SizeInv' /\ SizeStaleUntilFlush'
<1> SUFFICES ASSUME RegistryInv, SizeInv, SizeStaleUntilFlush, [Next]_vars
             PROVE  SizeInv' /\ SizeStaleUntilFlush'
  OBVIOUS
<1>t. /\ pc \in [Proc -> Location] /\ DOMAIN result = Proc /\ max \in [Proc -> Int]
      /\ name \in [Proc -> Name \cup {None}]
      /\ HeapTypes /\ CopyInv /\ HeapInv /\ ControlInv /\ SettingsTypes /\ CloneInv
  BY DEF RegistryInv, SettingsInv, CircuitsInv, ControlInv, ControlTypes, HeapTypes, SettingsTypes
<1> DEFINE Goal == SizeInv' /\ SizeStaleUntilFlush'
<1>1. ASSUME NEW p \in Proc, StoreSettings(p) PROVE Goal
  <2>1. /\ \A n \in DOMAIN circuitSettings \ DOMAIN cmds[p] :
             n \in DOMAIN circuitSettings' /\ circuitSettings'[n] = circuitSettings[n]
        /\ resettled' = resettled \cup DOMAIN cmds[p]
    BY <1>1, <1>t, Stored DEF StoreSettings
  <2>2. /\ UNCHANGED <<circuitBreakers, heap, name, max, result>>
        /\ \A q \in Proc : pc'[q] \in {"create", "publish"} => pc'[q] = pc[q]
    BY <1>1, <1>t DEF StoreSettings, Goto
  <2> QED
    BY <2>1, <2>2 DEF SizeInv, SizeStaleUntilFlush
<1>2. ASSUME NEW p \in Proc, GetSettings(p), op[p] # "read" PROVE Goal
  <2>1. /\ UNCHANGED <<circuitSettings, circuitBreakers, heap, name, result>>
        /\ pc[p] = "getSettings" /\ pc' = [pc EXCEPT ![p] = "create"]
        /\ name[p] \in DOMAIN circuitSettings
        /\ max' = [max EXCEPT ![p] = circuitSettings[name[p]]["MaxConcurrentRequests"]]
        /\ resettled' = resettled \ {name[p]}
    BY <1>2 DEF GetSettings, Goto, maps
  <2>2. op[p] = "get"
    BY <1>2, <2>1, <1>t DEF ControlInv, OpInv
  <2>3. \A q \in Proc : q # p => pc[q] \notin {"create", "publish"}
    BY <1>t, <2>1, <2>2 DEF ControlInv, LockInv, InBreakers, InCreate
  <2>4. name[p] \notin DOMAIN circuitBreakers
    BY <1>t, <2>1, <2>2 DEF CopyInv, InCreate
  <2> QED
    BY <1>t, <2>1, <2>3, <2>4 DEF SizeInv, SizeStaleUntilFlush
<1>3. ASSUME NEW p \in Proc, NewCircuitBreaker(p) PROVE Goal
  <2>0. PICK k : k = Len(heap) + 1
    OBVIOUS
  <2>1. /\ \A j \in DOMAIN heap : heap'[j] = heap[j]
        /\ heap'[k].max = max[p]
    BY <1>t, <1>3, <2>0, NewCircuitHeap
  <2>2. /\ pc[p] = "create" /\ pc' = [pc EXCEPT ![p] = "publish"]
        /\ result' = [result EXCEPT ![p] = k]
        /\ UNCHANGED <<circuitSettings, circuitBreakers, name, max, resettled>>
    BY <1>3, <2>0 DEF NewCircuitBreaker, Goto, history
  <2>3. \A q \in Proc : pc[q] = "publish" => result[q] \in DOMAIN heap
    BY <1>t DEF HeapInv
  <2>4. \A n \in DOMAIN circuitBreakers : circuitBreakers[n] \in DOMAIN heap
    BY <1>t DEF HeapInv
  <2> QED
    BY <1>t, <2>1, <2>2, <2>3, <2>4 DEF SizeInv, SizeStaleUntilFlush
<1>4. ASSUME NEW p \in Proc, StoreBreakers(p) PROVE Goal
  <2>1. /\ UNCHANGED <<circuitSettings, heap, name, max, result, resettled>>
        /\ pc[p] = "publish" /\ pc' = [pc EXCEPT ![p] = "using"]
    BY <1>4 DEF StoreBreakers, Goto, history
  <2>2. cbs[p] = circuitBreakers /\ name[p] \notin DOMAIN circuitBreakers
    BY <2>1, <1>t DEF CopyInv, InCreate
  <2>3. /\ DOMAIN circuitBreakers' = DOMAIN circuitBreakers \cup {name[p]}
        /\ circuitBreakers'[name[p]] = result[p]
        /\ \A n \in DOMAIN circuitBreakers : circuitBreakers'[n] = circuitBreakers[n]
    BY <1>4, <2>2 DEF StoreBreakers, Put
  <2> QED
    BY <1>t, <2>1, <2>3 DEF SizeInv, SizeStaleUntilFlush
<1>5. ASSUME NEW p \in Proc, StoreEmpty(p) PROVE Goal
  <2>1. /\ UNCHANGED <<circuitSettings, heap, name, max, result, resettled>>
        /\ DOMAIN circuitBreakers' = {}
        /\ pc' = [pc EXCEPT ![p] = "idle"]
    BY <1>5, EmptyIsMap DEF StoreEmpty, Goto, locals
  <2> QED
    BY <1>t, <2>1 DEF SizeInv, SizeStaleUntilFlush
<1> DEFINE Same ==
      /\ UNCHANGED <<circuitSettings, resettled>>
      /\ \A q \in Proc : pc'[q] = "create" =>
           pc[q] = "create" /\ max'[q] = max[q] /\ name'[q] = name[q]
<1>6. ASSUME CircuitsStill, Same PROVE Goal
  BY <1>6, <1>t DEF CircuitsStill, SameCircuits, SizeInv, SizeStaleUntilFlush, HeapInv
<1>7. ASSUME NEW p \in Proc,
             \/ Configure(p) \/ ReadSettings(p) \/ GetCircuit(p) \/ Flush(p) \/ LockSettings(p)
             \/ CloneSettings(p) \/ ApplyDefaults(p) \/ LockBreakers(p) \/ Found(p) \/ NotFound(p)
      PROVE  Same
  BY <1>7, <1>t DEF Configure, ReadSettings, GetCircuit, Flush, Begin, LockSettings, CloneSettings,
     ApplyDefaults, LockBreakers, Found, NotFound, Goto, maps, locals, history
<1>8. ASSUME NEW p \in Proc,
             \/ MakeChanPanics(p) \/ TakeTicket(p) \/ Refuse(p) \/ Return(p) \/ ReportEvent(p)
             \/ ResetAll(p) \/ (GetSettings(p) /\ op[p] = "read")
      PROVE  Same
  BY <1>8, <1>t DEF MakeChanPanics, TakeTicket, Refuse, Return, ReportEvent, Touch, ResetAll,
     GetSettings, Goto, maps, locals, history
<1>9. ASSUME Terminated \/ UNCHANGED vars PROVE Same
  BY <1>9 DEF Terminated, vars, maps, locals, history
<1>10. (\E p \in Proc : NewCircuitBreaker(p) \/ StoreBreakers(p) \/ StoreEmpty(p)) \/ CircuitsStill
  BY <1>t, CircuitsAlone
<1> HIDE DEF Goal, Same
<1>11. ASSUME NEW p \in Proc,
              Configure(p) \/ ReadSettings(p) \/ GetCircuit(p) \/ Flush(p) \/ Proceed(p)
       PROVE  Goal \/ Same
  BY <1>1, <1>2, <1>3, <1>4, <1>5, <1>7, <1>8, <1>11 DEF Proceed
<1>12. Goal \/ Same
  BY <1>9, <1>11 DEF Next
<1>13. Goal \/ CircuitsStill
  BY <1>3, <1>4, <1>5, <1>10
<1>14. Goal
  BY <1>6, <1>12, <1>13
<1> QED
  BY <1>14 DEF Goal

\* The pool that GetCircuit finds has the size that the settings of its name say, unless they
\* were stored after newExecutorPool had read them (pool.go:18).
THEOREM SizesStaleUntilFlush == Spec => []SizeStaleUntilFlush
<1>1. Init => SizeInv /\ SizeStaleUntilFlush
  BY DEF Init, SizeInv, SizeStaleUntilFlush, Empty
<1> QED
  BY <1>1, RegistryKept, StepSize, PTL DEF Spec
=============================================================================
