------------------------------ MODULE Registry ------------------------------
(***************************************************************************)
(* The process-wide registries: settings by name (hystrix/settings.go) and *)
(* circuits by name (GetCircuit and Flush of hystrix/circuit.go), with the *)
(* executor pools (hystrix/pool.go) of the circuits and the calls that use *)
(* them: a call keeps the circuit it got, whatever becomes of the name.    *)
(*                                                                         *)
(* Both maps are copied on write: readers load a pointer without a lock,   *)
(* writers clone, change and store under a mutex.  A step is one load, one *)
(* store or one lock; a deferred Unlock is part of the step that returns.  *)
(***************************************************************************)
EXTENDS Integers, Sequences, FiniteSets

CONSTANTS
    Proc,       \* goroutines
    Name,       \* command names
    Field,      \* the settings of a command, MaxConcurrentRequests among them
    DefaultOf,  \* DefaultTimeout, DefaultMaxConcurrent, ...
    Configs,    \* the arguments Configure is called with, maps from names to CommandConfigs
    MaxOps,     \* bound on the operations started
    None        \* nobody, no name, no circuit

ASSUME FieldAssumption ==
    /\ "MaxConcurrentRequests" \in Field
    /\ DefaultOf \in [Field -> Int \ {0}]
ASSUME ConfigsAssumption ==
    \A m \in Configs : DOMAIN m \subseteq Name /\ \A n \in DOMAIN m : m[n] \in [Field -> Int]
ASSUME NoneAssumption == None \notin Proc \cup Name

VARIABLES
    circuitSettings,        \* the map circuitSettings points to
    circuitBreakers,        \* the map circuitBreakers points to; a circuit is its index in heap
    settingsMutex,          \* who holds it
    circuitBreakersMutex,   \* who holds it
    heap,                   \* the circuits created so far
    pc, op,                 \* where each goroutine is, and in which operation
    name, cmds,             \* the arguments of that operation
    settings, cbs, max,     \* the locals of Configure, GetCircuit and newExecutorPool
    result,                 \* the circuit GetCircuit returned
    ops,                    \* operations started
    flushes, explicit,      \* history: Flush calls done; what Configure was last told of a name
    overtaken,              \* history: names told to Configure while defaults were on their way
    resettled               \* history: names stored since newExecutorPool last read them

maps == <<circuitSettings, circuitBreakers, settingsMutex, circuitBreakersMutex, heap>>
locals == <<op, name, cmds, settings, cbs, max, result>>
history == <<flushes, explicit, overtaken, resettled>>
vars == <<maps, pc, locals, ops, history>>

Empty == [n \in {} |-> {}]

\* The zero CommandConfig.
Unset == [f \in Field |-> 0]

\* The Settings made of a CommandConfig: cmp.Or takes the first that is not zero.
Settings(config) == [f \in Field |-> IF config[f] # 0 THEN config[f] ELSE DefaultOf[f]]

\* m with the entries of new added, as the assignments to a cloned map do.
Put(m, new) ==
    [n \in DOMAIN m \cup DOMAIN new |-> IF n \in DOMAIN new THEN new[n] ELSE m[n]]

Goto(p, from, to) == pc[p] = from /\ pc' = [pc EXCEPT ![p] = to]

Init ==
    /\ circuitSettings = Empty
    /\ circuitBreakers = Empty
    /\ settingsMutex = None
    /\ circuitBreakersMutex = None
    /\ heap = <<>>
    /\ pc = [p \in Proc |-> "idle"]
    /\ op = [p \in Proc |-> "none"]
    /\ name = [p \in Proc |-> None]
    /\ cmds = [p \in Proc |-> Empty]
    /\ settings = [p \in Proc |-> Empty]
    /\ cbs = [p \in Proc |-> Empty]
    /\ max = [p \in Proc |-> 0]
    /\ result = [p \in Proc |-> None]
    /\ ops = 0
    /\ flushes = 0
    /\ explicit = Empty
    /\ overtaken = {}
    /\ resettled = {}

\* A goroutine that is in no operation begins one.
Begin(p, o, to) ==
    /\ ops < MaxOps
    /\ ops' = ops + 1
    /\ Goto(p, "idle", to)
    /\ op' = [op EXCEPT ![p] = o]

----------------------------------------------------------------------------
(* Configure and getSettings                                               *)

Configure(p) ==
    /\ Begin(p, "configure", "lockSettings")
    /\ \E m \in Configs : cmds' = [cmds EXCEPT ![p] = m]
    /\ UNCHANGED <<maps, name, settings, cbs, max, result, history>>

\* Mutation: Configure does not lock.
LockSettings_Missing(p) ==
    /\ Goto(p, "lockSettings", "clone")
    /\ settingsMutex' = p
    /\ UNCHANGED <<circuitSettings, circuitBreakers, circuitBreakersMutex, heap, locals, ops,
                   history>>

LockSettings(p) ==
    /\ Goto(p, "lockSettings", "clone")
    /\ settingsMutex = None
    /\ settingsMutex' = p
    /\ UNCHANGED <<circuitSettings, circuitBreakers, circuitBreakersMutex, heap, locals, ops,
                   history>>

CloneSettings(p) ==
    /\ Goto(p, "clone", "store")
    /\ settings' = [settings EXCEPT ![p] =
          Put(circuitSettings, [n \in DOMAIN cmds[p] |-> Settings(cmds[p][n])])]
    /\ UNCHANGED <<maps, op, name, cmds, cbs, max, result, ops, history>>

\* The names getSettings did not find and is about to apply the defaults to.
Defaulting == UNION {DOMAIN cmds[q] : q \in {r \in Proc : op[r] # "configure"}}

\* The new map is published and the mutex released; ConfigureCommand called by
\* getSettings goes back there.
StoreSettings(p) ==
    /\ Goto(p, "store", IF op[p] = "configure" THEN "idle" ELSE "getSettings")
    /\ circuitSettings' = settings[p]
    /\ settingsMutex' = None
    /\ cmds' = [cmds EXCEPT ![p] = Empty]
    /\ settings' = [settings EXCEPT ![p] = Empty]
    /\ explicit' = IF op[p] = "configure" THEN Put(explicit, cmds[p]) ELSE explicit
    /\ overtaken' = IF op[p] = "configure"
                    THEN (overtaken \ DOMAIN cmds[p]) \cup (DOMAIN cmds[p] \cap Defaulting)
                    ELSE overtaken
    /\ resettled' = resettled \cup DOMAIN cmds[p]
    /\ UNCHANGED <<circuitBreakers, circuitBreakersMutex, heap, op, name, cbs, max,
                   result, ops, flushes>>

\* What the breaker and the event stream do: getSettings alone.
ReadSettings(p) ==
    /\ Begin(p, "read", "getSettings")
    /\ \E n \in Name : name' = [name EXCEPT ![p] = n]
    /\ UNCHANGED <<maps, cmds, settings, cbs, max, result, history>>

\* getSettings finds the name ...
GetSettings(p) ==
    /\ Goto(p, "getSettings", IF op[p] = "read" THEN "idle" ELSE "create")
    /\ name[p] \in DOMAIN circuitSettings
    /\ max' = [max EXCEPT ![p] = circuitSettings[name[p]]["MaxConcurrentRequests"]]
    /\ resettled' = IF op[p] = "read" THEN resettled ELSE resettled \ {name[p]}
    /\ UNCHANGED <<maps, op, name, cmds, settings, cbs, result, ops, flushes, explicit, overtaken>>

\* ... or applies the defaults to it and tries again.
ApplyDefaults(p) ==
    /\ Goto(p, "getSettings", "lockSettings")
    /\ name[p] \notin DOMAIN circuitSettings
    /\ cmds' = [cmds EXCEPT ![p] = [n \in {name[p]} |-> Unset]]
    /\ UNCHANGED <<maps, op, name, settings, cbs, max, result, ops, history>>

----------------------------------------------------------------------------
(* GetCircuit, and the call it was made for                                *)

\* The load without a lock.
GetCircuit(p) ==
    \E n \in Name :
        /\ Begin(p, "get", IF n \in DOMAIN circuitBreakers THEN "using" ELSE "lockBreakers")
        /\ name' = [name EXCEPT ![p] = n]
        /\ result' = [result EXCEPT ![p] =
              IF n \in DOMAIN circuitBreakers THEN circuitBreakers[n] ELSE None]
        /\ UNCHANGED <<maps, cmds, settings, cbs, max, history>>

\* Mutation: circuitBreakersMutex is not there.
LockBreakers_Missing(p) ==
    /\ pc[p] = "lockBreakers"
    /\ pc' = [pc EXCEPT ![p] = IF op[p] = "flush" THEN "flush" ELSE "recheck"]
    /\ circuitBreakersMutex' = p
    /\ UNCHANGED <<circuitSettings, circuitBreakers, settingsMutex, heap, locals, ops,
                   history>>

LockBreakers(p) ==
    /\ Goto(p, "lockBreakers", IF op[p] = "flush" THEN "flush" ELSE "recheck")
    /\ circuitBreakersMutex = None
    /\ circuitBreakersMutex' = p
    /\ UNCHANGED <<circuitSettings, circuitBreakers, settingsMutex, heap, locals, ops,
                   history>>

\* Another goroutine created the circuit in the meantime.
Found(p) ==
    /\ Goto(p, "recheck", "using")
    /\ name[p] \in DOMAIN circuitBreakers
    /\ result' = [result EXCEPT ![p] = circuitBreakers[name[p]]]
    /\ circuitBreakersMutex' = None
    /\ UNCHANGED <<circuitSettings, circuitBreakers, settingsMutex, heap, op, name, cmds, settings,
                   cbs, max, ops, history>>

\* Mutation: the map is not looked at again under the lock.
NotFound_NoRecheck(p) ==
    /\ Goto(p, "recheck", "getSettings")
    /\ cbs' = [cbs EXCEPT ![p] = circuitBreakers]
    /\ UNCHANGED <<maps, op, name, cmds, settings, max, result, ops, history>>

\* The map is cloned and newCircuitBreaker begins with newExecutorPool.
NotFound(p) ==
    /\ Goto(p, "recheck", "getSettings")
    /\ name[p] \notin DOMAIN circuitBreakers
    /\ cbs' = [cbs EXCEPT ![p] = circuitBreakers]
    /\ UNCHANGED <<maps, op, name, cmds, settings, max, result, ops, history>>

\* Mutation: the mutex is not released.
MakeChanPanics_Locked(p) ==
    /\ Goto(p, "create", "idle")
    /\ max[p] < 0
    /\ cbs' = [cbs EXCEPT ![p] = Empty]
    /\ UNCHANGED <<maps, op, name, cmds, settings, max, result, ops, history>>

\* The channel of tickets cannot be made: the deferred Unlock of GetCircuit runs, and
\* the caller gets the panic.
MakeChanPanics(p) ==
    /\ Goto(p, "create", "idle")
    /\ max[p] < 0
    /\ circuitBreakersMutex' = None
    /\ cbs' = [cbs EXCEPT ![p] = Empty]
    /\ UNCHANGED <<circuitSettings, circuitBreakers, settingsMutex, heap, op, name, cmds, settings,
                   max, result, ops, history>>

\* Mutation: the pool has the default size.
NewCircuitBreaker_Default(p) ==
    /\ Goto(p, "create", "publish")
    /\ heap' = Append(heap, [name |-> name[p], max |-> DefaultOf["MaxConcurrentRequests"],
                             tickets |-> DefaultOf["MaxConcurrentRequests"],
                             born |-> flushes, events |-> {}])
    /\ result' = [result EXCEPT ![p] = Len(heap) + 1]
    /\ UNCHANGED <<circuitSettings, circuitBreakers, settingsMutex, circuitBreakersMutex, op, name,
                   cmds, settings, cbs, max, ops, history>>

\* newCircuitBreaker has its full pool; the new metrics hold no event.
NewCircuitBreaker(p) ==
    /\ Goto(p, "create", "publish")
    /\ max[p] >= 0
    /\ heap' = Append(heap, [name |-> name[p], max |-> max[p], tickets |-> max[p],
                             born |-> flushes, events |-> {}])
    /\ result' = [result EXCEPT ![p] = Len(heap) + 1]
    /\ UNCHANGED <<circuitSettings, circuitBreakers, settingsMutex, circuitBreakersMutex, op, name,
                   cmds, settings, cbs, max, ops, history>>

StoreBreakers(p) ==
    /\ Goto(p, "publish", "using")
    /\ circuitBreakers' = Put(cbs[p], [n \in {name[p]} |-> result[p]])
    /\ circuitBreakersMutex' = None
    /\ cbs' = [cbs EXCEPT ![p] = Empty]
    /\ UNCHANGED <<circuitSettings, settingsMutex, heap, op, name, cmds, settings, max,
                   result, ops, history>>

\* The circuit the call of p got, with these changes; a call that ends forgets it.
Touch(p, circuit) ==
    /\ heap' = [heap EXCEPT ![result[p]] = circuit]
    /\ UNCHANGED <<circuitSettings, circuitBreakers, settingsMutex, circuitBreakersMutex, op, name,
                   cmds, settings, cbs, max, ops, history>>

\* The call takes a ticket and runs, ...
TakeTicket(p) ==
    /\ Goto(p, "using", "running")
    /\ heap[result[p]].tickets > 0
    /\ Touch(p, [heap[result[p]] EXCEPT !.tickets = @ - 1])
    /\ UNCHANGED result

\* ... or the breaker refuses it, or there is no ticket left.
Refuse(p) ==
    /\ Goto(p, "using", "reporting")
    /\ UNCHANGED <<maps, locals, ops, history>>

\* Mutation: the pool is looked up by its name again.
Return_Lookup(p) ==
    /\ Goto(p, "running", "reporting")
    /\ LET i == IF name[p] \in DOMAIN circuitBreakers THEN circuitBreakers[name[p]] ELSE result[p]
       IN  heap' = [heap EXCEPT ![i].tickets = @ + 1, ![i].events = @ \cup {flushes}]
    /\ UNCHANGED <<circuitSettings, circuitBreakers, settingsMutex, circuitBreakersMutex, locals,
                   ops, history>>

\* Return: it counts for the pool's metrics and the ticket goes back.
Return(p) ==
    /\ Goto(p, "running", "reporting")
    /\ Touch(p, [heap[result[p]] EXCEPT !.tickets = @ + 1, !.events = @ \cup {flushes}])
    /\ UNCHANGED result

\* The call reports its event.
ReportEvent(p) ==
    /\ Goto(p, "reporting", "idle")
    /\ Touch(p, [heap[result[p]] EXCEPT !.events = @ \cup {flushes}])
    /\ result' = [result EXCEPT ![p] = None]

----------------------------------------------------------------------------
(* Flush                                                                   *)

Flush(p) ==
    /\ Begin(p, "flush", "lockBreakers")
    /\ UNCHANGED <<maps, name, cmds, settings, cbs, max, result, history>>

\* The loop over the circuits: metrics and pool metrics are reset.  Circuits share
\* nothing, so what one of them sees does not depend on the order of the loop.
ResetAll(p) ==
    /\ Goto(p, "flush", "drop")
    /\ heap' = [i \in DOMAIN heap |-> IF \E n \in DOMAIN circuitBreakers : circuitBreakers[n] = i
                                      THEN [heap[i] EXCEPT !.events = {}] ELSE heap[i]]
    /\ UNCHANGED <<circuitSettings, circuitBreakers, settingsMutex, circuitBreakersMutex, locals,
                   ops, history>>

\* Mutation: Flush resets the metrics but keeps the circuits.
StoreEmpty_Keeps(p) ==
    /\ Goto(p, "drop", "idle")
    /\ circuitBreakersMutex' = None
    /\ flushes' = flushes + 1
    /\ UNCHANGED <<circuitSettings, circuitBreakers, settingsMutex, heap, locals, ops,
                   explicit, overtaken, resettled>>

StoreEmpty(p) ==
    /\ Goto(p, "drop", "idle")
    /\ circuitBreakers' = Empty
    /\ circuitBreakersMutex' = None
    /\ flushes' = flushes + 1
    /\ UNCHANGED <<circuitSettings, settingsMutex, heap, locals, ops, explicit,
                   overtaken, resettled>>

----------------------------------------------------------------------------
\* Whatever a goroutine in the middle of an operation does next.
Proceed(p) ==
    \/ LockSettings(p) \/ CloneSettings(p) \/ StoreSettings(p)
    \/ GetSettings(p) \/ ApplyDefaults(p)
    \/ LockBreakers(p) \/ Found(p) \/ NotFound(p) \/ NewCircuitBreaker(p) \/ StoreBreakers(p)
    \/ MakeChanPanics(p) \/ TakeTicket(p) \/ Refuse(p) \/ Return(p) \/ ReportEvent(p)
    \/ ResetAll(p) \/ StoreEmpty(p)

\* Every operation the bound allows is over.
Terminated ==
    /\ ops = MaxOps /\ \A p \in Proc : pc[p] = "idle"
    /\ UNCHANGED vars

Next ==
    \/ \E p \in Proc : Configure(p) \/ ReadSettings(p) \/ GetCircuit(p) \/ Flush(p) \/ Proceed(p)
    \/ Terminated

Spec == Init /\ [][Next]_vars

\* Goroutines are scheduled, and a mutex that is free goes to one who waits.
FairSpec == Spec /\ \A p \in Proc : WF_vars(Proceed(p))
----------------------------------------------------------------------------
(* Properties                                                              *)

\* Until the next Flush there is one circuit for a name, however many goroutines
\* ask for it first at the same time (circuit.go:34-50): its tickets bound, and
\* its breaker watches, all calls of that name.
OneCircuitPerName ==
    \A i, j \in DOMAIN heap :
        heap[i].name = heap[j].name /\ heap[i].born = heap[j].born => i = j

\* A circuit once published stays under its name until Flush: no clone that a
\* slower writer stores loses it (circuit.go:45-48).
CircuitsKept ==
    [][flushes' = flushes =>
         \A n \in DOMAIN circuitBreakers :
             n \in DOMAIN circuitBreakers' /\ circuitBreakers'[n] = circuitBreakers[n]]_vars

\* "Flush purges all circuit and metric information" (circuit.go:52): a circuit
\* that can be found holds no event reported before the last Flush was over,
\* although calls that began before it report late.
FlushPurges ==
    \A n \in DOMAIN circuitBreakers :
        \A k \in heap[circuitBreakers[n]].events : k = flushes

\* The tickets of a circuit are in its pool or with the calls that took them there, also
\* when the name has been flushed or configured anew in the meantime: a call never puts a
\* ticket into another pool, which would block on a full one (pool.go:41, circuit.go:53).
TicketsKept ==
    \A i \in DOMAIN heap :
        heap[i].tickets + Cardinality({p \in Proc : pc[p] = "running" /\ result[p] = i})
            = heap[i].max

\* The pool a call finds has the size that the settings of its name say, unless they were
\* stored after newExecutorPool read them (pool.go:18), also when Configure stores between
\* that read and the publication of the circuit.  A Flush lets the new size take effect.
SizeStaleUntilFlush ==
    \A n \in DOMAIN circuitBreakers \ resettled :
        heap[circuitBreakers[n]].max = circuitSettings[n]["MaxConcurrentRequests"]

\* Every operation ends: nobody waits for a mutex for ever, GetCircuit takes the
\* two mutexes in one order only, and getSettings, which calls itself until it
\* finds the name, does find it (settings.go:80-89).
OperationsEnd == \A p \in Proc : pc[p] # "idle" ~> pc[p] = "idle"

\* What Configure was last told of a name holds for that name, whoever looks it
\* up, creates or flushes its circuit (settings.go:57-89), unless somebody had
\* found no settings for the name before and applies the defaults afterwards.
ExplicitKept ==
    \A n \in DOMAIN explicit \ overtaken :
        /\ n \in DOMAIN circuitSettings
        /\ \A f \in Field : explicit[n][f] # 0 => circuitSettings[n][f] = explicit[n][f]

\* "Configure applies settings for a set of circuits" (settings.go:57): what
\* Configure was last told of a name is what holds for that name.
ConfiguredHolds ==
    \A n \in DOMAIN explicit : \A f \in Field :
        explicit[n][f] # 0 => circuitSettings[n][f] = explicit[n][f]
=============================================================================
