# Verification of hystrix-go

hystrix-go executes functions ("commands") behind a circuit breaker: every command has a name,
every name a circuit, and a circuit bounds how many calls are inside, how long a call may wait,
and refuses calls while too large a share of the recent ones failed. The library is one package
(`src/hystrix`) with three helpers (`rolling`, `metric_collector`, `internal/pool`) and four
collectors that forward metrics (`src/plugins`), written without a central lock: atomics, copy-on-write maps, channels used as semaphores, pooled
channels and timers. This directory holds TLA+ modules that model it at that granularity, the
TLC configurations that check them on small instances, and proofs that TLAPS checks for
instances of any size. `PROJECT.json` has the map from definitions to source lines, the mutants
that show each property can fail, and the hazards the properties were chosen for.

    tlc -workers 2 -config Command_calls.cfg MCCommand      # one run
    tlapm CommandProofs.tla                                 # one module of proofs

All line numbers below are of files under `src/hystrix`, or `src/plugins` where it says so.

## 1. Inventory

| Component (source) | State | Operations | Module |
|---|---|---|---|
| command execution (`hystrix.go`) | locals of each call; one extra goroutine per call | Go, GoC, Do, DoC, errorWithFallback, tryFallback | `Command` |
| executor pool (`pool.go`) | ticket channel, two rolling counters | newExecutorPool, Return, ActiveCount, receive on Tickets | `Command`, `Bulkhead`; `Registry` (one pool per circuit) |
| channel and timer pools (`internal/pool`) | two `sync.Pool`s | Acquire/Release of a result channel or a timer | `Command` |
| circuit breaker (`circuit.go`, `metrics.go`) | `open`, `openedOrLastTestedTime`, the exchange of metrics | IsOpen, AllowRequest, allowSingleTest, setOpen, setClose, reportEvent, ErrorPercent, IsHealthy | `Circuit` |
| default collector (`metric_collector/default_metric_collector.go`) | thirteen rolling counters, a timing flag | Update, Reset | `Collectors`; `Circuit` (the two counters that decide) |
| settings (`settings.go`) | copy-on-write map, mutex | Configure, ConfigureCommand, getSettings | `Registry` |
| registry of circuits (`circuit.go`) | copy-on-write map, mutex | GetCircuit, Flush, newCircuitBreaker | `Registry` |
| collector registry (`metric_collector/metric_collector.go`) | list of initializers, mutex | Register, InitializeMetricCollectors | not modelled, see 8 |
| rolling number (`rolling/rolling.go`) | ring of 11 atomic bucket pointers | IncrementAt, UpdateMaxAt, Sum, Max, Reset | `RollingNumber` |
| rolling timing (`rolling/rolling_timing.go`) | map of buckets, sorted cache, RWMutex | Add, SortedDurations, Reset, Percentile, Mean | `RollingTiming`, `TimingStats` |
| event stream (`eventstream.go`) | map of clients, a channel each, a publisher goroutine, the timing flag | ServeHTTP, register, unregister, loop, writeToRequests, Stop | `EventStream` |
| plugin collectors (`plugins/statsd`, `datadog`, `graphite`, `prometheus`) | counters and a gauge, kept by third-party clients under a prefix, a tag or a label | Update, Reset, NewStatsdCollector, NewCollector | `Collectors` |
| logger, load test, synctest variants of the pools | none that matters | | not modelled, see 8 |

**How they interact.** A call of DoC looks its circuit up (`GetCircuit`, which may create it from
`getSettings`), asks the breaker (`AllowRequest`), takes a ticket, and starts a goroutine for the
run function which answers on a pooled channel. It then waits for that answer, for its context or
for a pooled timer, returns the ticket and what it acquired, and reports one or two events to the
circuit. `reportEvent` closes the circuit on a success, which resets the counters, and lets every
registered collector, the default one first, update its counters. Those counters are what `IsOpen` decides on in the next call. The event stream reads
counters and calls `IsOpen` of every circuit once a second, so it too can open a circuit; and it
switches the global timing flag that the default collector looks at.

**What is hard.** Almost nothing is one critical section. `open` and its time are two atomics
written one after the other; requests and errors are two of thirteen counters that are added to,
read and reset one after the other; the gauge of an open circuit is sent in whatever order calls
report; a map is read without the lock and written under it; a bucket of the
ring is looked at, replaced and updated in three operations; a bucket of timings is looked for
under RLock and made under Lock. A run function outlives its call after a timeout, with its
channel. A pooled channel or timer must not carry anything from one call to the next. The
publisher must never wait for a client, while holding a lock a leaving client needs.

**What makes each component correct** (the names are definitions that the runs check):

- commands: tickets are conserved (`TicketConservation`), a pooled channel or timer serves one
  call (`OwnResult`, `TimerExclusive`), a late run function is not stuck
  (`SendNeverBlocks`) and the only kind that runs beyond the limit (`OverrunOnlyAbandoned`), every call returns (`CallReturns`), result and report
  agree (`OutcomeSound`), the pool is a bulkhead (`ImplementsBulkhead`);
- breaker: `IsOpen` answers something that was true (`AnswerWasTrue`), tests are rare
  (`TestsSpaced`) and early only in one gap (`EarlyOnlyBeforeStore`), a success lets the past be
  forgotten (`ErrorsForgotten`), and who decides on counters that nobody changes meanwhile opens on
  the measure (`OpensOnMeasure`) and on new errors (`OpensOnNewErrors`);
- registries: one circuit per name (`OneCircuitPerName`), no lost update (`CircuitsKept`,
  `ExplicitKept`), `Flush` forgets (`FlushPurges`) but takes no ticket away from a pool
  (`TicketsKept`) and makes a new size count (`SizeStaleUntilFlush`), nothing waits for ever
  (`OperationsEnd`);
- collectors: the default collector's counters tell of the same calls unless a Reset was torn
  (`BalancedUnlessTorn`), the plugins agree with each other (`SinksAgree`), and the gauge of an
  open circuit does not stay wrong (`GaugeRecovers`);
- rolling number: what `Sum` and `Max` would say is what was recorded (`WindowExact`), a scan
  stays within what was recorded before and during it (`ScanBounded`), `Reset` forgets
  (`ResetForgets`);
- rolling timing: no duration is lost but in one race (`KeptUnlessRaced`), the map stays small (`BucketsBounded`),
  the cache is recent (`CacheRecent`), the percentile is the nearest rank (`PercentileIsNearestRank`)
  and the mean right while it fits (`MeanFits`);
- event stream: nobody blocks the publisher (`RoundsEnd`), who leaves is forgotten
  (`Deregistered`), the flag returns to what it was (`FlagOwned`), `Stop` stops (`StopStops`).

## 2. Modules and their correspondence to the code

Each component has a module with its state, one action per atomic step, and its properties; an
`MC` module adds what only TLC needs (symmetry sets, values of constants); a `Proofs` module
holds theorems, those of `TimingStats` being in `RollingTimingProofs`. Definitions named `X_Something` with a comment "Mutation:" are plausible bugs of
definition `X`; no specification uses them.

**`Command`** is `DoC` for a set `Cmd` of calls on one circuit. `pc[c]` is the place of the
calling goroutine: `idle` (before AllowRequest), `ticket` (first select), `launch` and `arm`
(acquire the channel, start the goroutine, acquire the timer), `select` (second select), `count` and
`put` (the two halves of `Return`), `release` (the channel back to its pool), `report`
(reportEvent and the fallback), `unwind` (the deferred ReleaseTimer), `done`. `runner[c]` is the
goroutine of the run function: it returns whenever it likes, then sends. `TimerExpires` and
`CtxEnds` are the environment. An error is the set of sentinels `errors.Is` finds in it, so
`errors.Join` and `%w` are unions and the classification in errorWithFallback is exact also when
a run function returns a hystrix error of an inner command. `Do` and `Go` are calls outside of
`WithContext`. A pooled object is any pooled one or a new one (`sync.Pool` promises no more, and
may drop one, which the choice of a new object covers). The breaker's answer is left open:
`Allowed` and `ShortCircuited` are both possible.

**`Bulkhead`** is what a caller is promised of the pool, in three sets and three actions: admit
below `Max`, turn away only at `Max`, and whoever is inside leaves.

**`Circuit`** is one circuit and its health. Each Load, Store and CompareAndSwap is a step, and
so is the reading, the increment and the reset of each counter. The code computes the percentage in
floating point and rounds it by `int(x + 0.5)`; `ErrorPercent` is exact, but at half a percent it
is both neighbours, since the product may come out just below the half there (29 of 200 are 14
percent in the code, 1 of 8 are 13). `now[p]` bounds when a
goroutine took `time.Now()`: any instant between its last step and this one. A `Viewer` is the
event stream, which calls IsOpen alone. Counters are functions from instants to numbers, i.e. the
rolling counters as `RollingNumber` shows them to behave. Two history variables serve the
properties of section 3: `since` has the errors added since `open` last became false, and
`disturbed` those who have begun to read the counters and during whose reading one has changed.

**`Registry`** is the registries of settings and of circuits, a step being a load, a store or a lock. A
circuit is an index in `heap`, so that identity can be told from equality; `getSettings` calls
itself after ConfigureCommand, as in the code, holding the circuits' mutex on the path through
GetCircuit. It composes the registries with the executor pools: each circuit has its own tickets,
and the call that asked for it takes one (`using` to `running`), returns it and reports
(`reporting`), to the circuit it got, although the name may have been flushed, created again or
configured in the meantime. Whether the breaker lets it through is left open. A size below zero
makes `make(chan)` panic with the mutex held (`MakeChanPanics`); a caller that recovers goes on.

**`Collectors`** is what `reportEvent` does with the result of a call. `BuildResult` gives the
fields that are 1, `Update` and `Reset` the sequence of writes over all registered collectors,
and `todo[p]` those that goroutine `p` has yet to do. `EachOf` lists the writes to the default
collector in the order of the code, and both sequences are folds, so they can be proved about. Writes to the default collector are single
steps; plugin counters are read by nobody, so those between two gauges are one step (`Join`). The
clients are external: a plugin counter is what was handed to the client under a key, and
`GaugeFails` is the error of a client, which the code logs (statsd) or ignores (Datadog). A name
is a sequence of characters because statsd and Graphite replace some of them (`Sanitize`). The
circuit opens whenever errors are counted; when exactly is the subject of `Circuit`. A call may end
in any event, so also in a short circuit while its own circuit is closed, as it does when an inner
command was refused (`hystrix.go:175`). `Flush` resets the default collectors and forgets the
circuits; a call that is under way keeps its old circuit, of which only what it sends to the plugins
still shows (`ToPlugins`, `ReportForgotten`), since those file it under the name. The named
assumptions say that circuits are finitely many, that the default collector is registered first
(`metrics.go:36-39` panics otherwise) and no kind twice, since counters are named by the kind, and
that the events are those of `metrics.go:88-114`. `torn`,
`alone` and `doubtful` are history variables: they name the overlap, the lost send, the inner
command or the Flush that excuses a wrong value, and when the excuse ends.

**`RollingNumber`** is the ring with bucket pointers into a heap. `kind` chooses, initially, between a number
that is incremented and summed and one that keeps a maximum. A writer may be late (its `now` up
to `MaxLag` seconds old) because the time is taken by the caller.

**`RollingTiming`** is the map of buckets, one step per critical section, with each duration
being the number of its Add so that losses and duplicates show. **`TimingStats`** has the arithmetic
on the sorted array as operators and compares it with reference definitions over all arrays.

**`EventStream`** is the publisher and a handler per client. A client connects, reads or does
not, and disconnects; `Offer` is the non-blocking send; `Unlocked` says that no RLock section is
in progress. What an event says is left out; `PublishFails` is the path on which it cannot be encoded
and nobody gets it, and `StopPanics` a second Stop, which panics in its caller and changes nothing.

## 3. Runs

Passing runs (for each property of each there is a mutant of a mapped definition that breaks it):

| Run | Instance | Properties | Shows |
|---|---|---|---|
| `command` | 2 calls, 1 ticket, 2 channels and timers, one call with context and fallback, nested errors; fair | TypeOK, TicketConservation, OwnResult, SendNeverBlocks, OverrunOnlyAbandoned, TimerExclusive, OutcomeSound, ImplementsBulkhead, CallReturns | reuse and early return never disturb another call, results and reports agree, all calls return, the pool implements Bulkhead |
| `circuit_race` | 2 callers and the event stream, 5 calls, thresholds of 2 requests and 50 percent | TypeOK, AnswerWasTrue, ErrorsForgotten, TestsSpaced, EarlyOnlyBeforeStore, OpensOnMeasure, OpensOnNewErrors | what holds under every interleaving, and what opens a circuit when no counter changes under who looks at them |
| `registry_race` | 3 goroutines, 2 names, 3 operations; fair | OneCircuitPerName, FlushPurges, ExplicitKept, TicketsKept, SizeStaleUntilFlush, CircuitsKept, OperationsEnd | copy-on-write loses nothing; tickets go back where they came from across Flush; no deadlock of the mutexes, also after a panic, no endless recursion of getSettings |
| `number_race` | 3 goroutines, 2 buckets, 4 operations, one of them Reset | WindowExact, ResetForgets, ScanBounded | no increment, maximum or reset is lost |
| `timing_race` | 2 adders, a viewer, a resetter, 2 ticks a second | KeptUnlessRaced, CacheRecent, ResetForgets, BucketsBounded | what is lost, and when |
| `stats_rank` | all sorted arrays of up to 7 of 7 durations | PercentileIsNearestRank, MeanFits | what the arithmetic computes, and within which range |
| `stream_live` | 2 clients, a buffer of one event; fair | TypeOK, FlagOwned, Deregistered, RoundsEnd, StopStops | nobody blocks anybody |
| `collectors` | 2 goroutines, 3 calls, 5 collectors, 2 names with one prefix, one of them open at first, nested short circuits, one lost gauge or one Flush | BalancedUnlessTorn, SinksAgree, GaugeRecovers | when counters and gauges may be wrong, and for how long |

Runs that TLC must refute, each the difference between a sentence in the repository and the
code (`findings` in `PROJECT.json` quotes the sentence):

| Run | Property | The code |
|---|---|---|
| `circuit_sleep` | NoEarlyTest | makes `open` true before it stores the time, and a goroutine in between is granted a test at once (`circuit.go:117-119`) |
| `registry_explicit` | ConfiguredHolds | lets a first use that races with Configure overwrite it with the defaults (`settings.go:84`) |
| `stream_timing` | TimingWhileServed | switches timings off when the first client leaves, although a second is served (`eventstream.go:54`) |
| `stats_interpolation` | PercentileInterpolates | returns one of the durations, the nearest rank, where the comment promises a linear interpolation (`rolling_timing.go:114`); no usual convention for the place in the array gives what it returns |

For the first two a passing run has the exact condition under which the promise is kept:
EarlyOnlyBeforeStore and ExplicitKept name the race, and nothing else breaks it. For the last,
PercentileIsNearestRank says what the function computes instead.

**Other differences between code and text**, met while modelling and visible in the definitions,
without a run of their own:

- After a timeout or an ended context the ticket is back while the run function still executes
  (`hystrix.go:154-158`), so MaxConcurrentRequests bounds calls (`ImplementsBulkhead`), not run
  functions, as `settings.go:14` can be read. `OverrunOnlyAbandoned` says which ones it does bound.
  The same holds across a Flush: the old circuit and the new one have a full pool each (`TicketsKept`).
- Two Adds that find no bucket for a second both make one, and the duration in the first is lost
  (`rolling_timing.go:81-85`): the condition `Raced` in `KeptUnlessRaced`.
- A run function that returns the ErrCircuitOpen of an inner command makes the outer one a
  "short-circuit", since errorWithFallback looks into the error (`hystrix.go:175`); the gauge of
  the outer circuit is set to 1 although it is closed.
- Requests and errors are read one after the other, so a circuit can open on a share that never was
  (`metrics.go:66-67`), and a check that overlaps setClose can open it again on the old errors
  (`circuit.go:124-126`): `OpensOnMeasure` and `OpensOnNewErrors` without their conditions `disturbed`
  and `Resetting` are violated.
- Update and Reset of the default collector mix, although `default_metric_collector.go:21` speaks
  of a locked context: `BalancedUnlessTorn` without its condition `torn` is violated.
- A short circuit that reports after the success that closed the circuit leaves the `circuitOpen`
  gauge at 1 until the next success (`plugins/statsd/collector.go:158`,
  `plugins/datadog/collector.go:130`), and so does Flush, which replaces an open circuit by a closed one
  without a word to the gauge (`circuit.go:53-63`): `GaugeRecovers` without `doubtful` is violated.
- statsd and Graphite replace `/`, `:` and `.` by `-` (`plugins/statsd/collector.go:102-104`); the
  comment above says `/` becomes `.`. So `a/b` and `a.b` are one circuit to them.
- Datadog and Graphite do not count calls whose context ended (`Context` in `Collectors`), so there
  attempts exceed successes and errors together.
- A circuit opens when the share of errors equals the threshold, and when it is up to half a percent
  less, which is rounded up (`metrics.go:73-77`); `settings.go:20` says "exceeds". `OpensOnMeasure` has
  the bounds of the code, in terms of the counters.
- Configure does not change the pool of a circuit that exists (`pool.go:18`); `settings.go:34`
  says "tune circuit settings at runtime".
- Sum covers the current second and ten before it, eleven buckets (`rolling.go:79`), as the
  bounds in `ScanBounded` say; `rolling.go:73` says ten seconds.
- Mean converts to uint32
  before it divides by a million, so it wraps from 2^32 ns, about 4.3 s, on (`rolling_timing.go:147`):
  the precondition of `MeanFits`.
- A negative RequestVolumeThreshold (`settings.go:67`) is converted to a huge unsigned one and keeps the
  circuit closed for good; `CircuitAssumption` excludes it.
- A second Stop closes a closed channel and panics (`eventstream.go:38-40`).

## 4. Bounds, and why they are enough

- *Calls and goroutines.* Two calls on one ticket give a holder and one turned away, or one that
  inherits the channel or timer of the other, whose run function may still be executing; the
  mutants that break pooling are all caught with two, and section 6 proves the safety properties for
  any number. Two callers and the event stream give all races of two writers and a reader on a
  circuit; with five calls it opens, is tested, closes, and is looked at once more. One error of two
  requests is exactly the threshold; a share just below it that is rounded up takes over a hundred
  requests and is left to the proof. Three operations on the registries are one fewer than a
  GetCircuit, a Configure, a Flush and a GetCircuit that sees the new size, which is left to the proof
  of `SizesStaleUntilFlush`. Three goroutines on the registries and the ring allow two that race and a third that
  sees the state in between.
- *Collectors.* Three calls are a short circuit and a success that overlap, and one that puts the
  gauge right, or a Reset, an Update that overlaps it and a second Reset. For that one circuit is
  open at first (`Opened`), by calls whose counters have left the window. `MaxUpsets` allows one lost
  gauge or one Flush, each between any two steps. `Primary` and
  `Secondary` leave out the events that set no gauge and those of fallbacks, whose counters are
  written like that of a short circuit; they are in the proofs. Reset skips the
  counters that then stay at zero (`Used`).
- *Settings* are a pool of 2 by default, of 1, or of -1: full, exhausted, and impossible.
- *Channels and timers* are as many as there are calls, the most that can be in use.
- *Windows.* `Window` is 1 or 2 where the code has 10 and 60. Only the relation between the age of
  an entry and the window matters: entries inside, on its edge and beyond all occur, and the ring of
  `Window + 1` buckets is gone round (`MaxClock - Start > Window`).
- *`MaxLag <= Window`* (an assumption of `RollingNumber`): a writer whose time is older than the
  ring would put an old bucket in the place of a current one. `reportEvent` takes the time
  microseconds before it is used, so a lag of ten seconds is a goroutine that is not scheduled for ten
  seconds. The module says so in `LagAssumption`.
- *`MaxCalls`, `MaxOps`, `MaxAdds`, `MaxViews`, `MaxResets`, `MaxClock`* bound the length of a
  behaviour. They are in the guards, and a `Terminated` step lets a run end without a deadlock. In
  `EventStream` nothing is bounded but the buffer: the publisher goes round for ever.
- *Symmetry* permutes interchangeable goroutines, only in runs without liveness properties.
- *`Word`* is 16 and *`Milli`* 3 where a uint32 has 2^32 values and a millisecond 10^6 ns: the
  order `Milli < Word` is what makes the two conversions differ.

## 5. Fairness, and what justifies it

- `Command`: weak fairness of each calling goroutine, of the send of a run function that
  returned, and of timers that run. The Go scheduler runs every goroutine that can run, and the
  runtime fires timers. There is *no* fairness for the run function returning, for contexts or for
  callers, so `CallReturns` is what the timeout gives. A fallback is assumed to return: the code
  puts no bound on it.
- `Registry`: weak fairness of each goroutine in an operation, the return of its ticket included,
  which the timeout brings about (`CallReturns` of `Command`). This is enough although a mutex
  can be contended: operations are bounded, so nobody can be overtaken for ever.
- `EventStream`: weak fairness of the publisher's round and of a write to a client that is gone;
  strong fairness of leaving on an ended context and of the loop returning, because a `select`
  chooses among ready cases at random; and of unregister, because a waiting `Lock` of a Go
  RWMutex keeps new readers out. Nothing makes a connected client read.

## 6. Proofs

Each holds for every value of the constants that satisfies the named assumptions of the module; the
bounds on the length of a behaviour are constants like the others and may be of any size. The
inductive invariants were checked with TLC on the runs' instances before they were proved.

**`CommandProofs`** (assumptions: `Max` is a natural number; errors are sets of causes; `None` is
neither a channel nor a timer. `Cmd`, `Chan` and `Timer` may be of any size, infinite too).

- `TypesKept`. `TypeOK` is not inductive: that the channel of a sender exists, or the timer of
  a waiting call, depends on where the call is. `ControlInv` says which locals each place of DoC
  has set. The type is split into six parts with a lemma each.
- `TicketsConserved`, that tickets and holders add up to `Max`, on top of it. The number of
  holders changes only in TakeTicket and ReturnPut, by one element.
- `ChannelsIsolated`, `ResultsOwned`: from `ChanInv`, which says who owns a channel. A channel
  has at most one owner, from the acquisition until both the receive and the release; a value in the
  buffer came from its owner and is what that one's run function returned; an abandoned channel
  never comes back to the pool.
- `TimersExclusive`: from `TimerInv`, the same for timers, where ownership ends with the
  deferred release.
- `OverrunsAbandoned`: by `ChanInv` a run function whose call has not left by the timeout or
  the context belongs to a call that still holds its ticket, so they are at most `Max`.
- `OutcomesSound`: from `OutcomeInv`, which relates, at each place, the case of the select that
  was taken to the error the call is dealing with, and this to the event it reported.
- `RefinesBulkhead`: initial states map to initial states, TakeTicket to Admit, Reject to
  TurnAway, ReturnPut to Leave, everything else to a stutter. The conjunct `tickets = 0` of Reject
  is `Cardinality(active) = Max` because of `TicketConservation`. The fairness of Bulkhead is
  checked by TLC (run `command`).

**`CircuitProofs`** (assumption `CircuitAssumption`; any number of goroutines, any thresholds).

- `TestsAreSpaced`: from `TimeInv` (no time lies in the future, and what a goroutine loaded is not
  newer than what is stored, unless someone stored since) and `GrantInv` (a test granted since the
  last Store is the current stamp). The CompareAndSwap succeeds only on the stamp it compared
  with the clock.
- `EarlyTestsOnlyBeforeStore`: from `OpenedInv`, which says that the stamp is not older than the
  opening once everybody who opened has stored a time. Two openings can overlap, and the
  earlier may store last; the history variable `openedAt` then stands for the earlier one.
- `AnswersWereTrue` and `SuccessesClose`: from `SeenInv`, which keeps in `seen` the values `open` had
  since the operation began and relates them to the place of the goroutine.
- `ErrorsAreForgotten`: inductive together with the types and the fact that who is about to count an
  error reports a call that failed (`ErrorsInv`). An error counted late is counted in `since` too, and
  the reset zeroes the one and not the other.
- `CircuitTypes`: that no counter exceeds `calls` is not inductive. `CountInv` adds the goroutines
  on their way: what a second has counted and the calls that have not counted yet are together at
  most the calls begun.
- `OpensByMeasure`: `MeasureInv` says that what a goroutine has found so far is still what the
  counters show, unless it is `disturbed`. Every step that changes a counter puts into `disturbed`
  everybody who is reading (`StepApart`), so only a goroutine's own steps matter (`OwnMeasured`).
  `Rounded` turns the comparison of the rounded percentage with the threshold, both ways a half may
  go, into one of the counters. The hypothesis is a positive volume threshold: with 0, which
  `settings.go:67` replaces by the default, a circuit without requests is looked at, and its percentage is
  0 whatever errors it counts.
- `OpensByNewErrors`: from `OpensByMeasure`'s invariant and `ErrorsInv`, because a sum grows with its terms
  (`SumMonotone`).

**`RegistryProofs`** (assumptions of `Registry`; any goroutines, names, settings and arguments of
Configure, any number of operations).

- The base is `LockInv`: a goroutine is in a critical section exactly when it holds the mutex, the
  settings read under `newCircuitBreaker` included, which holds both. From it `CloneInv` and
  `CopyInv`: between the clone of a map and its store nobody else has stored one.
- `ExplicitSettingsKept`: from `DefaultsInv`, that defaults on their way are for names that nobody
  has configured or that were overtaken.
- `OneCircuit`, `PublishedKept`: from `HeapInv`, that a circuit made since the last Flush is
  published, or is about to be by the one goroutine that holds the mutex.
- `FlushForgets`: `EventsInv`; what old calls report goes to circuits of an older generation.
- `TicketsStayWithCircuit`: `TicketsInv`, tickets and running calls of each circuit ever made add up
  to its size. `SizesStaleUntilFlush`: `SizeInv`, what newExecutorPool read is what the settings
  say until they are stored again.

**`RollingNumberProofs`** (assumptions of `RollingNumber`, `MaxLag <= Window` among them; any
goroutines, window and amounts).

- `NothingLost`: from `WriterInv` (a writer's bucket is of its second), `PastInv` (nothing is of
  the future) and `HeldInv` (before a Reset the bucket a writer records on is the one in the
  ring). The last is where the lag matters: two seconds that share a slot are a whole ring apart.
- `ResetLeavesNothing`: `ForgottenInv` says of each slot that all Resets have passed it, or it holds
  only what was recorded since the last one began.
- `SumsBounded`: `UpperInv` and `LowerInv` bound what the loop has so far by the folds over the
  seconds whose slots it has passed. The upper set only grows with the clock and the lower one only
  shrinks; that one slot adds one second is where `ValueInv` and `WindowExact` come in.

**`RollingTimingProofs`** (assumptions of `RollingTiming`).

- `ResetLeavesNothing`: from `AddsInv` and `BucketsInv`, which say what an Add under way knows and
  who made a bucket.
- `DurationsKept`: `KeptInv` says what becomes of an Add once it is past getCurrentBucket: its second
  has expired, or was raced for, or it has the bucket that is in the map.
- `CacheServesRecent`: `CacheInv`, the cache has what had been added before it was made.
- `MapBounded`: `GrowthInv`, the keys are those of one window and of Adds that have yet to remove.

The same module proves about `TimingStats`, for arrays of any length. `SortedInv` is inductive;
the rest is arithmetic.

- `PercentileNearestRank`: the ordinal is the least rank that reaches the percentage
  (`OrdinalLeast`), and in a sorted array that many durations are not longer (`RankIsNearest`).
- `MeansFit`: the sum lies between length times the shortest and length times the longest, and
  rounding down twice is rounding down once (`DividedTwice`).
- These two have the hypothesis `Short`: no duration is 2^32 ms, 49 days, or longer. A longer one wraps in
  `uint32(...)` (`rolling_timing.go:123`).

**`CollectorsProofs`** (assumptions of `Collectors`; any names, registered collectors, events and
goroutines, any number of calls, of lost sends and of Flushes; who is in a call at one time is shown
to be finitely many).

- `UpdateDoes`: a sequence of writes is looked at as the set of its items, an item being one
  metric of one collector or one value of a gauge. `Does` says which items a sequence has, each
  once. The proof goes through the two folds, over the collectors and over the writes that `Join`
  merges, by induction on subsets of their indices. `CallsKept` carries this along a call: what is
  left in `todo[p]` has each item once, the zeros of a Reset first, and no gauge but that of the event.
- `StepKinds` then says of every step which items it takes or brings, so that the invariants need
  no sequences. Of a Flush it says that what is left is what goes to plugins (`Forgets`), and of a
  report to a forgotten circuit that it begins with that (`Relays`).
- `GaugesRecover`: from `AloneInv` and `GaugeInv`. Who is `alone` with a gauge and succeeds has set
  it to 0 or has yet to, who is alone with it and short-circuited has an open circuit, and a gauge that says open has an open circuit behind it, a success on its
  way, or a doubt.
- `CountersBalanced`: from `BalanceInv`, that the counters together with the additions still to be
  done (none of the counter itself, if it is still to be zeroed) are even. It needs
  `ExclusiveInv`: while a circuit is not torn, who resets it is alone with its default collector.
- `SinksAgreeing`: from `SinksInv`, which says the same of what the plugins have and will be sent
  (`Handed`), and adds these up over the circuits of a prefix. What the default collector has and is
  due, with all timings and without its Reset (`DefaultLimit`), is no more than what Prometheus will
  have. The hypothesis is that all five collectors are registered, without which the property
  does not speak of anything.

**`FoldProofs`** has what these modules need of folds over sets (`MapThenSumSet`, `MapThenFoldSet`,
`FoldLeft`): that a fold exists, is unique, does not depend on the order, and is monotone. An
induction principle with a predicate as its parameter is out of the provers' reach. So the
predicate is a set here (`Good`) and induction is that a set of subsets of a finite set, if not
empty, has a smallest one (`SubsetInduction`, from the well-foundedness theorems of the library);
the operation to fold with is a function. Every statement is then first order.

**`EventStreamProofs`** (assumption: the buffer holds at least one event; any clients and circuits).

- `StreamTypes`, `FlagRestored`: `TypeOK` needs that the publisher has nobody left to serve outside
  of its RLock section (`LoopInv`), else an Unregister could leave it offering to a client that is
  gone. `FlagOwned` is then kept because the CompareAndSwap is won only when nobody owns the flag.

**Only model-checked:** all liveness, i.e. `CallReturns`, `OperationsEnd`, `Deregistered`,
`RoundsEnd`, `StopStops` and the fairness of Bulkhead in `ImplementsBulkhead`: fairness and ENABLED
are out of the prover's reach. Every invariant and every safety part of an action property of the
passing runs is proved.

## 7. Plan

Done: the modules above, in the order `Command`, `Circuit`, `Registry`, `RollingNumber`,
`RollingTiming`, `EventStream`, `Collectors`; the composition of registries and pools in
`Registry`; and the proofs of section 6. What could be added is a composition of
`Circuit` and `Collectors`, in which a circuit opens by the measure instead of whenever it has
errors. Its states are those of both, multiplied, and the properties of neither depend on the
other: `Collectors` allows more openings than there are.

## 8. Not modelled

- *Load test* (`src/loadtest`): a driver that calls `Go` from HTTP handlers and varies a delay.
  *Logger*: prints. *Deprecated aliases* (files directly in `src/plugins`): re-exports.
- *Construction of clients* (`InitializeCollector`, Datadog's `NewCollector`, the metric vectors and
  options of Prometheus): calls to third-party code with constants. *ConcurrencyInUse*: a sample of
  `ActiveCount` divided by the size, which no code reads back.
- *A counter that a client could not send*: it changes nothing but a log line.
- *The collector registry* (`metric_collector.go:17-42`): a list that is appended to and read as a
  whole under one lock. `Registered` in `Collectors` is what a circuit got of it when it was made; a
  collector registered later does not reach that circuit until a Flush.
- *Recovery as liveness* (an open circuit whose calls would succeed closes again): the clock and the
  calls of `Circuit` are bounded, and without the bounds its counters are not finite.
- *Contents of events and HTTP*: JSON and headers of `eventstream.go:62-190`; only when an
  event is offered and to whom is modelled.
- *synctest variants* of the pools: test builds that allocate every time, a special case.
- *Panics* in run or fallback functions: the code does not recover, the process ends.
- *Changes of the exported defaults* (`DefaultTimeout` and so on) at run time: unsynchronised
  plain variables, meant to be set before use.
- *Clock steps*: `now` comes from `time.Now()`, assumed not to go back, in `Circuit`,
  `RollingNumber` and `RollingTiming`.
