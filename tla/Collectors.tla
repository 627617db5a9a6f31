----------------------------- MODULE Collectors -----------------------------
(***************************************************************************)
(* Where the result of a call goes: reportEvent of hystrix/circuit.go with *)
(* setClose and Flush, metricExchange.Update and Reset of                  *)
(* hystrix/metrics.go, the default collector, and the statsd, Datadog,     *)
(* Graphite and Prometheus collectors of plugins/.                         *)
(*                                                                         *)
(* An Update is a sequence of writes, and so is the Reset of the default   *)
(* collector; those of the plugins do nothing.  No lock is held: todo[p]   *)
(* is what goroutine p has yet to write, and each write to the default     *)
(* collector, which Reset and the health check race with, is a step.  The  *)
(* counters of a plugin are added to and never read here, so those between *)
(* two writes of its gauge are one step.                                   *)
(*                                                                         *)
(* The clients of the plugins are external.  A counter there is the number *)
(* of increments handed to the client under a key; whether it could send   *)
(* them changes nothing but a log.  The gauge is what the client sent: an  *)
(* error of the client is ignored, and leaves it at its last value.  The   *)
(* counters of the default collector are those of one window.  When a      *)
(* circuit is opened and who is granted a test is the subject of module    *)
(* Circuit; here it may open once it counts errors.                        *)
(***************************************************************************)
EXTENDS Integers, Sequences, SequencesExt, FiniteSetsExt, TLC

CONSTANTS
    Proc,       \* goroutines that execute commands
    Name,       \* names of circuits, as sequences of characters
    Opened,     \* the circuits that are open at first
    Registered, \* metricCollector.Registry.registry, by the kind of collector
    Primary,    \* the primary events that occur
    Secondary,  \* the secondary events of a call that does not succeed, "" without a fallback
    MaxCalls,   \* bound: calls started
    MaxUpsets   \* bound: sends of a gauge that fail and calls of Flush, together

Kind == {"default", "statsd", "datadog", "graphite", "prometheus"}
PrimaryEvents == {"success", "failure", "rejected", "short-circuit", "timeout", "context_canceled",
                  "context_deadline_exceeded"}

ASSUME NameAssumption == Name # {} /\ IsFiniteSet(Name) /\ Opened \subseteq Name
ASSUME RegisteredAssumption ==      \* one collector of each kind, as the kinds name the counters
    /\ Registered \in Seq(Kind) /\ Len(Registered) > 0 /\ Head(Registered) = "default"
    /\ IsInjective(Registered)
ASSUME EventsAssumption ==
    Primary \subseteq PrimaryEvents /\ Secondary \subseteq {"", "fallback-success", "fallback-failure"}

VARIABLES
    open,       \* circuit.open of each circuit
    count,      \* the counters and samples: collector -> key -> metric -> number
    gauge,      \* circuitOpen as it was last sent: collector -> key -> 0 or 1, -1 at first
    pc, name, primary, secondary,   \* each goroutine's place, circuit and events
    todo,       \* the writes each goroutine has yet to do, in order
    calls,      \* calls started
    upsets,     \* sends of a gauge that failed and calls of Flush
    torn,       \* history: an Update overlapped the last Reset of a circuit
    alone,      \* history: the gauges that p does not mislead and nobody else has used since
                \* its call began
    doubtful    \* history: of each gauge, that something may have misled it, and no success or
                \* short circuit has had it to itself since

counters == <<count, gauge>>
call == <<pc, name, primary, secondary>>
history == <<torn, alone, doubtful>>
vars == <<open, counters, call, todo, calls, upsets, history>>

----------------------------------------------------------------------------
\* The three ReplaceAlls of the constructors of the statsd and the Graphite collector.
Sanitize(n) == [i \in DOMAIN n |-> IF n[i] \in {"/", ":", "."} THEN "-" ELSE n[i]]

NewStatsdCollector(n) == Sanitize(n)
NewGraphiteCollector(n) == Sanitize(n)

\* What a collector of circuit n files its metrics under: a prefix, or its name as a tag
\* or a label.
Key(c, n) ==
    CASE c = "statsd" -> NewStatsdCollector(n)
      [] c = "graphite" -> NewGraphiteCollector(n)
      [] OTHER -> n

\* The collectors with a gauge circuitOpen, whose sends can fail.
HasGauge == {"statsd", "datadog"}

\* The counters of MetricResult that every collector has, those of ended contexts,
\* and the two durations.
Basic == {"attempts", "errors", "successes", "failures", "rejects", "shortCircuits", "timeouts",
          "fallbackSuccesses", "fallbackFailures"}
Context == {"contextCanceled", "contextDeadlineExceeded"}
Durations == {"totalDuration", "runDuration"}
Metric == Basic \cup Context \cup Durations

\* A collector that has counted nothing.
NewCollector == [m \in Metric |-> 0]

\* The counter an event adds to.
CounterOf(event) ==
    CASE event = "success" -> "successes"
      [] event = "failure" -> "failures"
      [] event = "rejected" -> "rejects"
      [] event = "short-circuit" -> "shortCircuits"
      [] event = "timeout" -> "timeouts"
      [] event = "context_canceled" -> "contextCanceled"
      [] event = "context_deadline_exceeded" -> "contextDeadlineExceeded"
      [] event = "fallback-success" -> "fallbackSuccesses"
      [] event = "fallback-failure" -> "fallbackFailures"

\* buildResult: the fields that are 1.
BuildResult(p, s) ==
    {"attempts", CounterOf(p)}
    \cup (IF p \in {"failure", "rejected", "short-circuit", "timeout"} THEN {"errors"} ELSE {})
    \cup (IF s = "" THEN {} ELSE {CounterOf(s)})

\* The metrics that some call adds to.
Used ==
    Durations
    \cup {m \in Metric : \E p \in Primary, s \in Secondary \cup {""} : m \in BuildResult(p, s)}

\* A write: one metric of the default collector is increased by one or set to zero; some
\* metrics of plugins, as pairs <<collector, metric>>, are increased; a gauge is set.
Write(do, metric) == [do |-> do, metric |-> metric]
Send(c, metrics) == [do |-> "send", metrics |-> {c} \X metrics]
Gauge(c, value) == [do |-> "gauge", to |-> c, value |-> value]

\* One write for each of those in S of a sequence of metrics of the default collector.
EachOf(do, metrics, S) ==
    FoldLeft(LAMBDA writes, m : IF m \in S THEN Append(writes, Write(do, m)) ELSE writes,
             <<>>, metrics)

\* The timings come last, if the flag, which is loaded then, says so.
DefaultUpdate(result) ==
    EachOf("add",
        <<"attempts", "errors", "successes", "failures", "rejects", "shortCircuits", "timeouts",
          "fallbackSuccesses", "fallbackFailures", "contextCanceled", "contextDeadlineExceeded">>,
        result)
    \o <<Write("loadTiming", "totalDuration")>>

\* Mutation: the calls that never ran are not reset.
DefaultReset_NotAll ==
    EachOf("zero",
        <<"attempts", "errors", "successes", "failures", "timeouts", "fallbackSuccesses",
          "fallbackFailures", "contextCanceled", "contextDeadlineExceeded", "totalDuration",
          "runDuration">>,
        Used)

\* (The counters that no event adds to stay at zero.)
DefaultReset ==
    EachOf("zero",
        <<"attempts", "errors", "successes", "rejects", "shortCircuits", "failures", "timeouts",
          "fallbackSuccesses", "fallbackFailures", "contextCanceled", "contextDeadlineExceeded",
          "totalDuration", "runDuration">>,
        Used)

\* Mutation: only a short circuit sets the gauge.
StatsdUpdate_NeverClosed(result) ==
    (IF "shortCircuits" \in result THEN <<Gauge("statsd", 1)>> ELSE <<>>)
    \o <<Send("statsd", result \cup Durations)>>

\* The gauge comes first.  (The sample of the concurrency is left out.)
StatsdUpdate(result) ==
    (IF "successes" \in result THEN <<Gauge("statsd", 0)>>
     ELSE IF "shortCircuits" \in result THEN <<Gauge("statsd", 1)>> ELSE <<>>)
    \o <<Send("statsd", result \cup Durations)>>

\* The gauge goes with the counter of successes or of short circuits, which come after
\* that of errors.
DatadogUpdate(result) ==
    LET first == result \cap {"attempts", "errors"}
    IN  <<Send("datadog", first)>>
        \o (IF "successes" \in result THEN <<Gauge("datadog", 0)>>
            ELSE IF "shortCircuits" \in result THEN <<Gauge("datadog", 1)>> ELSE <<>>)
        \o <<Send("datadog", ((result \cap Basic) \ first) \cup Durations)>>

\* Mutation: the durations are those of successes only.
GraphiteUpdate_SuccessOnly(result) ==
    <<Send("graphite",
          (result \cap Basic) \cup (IF "successes" \in result THEN Durations ELSE {}))>>

GraphiteUpdate(result) == <<Send("graphite", (result \cap Basic) \cup Durations)>>

\* (The gauge of the concurrency is left out.)
PrometheusUpdate(result) == <<Send("prometheus", result \cup Durations)>>

\* Sends with no gauge between them are one step.
Join(writes, w) ==
    IF writes # <<>> /\ w.do = "send" /\ Last(writes).do = "send"
    THEN Append(Front(writes), [w EXCEPT !.metrics = @ \cup Last(writes).metrics])
    ELSE Append(writes, w)
JoinAll(writes, more) == FoldLeft(Join, writes, more)

\* metricExchange.Reset: every collector; only the default collector has something to do.
Reset == DefaultReset

\* metricExchange.Update: every collector in the order of registration.
UpdateOf(c, result) ==
    CASE c = "default" -> DefaultUpdate(result)
      [] c = "statsd" -> StatsdUpdate(result)
      [] c = "datadog" -> DatadogUpdate(result)
      [] c = "graphite" -> GraphiteUpdate(result)
      [] c = "prometheus" -> PrometheusUpdate(result)
Update(result) ==
    FoldLeft(LAMBDA writes, c : JoinAll(writes, UpdateOf(c, result)), <<>>, Registered)

----------------------------------------------------------------------------
\* New circuits, with collectors that have counted nothing, and circuits that have been
\* opened by calls that no window of the default collector holds any more: the plugins'
\* counters and gauges are those sent since.
Init ==
    /\ open = [n \in Name |-> n \in Opened]
    /\ count = [c \in Range(Registered) |-> [k \in {Key(c, n) : n \in Name} |-> NewCollector]]
    /\ gauge = [c \in HasGauge |-> [k \in {Key(c, n) : n \in Name} |-> -1]]
    /\ pc = [p \in Proc |-> "idle"]
    /\ name = [p \in Proc |-> CHOOSE n \in Name : TRUE]
    /\ primary = [p \in Proc |-> "success"]
    /\ secondary = [p \in Proc |-> ""]
    /\ todo = [p \in Proc |-> <<>>]
    /\ calls = 0
    /\ upsets = 0
    /\ torn = [n \in Name |-> FALSE]
    /\ alone = [p \in Proc |-> {}]
    /\ doubtful = [c \in HasGauge |-> [k \in DOMAIN gauge[c] |-> FALSE]]

Goto(p, from, to) == pc[p] = from /\ pc' = [pc EXCEPT ![p] = to]

\* q is in a call of circuit n, or of one that collector c files under the same key.
Uses(q, c, n) == pc[q] # "idle" /\ Key(c, name[q]) = Key(c, n)
Shared(p, c, n) == \E q \in Proc \ {p} : Uses(q, c, n)

\* What the gauge is told by a call of n that ends in e may be wrong: another call may tell it
\* something else, or it was not n that refused: errors.Is finds the ErrCircuitOpen of an inner
\* command in the error of the run function, too.
Misleading(p, c, n, e) == Shared(p, c, n) \/ (e = "short-circuit" /\ ~open[n])

\* DoC asks the breaker and ends in some event.
Execute(p) ==
    \E n \in Name, e \in Primary : \E s \in IF e = "success" THEN {""} ELSE Secondary :
        /\ calls < MaxCalls
        /\ calls' = calls + 1
        /\ Goto(p, "idle", "report")
        /\ name' = [name EXCEPT ![p] = n]
        /\ primary' = [primary EXCEPT ![p] = e]
        /\ secondary' = [secondary EXCEPT ![p] = s]
        /\ alone' = [q \in Proc |-> IF q = p THEN {c \in HasGauge : ~Misleading(p, c, n, e)}
                                    ELSE {c \in alone[q] : ~Uses(q, c, n)}]
        /\ doubtful' = [c \in HasGauge |->
              [doubtful[c] EXCEPT ![Key(c, n)] = @ \/ Misleading(p, c, n, e)]]
        /\ UNCHANGED <<open, counters, todo, upsets, torn>>

\* The health check of some call, or of the event stream, opens the circuit.
SetOpen(n) ==
    /\ ~open[n]
    /\ count["default"][n]["errors"] > 0
    /\ open' = [open EXCEPT ![n] = TRUE]
    /\ UNCHANGED <<counters, call, todo, calls, upsets, history>>

\* The goroutines other than p that are in a Reset, or in an Update, of the default
\* collector of circuit n.
Within(p, n, do) ==
    {q \in Proc \ {p} : name[q] = n /\ \E w \in Range(todo[q]) : w.do \in do}
Resetting(p, n) == Within(p, n, {"zero"})
Updating(p, n) == Within(p, n, {"add", "loadTiming"})

ResultOf(p) == BuildResult(primary[p], secondary[p])

\* reportEvent: a success finds the circuit open, or the metrics are updated at once.
ReportEvent(p) ==
    LET n == name[p]
        closes == primary[p] = "success" /\ open[n]
    IN  /\ Goto(p, "report", IF closes THEN "close" ELSE "write")
        /\ todo' = [todo EXCEPT ![p] = IF closes THEN <<>> ELSE Update(ResultOf(p))]
        /\ torn' = [torn EXCEPT ![n] = @ \/ (~closes /\ Resetting(p, n) # {})]
        /\ UNCHANGED <<open, counters, name, primary, secondary, calls, upsets,
                       alone, doubtful>>

\* setClose: who wins the CompareAndSwap resets the metrics, then they are updated.
SetClose(p) ==
    LET n == name[p]
    IN  /\ Goto(p, "close", "write")
        /\ open' = [open EXCEPT ![n] = FALSE]
        /\ todo' = [todo EXCEPT ![p] =
              (IF open[n] THEN Reset ELSE <<>>) \o Update(ResultOf(p))]
        /\ torn' = [torn EXCEPT ![n] = IF open[n] THEN Updating(p, n) # {}
                                       ELSE @ \/ Resetting(p, n) # {}]
        /\ UNCHANGED <<counters, name, primary, secondary, calls, upsets, alone,
                       doubtful>>

\* The next write of p, which is of this kind, is done.
Done(p, do) ==
    /\ pc[p] = "write"
    /\ todo[p] # <<>>
    /\ Head(todo[p]).do = do
    /\ todo' = [todo EXCEPT ![p] = Tail(@)]

\* The write of a counter or a sample of the default collector, ...
Add(p) ==
    /\ Done(p, "add")
    /\ count' = [count EXCEPT !["default"][name[p]][Head(todo[p]).metric] = @ + 1]
    /\ UNCHANGED <<open, gauge, call, calls, upsets, history>>

\* ... of a zero by Reset, ...
Zero(p) ==
    /\ Done(p, "zero")
    /\ count' = [count EXCEPT !["default"][name[p]][Head(todo[p]).metric] = 0]
    /\ UNCHANGED <<open, gauge, call, calls, upsets, history>>

\* ... of the counters and samples of plugins, ...
Increment(n, metrics) ==
    count' = [c \in DOMAIN count |-> [count[c] EXCEPT ![Key(c, n)] =
                 [m \in Metric |-> IF <<c, m>> \in metrics THEN @[m] + 1 ELSE @[m]]]]

SendMetrics(p) ==
    /\ Done(p, "send")
    /\ Increment(name[p], Head(todo[p]).metrics)
    /\ UNCHANGED <<open, gauge, call, calls, upsets, history>>

\* ... and of a gauge.
SetGauge(p) ==
    /\ Done(p, "gauge")
    /\ LET w == Head(todo[p])
       IN  gauge' = [gauge EXCEPT ![w.to][Key(w.to, name[p])] = w.value]
    /\ UNCHANGED <<open, count, call, calls, upsets, history>>

\* The client returns an error, which is logged or ignored: the rest is done all the same.
GaugeFails(p) ==
    /\ upsets < MaxUpsets
    /\ upsets' = upsets + 1
    /\ Done(p, "gauge")
    /\ LET c == Head(todo[p]).to
       IN  /\ doubtful' = [doubtful EXCEPT ![c][Key(c, name[p])] = TRUE]
           /\ alone' = [alone EXCEPT ![p] = @ \ {c}]
    /\ UNCHANGED <<open, counters, call, calls, torn>>

\* The default collector looks at the flag, which the event stream switches at any
\* time, and adds both durations or none.
LoadTiming(p) ==
    /\ pc[p] = "write"
    /\ todo[p] # <<>>
    /\ Head(todo[p]).do = "loadTiming"
    /\ \E enabled \in BOOLEAN :
         todo' = [todo EXCEPT ![p] =
             (IF enabled THEN <<Write("add", "totalDuration"), Write("add", "runDuration")>> ELSE <<>>)
             \o Tail(@)]
    /\ UNCHANGED <<open, counters, call, calls, upsets, history>>

\* Every collector has been updated and the call returns.
Return(p) ==
    /\ Goto(p, "write", "idle")
    /\ todo[p] = <<>>
    /\ doubtful' = [c \in HasGauge |->
          [doubtful[c] EXCEPT ![Key(c, name[p])] =
              @ /\ ~(c \in alone[p] /\ primary[p] \in {"success", "short-circuit"})]]
    /\ alone' = [alone EXCEPT ![p] = {}]
    /\ UNCHANGED <<open, counters, name, primary, secondary, todo, calls, upsets,
                   torn>>

\* The gauge says of n that it is open, or some call may be about to say so.
InUse(c, n) == open[n] \/ \E p \in Proc : Uses(p, c, n)

\* Flush resets the metrics of every circuit and forgets the circuits; the next call of a name
\* gets a new one.  Calls under way keep the circuit they have, but nobody looks at it any more:
\* what is left to do for them is what the plugins are still sent, which file it under the same
\* keys.  No gauge is set.
ToPlugins(writes) ==
    FoldLeft(LAMBDA left, w : IF w.do \in {"send", "gauge"} THEN Append(left, w) ELSE left,
             <<>>, writes)

Flush ==
    /\ upsets < MaxUpsets
    /\ upsets' = upsets + 1
    /\ open' = [n \in Name |-> FALSE]
    /\ count' = [count EXCEPT !["default"] = [n \in Name |-> NewCollector]]
    /\ pc' = [p \in Proc |-> IF pc[p] \in {"report", "close"} THEN "forgotten" ELSE pc[p]]
    /\ todo' = [p \in Proc |-> ToPlugins(todo[p])]
    /\ torn' = [n \in Name |-> FALSE]
    /\ alone' = [p \in Proc |-> {}]
    /\ doubtful' = [c \in HasGauge |-> [k \in DOMAIN doubtful[c] |->
          doubtful[c][k] \/ \E n \in Name : Key(c, n) = k /\ InUse(c, n)]]
    /\ UNCHANGED <<gauge, name, primary, secondary, calls>>

\* A call of a forgotten circuit reports.
ReportForgotten(p) ==
    /\ Goto(p, "forgotten", "write")
    /\ todo' = [todo EXCEPT ![p] = ToPlugins(Update(ResultOf(p)))]
    /\ UNCHANGED <<open, counters, name, primary, secondary, calls, upsets, history>>

Terminated ==
    /\ calls = MaxCalls /\ \A p \in Proc : pc[p] = "idle"
    /\ UNCHANGED vars

Next ==
    \/ \E p \in Proc : \/ Execute(p) \/ ReportEvent(p) \/ SetClose(p) \/ ReportForgotten(p) \/ Return(p)
                       \/ Add(p) \/ Zero(p) \/ LoadTiming(p)
                       \/ SendMetrics(p) \/ SetGauge(p) \/ GaugeFails(p)
    \/ \E n \in Name : SetOpen(n)
    \/ Flush
    \/ Terminated

Spec == Init /\ [][Next]_vars
----------------------------------------------------------------------------
(* Properties                                                              *)

\* The circuits that statsd and Graphite cannot tell apart.
Prefix == {Sanitize(n) : n \in Name}
Circuits(k) == {n \in Name : Sanitize(n) = k}

AtRest == \A p \in Proc : pc[p] = "idle"

Sum(f, S) == MapThenSumSet(LAMBDA m : f[m], S)

Primaries == {"successes", "errors", "contextCanceled", "contextDeadlineExceeded"}
Errors == {"failures", "rejects", "shortCircuits", "timeouts"}

\* The counters of one collector tell of the same calls.
Balanced(f) ==
    /\ f["attempts"] = Sum(f, Primaries)
    /\ f["errors"] = Sum(f, Errors)
    /\ f["totalDuration"] = f["runDuration"]

\* The counters of the default collector tell of the same calls as soon as nobody is
\* updating them, unless an Update overlapped the last Reset of this circuit
\* (default_metric_collector.go:120-156, "updated by circuits within a locked context" :21):
\* then, and only then, a health check can count an error whose request is forgotten.
\* The next Reset that no Update overlaps puts it right.
BalancedUnlessTorn ==
    AtRest => \A n \in Name : torn[n] \/ Balanced(count["default"][n])

\* What the plugins are given is never reset, and a failing gauge costs no counter: when
\* nobody is writing, what Prometheus has of a circuit is balanced and no less than the
\* default collector has, and the plugins agree about each metric that all of them have,
\* where circuits whose names become the same prefix are counted as one.
SinksAgree ==
    AtRest =>
        /\ \A n \in Name :
             /\ Balanced(count["prometheus"][n])
             /\ \A m \in Metric : count["default"][n][m] <= count["prometheus"][n][m]
        /\ \A k \in Prefix : \A m \in Basic \cup Durations :
             LET total(c) == Sum([n \in Name |-> count[c][n][m]], Circuits(k))
             IN  {count["graphite"][k][m], count["statsd"][k][m], total("datadog")}
                     = {total("prometheus")}

\* However calls overlap, sends fail, commands are nested and circuits are flushed, the gauge
\* circuitOpen of statsd and of Datadog does not say open when no circuit it stands for is, once
\* one success, or one short circuit by the call's own circuit, has had the gauge to itself
\* (statsd/collector.go:159-161 and datadog/collector.go:121,131: nothing else sets it).  Without
\* such a call it may say open for good: after a short circuit that reports after the success
\* that closed the circuit, after one that an inner command met (hystrix.go:175), and after a
\* Flush of an open circuit (circuit.go:53-63).
GaugeRecovers ==
    AtRest => \A c \in HasGauge : \A k \in DOMAIN gauge[c] :
        gauge[c][k] = 1 => doubtful[c][k] \/ \E n \in Name : Key(c, n) = k /\ open[n]
=============================================================================
