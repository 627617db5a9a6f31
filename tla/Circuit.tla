------------------------------ MODULE Circuit ------------------------------
(***************************************************************************)
(* The circuit breaker of hystrix/circuit.go with the health it is decided *)
(* on: hystrix/metrics.go and the two counters of                          *)
(* metric_collector/default_metric_collector.go that matter for it.        *)
(*                                                                         *)
(* Nothing here is guarded by a mutex, so each atomic operation of the     *)
(* code is a step: the Load and the CompareAndSwap of open, the Load, the  *)
(* Store and the CompareAndSwap of openedOrLastTestedTime, the reading of  *)
(* each rolling counter, its increment and its reset.  Goroutines (Proc)   *)
(* interleave between any two of them and time passes between any two.     *)
(*                                                                         *)
(* One unit of time is one bucket of the rolling counters.  time.Now()     *)
(* evaluated between two steps of a goroutine is any instant between them. *)
(***************************************************************************)
EXTENDS Integers, FiniteSets, FiniteSetsExt

CONSTANTS
    Proc,                   \* goroutines
    Viewer,                 \* those that only call IsOpen (the event stream)
    Outcomes,               \* the events a call that was let through may report
    RequestVolumeThreshold,
    ErrorPercentThreshold,
    SleepWindow,
    Window,                 \* how far back Sum looks (10 in the code)
    Start,                  \* the time the circuit is created
    MaxClock,               \* bound: time stops here
    MaxCalls                \* bound: calls started altogether

PrimaryEvents == {"success", "failure", "short-circuit", "rejected", "timeout",
                  "context_canceled", "context_deadline_exceeded"}

\* A circuit is created long after the epoch, which is what a zero
\* openedOrLastTestedTime stands for.
ASSUME CircuitAssumption ==
    /\ Viewer \subseteq Proc
    /\ Outcomes \subseteq PrimaryEvents
    /\ RequestVolumeThreshold \in Nat
    /\ ErrorPercentThreshold \in Int
    /\ SleepWindow \in Nat
    /\ Window \in Nat
    /\ Start \in Nat /\ Start > SleepWindow
    /\ MaxClock \in Nat /\ Start <= MaxClock
    /\ MaxCalls \in Nat

VARIABLES
    clock,      \* the time
    open,       \* circuit.open
    stamp,      \* circuit.openedOrLastTestedTime
    requests,   \* numRequests: the value of the bucket of each instant
    errors,     \* errors, likewise
    pc,         \* where each goroutine is
    now,        \* the local now, or the instant since when the next one is taken
    val,        \* the local reqs or openedOrLastTestedTime
    ev,         \* the primary event to report
    calls,      \* calls started so far
    seen,       \* history: the values open had during the current operation
    openedAt,   \* history: when open last became true, or, if one who made it true before
                \* has yet to store the time, when that one did
    granted,    \* history: the stamp of the last test granted since the last Store
    since,      \* history: the errors counted in each instant since open last became false
    disturbed   \* history: who has read a counter, to decide on it, that changed afterwards

shared == <<open, stamp, requests, errors>>
local == <<pc, now, val, ev>>
history == <<seen, openedAt, granted, since, disturbed>>
vars == <<clock, shared, local, calls, history>>

Time == 0..MaxClock
None == -1

Location == {"idle", "volume", "reqs", "errs", "setOpen", "store", "load", "grant",
             "run", "test", "report", "setClose", "reset", "resetErrors", "count", "countErrors"}

\* The buckets that Sum(now) counts.
Sum(counter, t) == MapThenSumSet(LAMBDA k : counter[k], {k \in Time : k >= t - Window})

\* int(errs / reqs * 100 + 0.5): the nearest whole number.  A half goes either way, as the
\* product of floats may come out just below it (29 of 200 are 14, 1 of 8 are 13 percent).
ErrorPercent(reqs, errs) ==
    IF reqs > 0 THEN {(200 * errs + reqs - below) \div (2 * reqs) : below \in {0, 1}} ELSE {0}

\* Mutation: the circuit stays closed at the threshold.
IsHealthy_AtThreshold(percent) == percent <= ErrorPercentThreshold

IsHealthy(percent) == percent < ErrorPercentThreshold

\* Mutation: a call whose caller gave up counts as an error.
IsError_Canceled(e) ==
    e \in {"failure", "rejected", "short-circuit", "timeout", "context_canceled"}

\* The Errors field of buildResult.
IsError(e) == e \in {"failure", "rejected", "short-circuit", "timeout"}

\* The call p reports failed or was refused; that its caller gave up does not count.
Failed(p) == ev[p] \notin {"success", "context_canceled", "context_deadline_exceeded"}

\* A counter changes, and those who have read one and are not through may be wrong.
Disturb == disturbed' = disturbed \cup {q \in Proc : pc[q] \in {"reqs", "errs", "setOpen"}}
Decided(p) == disturbed' = disturbed \ {p}

Goto(p, from, to) == pc[p] = from /\ pc' = [pc EXCEPT ![p] = to]

\* time.Now() as p takes it now: after its last step and not later than now.
Now(p) == now[p]..clock

\* open changes, and everyone in the middle of an operation may have seen it.
SetOpenTo(b) ==
    /\ open' = b
    /\ seen' = [q \in Proc |-> seen[q] \cup {b}]

Init ==
    /\ clock = Start
    /\ open = FALSE
    /\ stamp = 0
    /\ requests = [t \in Time |-> 0]
    /\ errors = [t \in Time |-> 0]
    /\ pc = [p \in Proc |-> "idle"]
    /\ now = [p \in Proc |-> 0]
    /\ val = [p \in Proc |-> 0]
    /\ ev = [p \in Proc |-> "success"]
    /\ calls = 0
    /\ seen = [p \in Proc |-> {}]
    /\ openedAt = None
    /\ granted = None
    /\ since = [t \in Time |-> 0]
    /\ disturbed = {}

----------------------------------------------------------------------------
(* IsOpen                                                                  *)

\* Where p goes when IsOpen answers: a viewer has what it wanted, a call goes
\* on to run or, if the circuit is open, to allowSingleTest.
Answer(p, b) == IF p \in Viewer THEN "idle" ELSE IF b THEN "load" ELSE "run"

LoadOpen(p) ==
    /\ calls < MaxCalls
    /\ calls' = calls + 1
    /\ Goto(p, "idle", IF open THEN Answer(p, TRUE) ELSE "volume")
    /\ now' = [now EXCEPT ![p] = clock]
    /\ seen' = [seen EXCEPT ![p] = {open}]
    /\ UNCHANGED <<clock, shared, val, ev, openedAt, granted, since, disturbed>>

CheckVolume(p) ==
    \E t \in Now(p) :
        /\ Goto(p, "volume", IF Sum(requests, t) < RequestVolumeThreshold
                             THEN Answer(p, FALSE) ELSE "reqs")
        /\ now' = [now EXCEPT ![p] = t]
        /\ UNCHANGED <<clock, shared, val, ev, calls, history>>

\* ErrorPercent reads one counter ...
ReadRequests(p) ==
    /\ Goto(p, "reqs", "errs")
    /\ val' = [val EXCEPT ![p] = Sum(requests, now[p])]
    /\ UNCHANGED <<clock, shared, now, ev, calls, history>>

\* Mutation: IsOpen answers true without opening the circuit.
ReadErrors_NoSetOpen(p) ==
    /\ \E percent \in ErrorPercent(val[p], Sum(errors, now[p])) :
         Goto(p, "errs", Answer(p, ~IsHealthy(percent)))
    /\ Decided(p)
    /\ UNCHANGED <<clock, shared, now, val, ev, calls, seen, openedAt, granted, since>>

\* ... and then the other.
ReadErrors(p) ==
    /\ \E percent \in ErrorPercent(val[p], Sum(errors, now[p])) :
         \/ /\ IsHealthy(percent)
            /\ Goto(p, "errs", Answer(p, FALSE))
            /\ Decided(p)
         \/ /\ ~IsHealthy(percent)
            /\ Goto(p, "errs", "setOpen")
            /\ UNCHANGED disturbed
    /\ UNCHANGED <<clock, shared, now, val, ev, calls, seen, openedAt, granted, since>>

\* setOpen: the CompareAndSwap, won ...
SetOpen(p) ==
    /\ Goto(p, "setOpen", "store")
    /\ ~open
    /\ SetOpenTo(TRUE)
    /\ openedAt' = IF \E q \in Proc : pc[q] = "store" THEN openedAt ELSE clock
    /\ now' = [now EXCEPT ![p] = clock]
    /\ Decided(p)
    /\ UNCHANGED <<clock, stamp, requests, errors, val, ev, calls, granted, since>>

\* ... or lost to another goroutine; IsOpen answers true all the same.
SetOpenLost(p) ==
    /\ Goto(p, "setOpen", Answer(p, TRUE))
    /\ open
    /\ now' = [now EXCEPT ![p] = clock]
    /\ Decided(p)
    /\ UNCHANGED <<clock, shared, val, ev, calls, seen, openedAt, granted, since>>

\* Mutation: the time the next test is due is stored instead.
StoreStamp_Due(p) ==
    \E t \in Now(p) :
        /\ Goto(p, "store", Answer(p, TRUE))
        /\ stamp' = t + SleepWindow
        /\ granted' = None
        /\ now' = [now EXCEPT ![p] = clock]
        /\ UNCHANGED <<clock, open, requests, errors, val, ev, calls, seen, openedAt, since,
                       disturbed>>

\* Mutation: the time of opening is not stored.
StoreStamp_Missing(p) ==
    /\ Goto(p, "store", Answer(p, TRUE))
    /\ granted' = None
    /\ now' = [now EXCEPT ![p] = clock]
    /\ UNCHANGED <<clock, shared, val, ev, calls, seen, openedAt, since, disturbed>>

StoreStamp(p) ==
    \E t \in Now(p) :
        /\ Goto(p, "store", Answer(p, TRUE))
        /\ stamp' = t
        /\ granted' = None
        /\ now' = [now EXCEPT ![p] = clock]
        /\ UNCHANGED <<clock, open, requests, errors, val, ev, calls, seen, openedAt, since,
                       disturbed>>

----------------------------------------------------------------------------
(* allowSingleTest                                                         *)

LoadStamp(p) ==
    \E t \in Now(p) :
        /\ t > stamp + SleepWindow
        /\ Goto(p, "load", "grant")
        /\ now' = [now EXCEPT ![p] = t]
        /\ val' = [val EXCEPT ![p] = stamp]
        /\ UNCHANGED <<clock, shared, ev, calls, history>>

Refuse(p, from) ==
    /\ Goto(p, from, "report")
    /\ ev' = [ev EXCEPT ![p] = "short-circuit"]
    /\ UNCHANGED <<clock, shared, now, val, calls, history>>

TooEarly(p) ==
    /\ \E t \in Now(p) : t <= stamp + SleepWindow
    /\ Refuse(p, "load")

\* Mutation: a Store instead of the CompareAndSwap.
GrantTest_Store(p) ==
    /\ Goto(p, "grant", "test")
    /\ stamp' = now[p]
    /\ granted' = now[p]
    /\ UNCHANGED <<clock, open, requests, errors, now, val, ev, calls, seen, openedAt, since,
                       disturbed>>

GrantTest(p) ==
    /\ Goto(p, "grant", "test")
    /\ stamp = val[p]
    /\ stamp' = now[p]
    /\ granted' = now[p]
    /\ UNCHANGED <<clock, open, requests, errors, now, val, ev, calls, seen, openedAt, since,
                       disturbed>>

GrantLost(p) ==
    /\ stamp # val[p]
    /\ Refuse(p, "grant")

----------------------------------------------------------------------------
\* The rest of DoC, which is module Command: the call ends in some event.
Executed(p) ==
    /\ \E from \in {"run", "test"} : Goto(p, from, "report")
    /\ \E e \in Outcomes : ev' = [ev EXCEPT ![p] = e]
    /\ UNCHANGED <<clock, shared, now, val, calls, history>>

----------------------------------------------------------------------------
(* reportEvent                                                             *)

Report(p) ==
    /\ Goto(p, "report", IF ev[p] = "success" /\ open THEN "setClose" ELSE "count")
    /\ now' = [now EXCEPT ![p] = clock]
    /\ seen' = [seen EXCEPT ![p] = {open}]
    /\ UNCHANGED <<clock, shared, val, ev, calls, openedAt, granted, since, disturbed>>

\* setClose: the CompareAndSwap, won or lost.
SetClose(p) ==
    /\ Goto(p, "setClose", "reset")
    /\ open
    /\ SetOpenTo(FALSE)
    /\ since' = [t \in Time |-> 0]
    /\ UNCHANGED <<clock, stamp, requests, errors, now, val, ev, calls, openedAt, granted,
                   disturbed>>

SetCloseLost(p) ==
    /\ Goto(p, "setClose", "count")
    /\ ~open
    /\ now' = [now EXCEPT ![p] = clock]
    /\ UNCHANGED <<clock, shared, val, ev, calls, history>>

\* Reset of the default collector, in its order.
ResetRequests(p) ==
    /\ Goto(p, "reset", "resetErrors")
    /\ requests' = [t \in Time |-> 0]
    /\ Disturb
    /\ UNCHANGED <<clock, open, stamp, errors, now, val, ev, calls, seen, openedAt, granted,
                   since>>

\* Mutation: Reset forgets the errors.
ResetErrors_Missing(p) ==
    /\ Goto(p, "resetErrors", "count")
    /\ now' = [now EXCEPT ![p] = clock]
    /\ UNCHANGED <<clock, shared, val, ev, calls, history>>

ResetErrors(p) ==
    /\ Goto(p, "resetErrors", "count")
    /\ errors' = [t \in Time |-> 0]
    /\ now' = [now EXCEPT ![p] = clock]
    /\ Disturb
    /\ UNCHANGED <<clock, open, stamp, requests, val, ev, calls, seen, openedAt, granted, since>>

\* Update of the default collector, in its order and with one now for both.
CountRequest(p) ==
    \E t \in Now(p) :
        /\ Goto(p, "count", IF IsError(ev[p]) THEN "countErrors" ELSE "idle")
        /\ requests' = [requests EXCEPT ![t] = @ + 1]
        /\ now' = [now EXCEPT ![p] = t]
        /\ Disturb
        /\ UNCHANGED <<clock, open, stamp, errors, val, ev, calls, seen, openedAt, granted,
                       since>>

CountError(p) ==
    /\ Goto(p, "countErrors", "idle")
    /\ errors' = [errors EXCEPT ![now[p]] = @ + 1]
    /\ since' = IF Failed(p) THEN [since EXCEPT ![now[p]] = @ + 1] ELSE since
    /\ Disturb
    /\ UNCHANGED <<clock, open, stamp, requests, now, val, ev, calls, seen, openedAt, granted>>

----------------------------------------------------------------------------
Tick ==
    /\ clock < MaxClock
    /\ clock' = clock + 1
    /\ UNCHANGED <<shared, local, calls, history>>

\* Every call the bounds allow has been made.
Terminated ==
    /\ calls = MaxCalls /\ clock = MaxClock /\ \A p \in Proc : pc[p] = "idle"
    /\ UNCHANGED vars

IsOpen(p) ==
    \/ LoadOpen(p) \/ CheckVolume(p) \/ ReadRequests(p) \/ ReadErrors(p)
    \/ SetOpen(p) \/ SetOpenLost(p) \/ StoreStamp(p)

AllowSingleTest(p) == LoadStamp(p) \/ TooEarly(p) \/ GrantTest(p) \/ GrantLost(p)

ReportEvent(p) ==
    \/ Report(p) \/ SetClose(p) \/ SetCloseLost(p) \/ ResetRequests(p) \/ ResetErrors(p)
    \/ CountRequest(p) \/ CountError(p)

Next ==
    \/ \E p \in Proc : IsOpen(p) \/ AllowSingleTest(p) \/ Executed(p) \/ ReportEvent(p)
    \/ Tick
    \/ Terminated

Spec == Init /\ [][Next]_vars
----------------------------------------------------------------------------
(* Properties                                                              *)

\* Every variable has its type, and openedOrLastTestedTime is never later than
\* the clock, which would postpone the next test beyond the sleep window.
TypeOK ==
    /\ clock \in Start..MaxClock
    /\ open \in BOOLEAN
    /\ stamp \in 0..clock
    /\ requests \in [Time -> 0..MaxCalls]
    /\ errors \in [Time -> 0..MaxCalls]
    /\ pc \in [Proc -> Location]
    /\ now \in [Proc -> 0..clock]
    /\ val \in [Proc -> Nat]
    /\ ev \in [Proc -> PrimaryEvents]
    /\ calls \in 0..MaxCalls
    /\ seen \in [Proc -> SUBSET BOOLEAN]
    /\ openedAt \in {None} \cup Start..clock
    /\ granted \in {None} \cup Start..clock
    /\ since \in [Time -> Nat]
    /\ disturbed \subseteq Proc

\* IsOpen answers what was true at some moment while it was executing, although
\* it looks at open, at the counters and at open again in separate steps
\* (circuit.go:76-93): no call is refused that never overlapped an open circuit,
\* and none is let through, test aside, that never overlapped a closed one.
AnswerWasTrue ==
    \A p \in Proc :
        /\ pc[p] \in {"load", "grant"} => TRUE \in seen[p]
        /\ pc[p] = "run" => FALSE \in seen[p]

\* When a success has been reported the circuit was closed at some moment of the
\* report, by this goroutine or by another (circuit.go:146-148).
SuccessCloses ==
    \A p \in Proc : pc[p] \in {"reset", "resetErrors", "count"} /\ ev[p] = "success"
                    => FALSE \in seen[p]

\* As long as nobody opens the circuit in between, the tests granted lie more
\* than a sleep window apart, however many goroutines ask for one at a time
\* (circuit.go:102-114).
TestsSpaced ==
    [][granted # None /\ granted' \notin {None, granted}
       => granted' > granted + SleepWindow]_vars

\* A test within the sleep window of the opening is granted only while somebody
\* who opened the circuit has yet to store the time (circuit.go:117-119), never
\* on a time that was loaded before that store and is used after it.  When two
\* openings overlap, the earlier one counts: its store may come last.
EarlyOnlyBeforeStore ==
    [][granted' \notin {None, granted} /\ clock <= openedAt + SleepWindow
       => \E q \in Proc : pc[q] = "store"]_vars

Resetting == \E p \in Proc : pc[p] \in {"reset", "resetErrors"}

\* What made a circuit open is forgotten once it was closed: unless somebody is
\* still at the reset, no second has more errors than were added to it since open
\* became false, however updates and resets interleave (circuit.go:123-128).  A call
\* that failed before and adds its error late is among those.
ErrorsForgotten == Resetting \/ \A t \in Time : errors[t] <= since[t]

\* "how long ... to wait after a circuit opens before testing for recovery"
\* (settings.go:18): no test is granted within a sleep window of the opening.
NoEarlyTest ==
    [][granted' \notin {None, granted} => clock > openedAt + SleepWindow]_vars

\* p finds that the circuit is due to open and wins the CompareAndSwap, or that it is not.
Opens(p) == pc[p] = "setOpen" /\ pc'[p] = "store"
LeavesClosed(p) == pc[p] = "errs" /\ pc'[p] \notin {"errs", "setOpen"}

\* 200 times the errors that are half a percent of reqs short of the threshold.
Due(reqs) == (2 * ErrorPercentThreshold - 1) * reqs

\* "the minimum number of requests needed before a circuit can be tripped due to
\* health" (settings.go:16), and what the code makes of "causes circuits to open once
\* the rolling measure of errors exceeds this percent of requests" (:20): it opens when
\* the share equals the threshold, too, and when it is rounded up to it
\* (metrics.go:73-77).  Who opens a circuit finds that many requests and errors, and who
\* leaves it closed after a look at the errors finds no more, unless a counter changed
\* after the look at it: they are read one after the other (circuit.go:82,
\* metrics.go:66-67).
OpensOnMeasure ==
    [][\A p \in Proc :
         LET reqs == Sum(requests, now[p])
             errs == Sum(errors, now[p])
         IN  /\ Opens(p) /\ p \notin disturbed
                 => reqs >= RequestVolumeThreshold /\ 200 * errs >= Due(reqs)
             /\ LeavesClosed(p) /\ p \notin disturbed => 200 * errs <= Due(reqs)]_vars

\* It takes new errors to open a circuit again: unless a counter changed or a reset is
\* under way, who opens it finds that share of errors among those added since open became
\* false (circuit.go:123-128), and none is of a call that succeeded or whose caller gave
\* up (metrics.go:103-106).
OpensOnNewErrors ==
    [][\A p \in Proc :
         Opens(p) /\ p \notin disturbed /\ ~Resetting
         => 200 * Sum(since, now[p]) >= Due(Sum(requests, now[p]))]_vars
=============================================================================
