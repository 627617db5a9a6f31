------------------------------ MODULE Command ------------------------------
(***************************************************************************)
(* The execution of commands on one circuit: DoC / GoC of                  *)
(* hystrix/hystrix.go, the ticket pool of hystrix/pool.go, and the pools of *)
(* result channels and timers of hystrix/internal/pool.                    *)
(*                                                                         *)
(* A member of Cmd is one call of Do, DoC, Go or GoC.  Three kinds of      *)
(* process interleave: the calling goroutine (pc[c]), the goroutine that   *)
(* executes the caller's run function (runner[c]) and the environment      *)
(* (timers that expire, contexts that end).  Each step reads or writes at  *)
(* most one object shared between goroutines.                              *)
(*                                                                         *)
(* An error is the set of sentinels errors.Is finds in it, so nil is {}    *)
(* and wrapping two errors is their union.  Whether the breaker lets a     *)
(* call through is left open here; it is the subject of module Circuit.    *)
(***************************************************************************)
EXTENDS Integers, FiniteSets

CONSTANTS
    Cmd,            \* calls on the circuit
    Max,            \* MaxConcurrentRequests when the pool was created
    Chan,           \* result channels that can be allocated
    Timer,          \* timers that can be allocated
    WithContext,    \* the calls of DoC or GoC whose context can end (Do and Go pass
                    \* context.Background, which never does)
    HasFallback,    \* the calls that were given a fallback function
    RunErrs,        \* what run functions may return
    FallbackErrs,   \* what fallback functions may return
    None            \* no channel, no timer, an empty buffer, no event

\* The sentinels errors.Is can find in an error of this system.
Cause == {"circuit open", "max concurrency", "timeout", "canceled",
          "deadline exceeded", "application", "fallback"}

Error == SUBSET Cause

ASSUME MaxAssumption == Max \in Nat
ASSUME ErrsAssumption == RunErrs \subseteq Error /\ FallbackErrs \subseteq Error
ASSUME CallAssumption == WithContext \subseteq Cmd /\ HasFallback \subseteq Cmd
ASSUME NoneAssumption == None \notin Chan \cup Timer

VARIABLES
    pc,         \* where each calling goroutine is in DoC
    tickets,    \* len(executorPool.Tickets)
    executed,   \* executorPool.Executed, the events of the window
    maxActive,  \* executorPool.MaxActiveRequests, the maximum of the window
    runChan,    \* the local variable runChan of each call
    buf,        \* the one-element buffer of each result channel
    chanPool,   \* singleErrorChanPool
    chanMade,   \* the channels allocated so far
    runner,     \* the goroutine started at hystrix.go:134
    ret,        \* what the run function of each call returned, once it did
    timer,      \* the local variable timer of each call
    clock,      \* the runtime's state of each timer
    timerPool,  \* timerPool
    timerMade,  \* the timers allocated so far
    ctx,        \* ctx.Err() of each call's context
    arm,        \* the case of the second select each call took
    err,        \* the error each call is dealing with, in the end what DoC returns
    event       \* the events each call reported to its circuit

cmdVars == <<pc, arm, err, event>>
ticketVars == <<tickets, executed, maxActive>>
chanVars == <<runChan, buf, chanPool, chanMade>>
runVars == <<runner, ret>>
timerVars == <<timer, clock, timerPool, timerMade>>
vars == <<cmdVars, ticketVars, chanVars, runVars, timerVars, ctx>>

Location == {"idle", "ticket", "launch", "arm", "select", "count", "put",
             "release", "report", "unwind", "done"}

Events == [primary : {"success", "failure", "short-circuit", "rejected", "timeout",
                      "context_canceled", "context_deadline_exceeded"},
           secondary : {"", "fallback-success", "fallback-failure"}]

\* The calls that took a ticket and have not put it back.
Holders == {c \in Cmd : pc[c] \in {"launch", "arm", "select", "count", "put"}}

Goto(c, from, to) ==
    /\ pc[c] = from
    /\ pc' = [pc EXCEPT ![c] = to]

----------------------------------------------------------------------------
\* newExecutorPool fills the channel with maxRequests tickets; no pooled
\* channel or timer exists yet, and a caller's context may already have ended.
Init ==
    /\ pc = [c \in Cmd |-> "idle"]
    /\ tickets = Max
    /\ executed = 0
    /\ maxActive = 0
    /\ runChan = [c \in Cmd |-> None]
    /\ buf = [h \in Chan |-> None]
    /\ chanPool = {}
    /\ chanMade = {}
    /\ runner = [c \in Cmd |-> "none"]
    /\ ret = [c \in Cmd |-> {}]
    /\ timer = [c \in Cmd |-> None]
    /\ clock = [t \in Timer |-> "stopped"]
    /\ timerPool = {}
    /\ timerMade = {}
    /\ ctx = [c \in Cmd |-> {}]
    /\ arm = [c \in Cmd |-> "none"]
    /\ err = [c \in Cmd |-> {}]
    /\ event = [c \in Cmd |-> None]

----------------------------------------------------------------------------
\* DoC up to the first select: AllowRequest answers true ...
Allowed(c) ==
    /\ Goto(c, "idle", "ticket")
    /\ UNCHANGED <<arm, err, event, ticketVars, chanVars, runVars, timerVars, ctx>>

\* ... or false, and the call fails with ErrCircuitOpen.
ShortCircuited(c) ==
    /\ Goto(c, "idle", "report")
    /\ err' = [err EXCEPT ![c] = {"circuit open"}]
    /\ UNCHANGED <<arm, event, ticketVars, chanVars, runVars, timerVars, ctx>>

\* Mutation: a ticket is taken without looking whether one is there.
TakeTicket_Unguarded(c) ==
    /\ Goto(c, "ticket", "launch")
    /\ tickets' = tickets - 1
    /\ UNCHANGED <<arm, err, event, executed, maxActive, chanVars, runVars, timerVars, ctx>>

\* The first select: a ticket is received if one is there ...
TakeTicket(c) ==
    /\ Goto(c, "ticket", "launch")
    /\ tickets > 0
    /\ tickets' = tickets - 1
    /\ UNCHANGED <<arm, err, event, executed, maxActive, chanVars, runVars, timerVars, ctx>>

\* ... and otherwise its default case fails with ErrMaxConcurrency.
Reject(c) ==
    /\ Goto(c, "ticket", "report")
    /\ tickets = 0
    /\ err' = [err EXCEPT ![c] = {"max concurrency"}]
    /\ UNCHANGED <<arm, event, ticketVars, chanVars, runVars, timerVars, ctx>>

\* sync.Pool.Get: some pooled channel, or a new one.  The pool may forget its
\* content at any time, so a new one is possible even when the pool is not empty.
AcquireSingleErrorChan(c, h) ==
    /\ h \in chanPool \cup (Chan \ chanMade)
    /\ runChan' = [runChan EXCEPT ![c] = h]
    /\ chanPool' = chanPool \ {h}
    /\ chanMade' = chanMade \cup {h}
    /\ UNCHANGED buf

ReleaseSingleErrorChan(h) ==
    /\ chanPool' = chanPool \cup {h}
    /\ UNCHANGED <<runChan, buf, chanMade>>

\* runChan is acquired and the goroutine that calls run starts.
Launch(c) ==
    /\ Goto(c, "launch", "arm")
    /\ \E h \in Chan : AcquireSingleErrorChan(c, h)
    /\ runner' = [runner EXCEPT ![c] = "running"]
    /\ UNCHANGED <<arm, err, event, ticketVars, ret, timerVars, ctx>>

\* Mutation: a timer from the pool is handed out without Reset.
AcquireTimer_NoReset(c, t) ==
    /\ t \in timerPool \cup (Timer \ timerMade)
    /\ timer' = [timer EXCEPT ![c] = t]
    /\ clock' = IF t \in timerPool THEN clock ELSE [clock EXCEPT ![t] = "running"]
    /\ timerPool' = timerPool \ {t}
    /\ timerMade' = timerMade \cup {t}

\* Reset of a pooled timer and NewTimer both leave it running with an empty C.
AcquireTimer(c, t) ==
    /\ t \in timerPool \cup (Timer \ timerMade)
    /\ timer' = [timer EXCEPT ![c] = t]
    /\ clock' = [clock EXCEPT ![t] = "running"]
    /\ timerPool' = timerPool \ {t}
    /\ timerMade' = timerMade \cup {t}

\* Stop leaves the timer stopped with an empty C (Go 1.23 and later).
ReleaseTimer(t) ==
    /\ clock' = [clock EXCEPT ![t] = "stopped"]
    /\ timerPool' = timerPool \cup {t}
    /\ UNCHANGED <<timer, timerMade>>

ArmTimer(c) ==
    /\ Goto(c, "arm", "select")
    /\ \E t \in Timer : AcquireTimer(c, t)
    /\ UNCHANGED <<arm, err, event, ticketVars, chanVars, runVars, ctx>>

----------------------------------------------------------------------------
(* The second select.  When several cases are ready Go takes any of them.  *)

RecvRunErr(c) ==
    /\ Goto(c, "select", "count")
    /\ buf[runChan[c]] # None
    /\ err' = [err EXCEPT ![c] = buf[runChan[c]].err]
    /\ buf' = [buf EXCEPT ![runChan[c]] = None]
    /\ arm' = [arm EXCEPT ![c] = "run"]
    /\ UNCHANGED <<event, ticketVars, runChan, chanPool, chanMade, runVars, timerVars, ctx>>

\* Mutation: the ctx.Done case forgets to return the ticket.
RecvDone_KeepsTicket(c) ==
    /\ Goto(c, "select", "report")
    /\ ctx[c] # {}
    /\ err' = [err EXCEPT ![c] = ctx[c]]
    /\ arm' = [arm EXCEPT ![c] = "ctx"]
    /\ UNCHANGED <<event, ticketVars, chanVars, runVars, timerVars, ctx>>

RecvDone(c) ==
    /\ Goto(c, "select", "count")
    /\ ctx[c] # {}
    /\ err' = [err EXCEPT ![c] = ctx[c]]
    /\ arm' = [arm EXCEPT ![c] = "ctx"]
    /\ UNCHANGED <<event, ticketVars, chanVars, runVars, timerVars, ctx>>

\* Mutation: the timer case releases the timer, which the defer does again.
RecvTimer_Releases(c) ==
    /\ Goto(c, "select", "count")
    /\ clock[timer[c]] = "expired"
    /\ ReleaseTimer(timer[c])
    /\ err' = [err EXCEPT ![c] = {"timeout"}]
    /\ arm' = [arm EXCEPT ![c] = "timer"]
    /\ UNCHANGED <<event, ticketVars, chanVars, runVars, ctx>>

RecvTimer(c) ==
    /\ Goto(c, "select", "count")
    /\ clock[timer[c]] = "expired"
    /\ clock' = [clock EXCEPT ![timer[c]] = "stopped"]
    /\ err' = [err EXCEPT ![c] = {"timeout"}]
    /\ arm' = [arm EXCEPT ![c] = "timer"]
    /\ UNCHANGED <<event, ticketVars, chanVars, runVars, timer, timerPool, timerMade, ctx>>

----------------------------------------------------------------------------
(* executorPool.Return.  The count of active commands is read while the    *)
(* ticket is still out; the send that puts it back is a step of its own.   *)

ActiveCount == Max - tickets

ReturnCount(c) ==
    /\ Goto(c, "count", "put")
    /\ executed' = executed + 1
    /\ maxActive' = IF ActiveCount > maxActive THEN ActiveCount ELSE maxActive
    /\ UNCHANGED <<arm, err, event, tickets, chanVars, runVars, timerVars, ctx>>

\* Mutation: every case, not only runChan's, goes on to release the channel.
ReturnPut_ReleasesAlways(c) ==
    /\ Goto(c, "put", "release")
    /\ tickets < Max
    /\ tickets' = tickets + 1
    /\ UNCHANGED <<arm, err, event, executed, maxActive, chanVars, runVars, timerVars, ctx>>

\* A send on a channel whose buffer is full blocks.
ReturnPut(c) ==
    /\ Goto(c, "put", IF arm[c] = "run" THEN "release" ELSE "report")
    /\ tickets < Max
    /\ tickets' = tickets + 1
    /\ UNCHANGED <<arm, err, event, executed, maxActive, chanVars, runVars, timerVars, ctx>>

\* Only the case that drained runChan gives it back to the pool.
ReleaseChan(c) ==
    /\ Goto(c, "release", "report")
    /\ ReleaseSingleErrorChan(runChan[c])
    /\ UNCHANGED <<arm, err, event, ticketVars, runVars, timerVars, ctx>>

----------------------------------------------------------------------------
\* Mutation: the context is looked at before the error.
PrimaryEvent_ContextFirst(e, ctxErr) ==
    CASE "canceled" \in ctxErr -> "context_canceled"
      [] "deadline exceeded" \in ctxErr -> "context_deadline_exceeded"
      [] OTHER -> IF "circuit open" \in e THEN "short-circuit"
                  ELSE IF "max concurrency" \in e THEN "rejected"
                  ELSE IF "timeout" \in e THEN "timeout" ELSE "failure"

\* The switch of errorWithFallback: the error decides, then the context.
PrimaryEvent(e, ctxErr) ==
    IF "circuit open" \in e THEN "short-circuit"
    ELSE IF "max concurrency" \in e THEN "rejected"
    ELSE IF "timeout" \in e THEN "timeout"
    ELSE IF "canceled" \in ctxErr THEN "context_canceled"
    ELSE IF "deadline exceeded" \in ctxErr THEN "context_deadline_exceeded"
    ELSE "failure"

\* run returned nil and its case was taken.
Succeed(c) ==
    /\ Goto(c, "report", "unwind")
    /\ err[c] = {}
    /\ event' = [event EXCEPT ![c] = [primary |-> "success", secondary |-> ""]]
    /\ UNCHANGED <<arm, err, ticketVars, chanVars, runVars, timerVars, ctx>>

\* errorWithFallback and tryFallback: without a fallback the error stands; with
\* one, it ends in success or in an error that wraps both.
ErrorWithFallback(c) ==
    /\ Goto(c, "report", "unwind")
    /\ err[c] # {}
    /\ \/ /\ c \notin HasFallback
          /\ event' = [event EXCEPT ![c] = [primary |-> PrimaryEvent(err[c], ctx[c]),
                                            secondary |-> ""]]
          /\ UNCHANGED err
       \/ /\ c \in HasFallback
          /\ \E f \in FallbackErrs :
               /\ event' = [event EXCEPT ![c] =
                     [primary |-> PrimaryEvent(err[c], ctx[c]),
                      secondary |-> IF f = {} THEN "fallback-success" ELSE "fallback-failure"]]
               /\ err' = [err EXCEPT ![c] = IF f = {} THEN {} ELSE f \cup err[c]]
    /\ UNCHANGED <<arm, ticketVars, chanVars, runVars, timerVars, ctx>>

\* The deferred ReleaseTimer, if the call got as far as its timer, and DoC's
\* return of err[c]; GoC puts a non-nil one on errChan, whose buffer is its own.
Finish(c) ==
    /\ Goto(c, "unwind", "done")
    /\ IF timer[c] = None THEN UNCHANGED timerVars ELSE ReleaseTimer(timer[c])
    /\ UNCHANGED <<arm, err, event, ticketVars, chanVars, runVars, ctx>>

----------------------------------------------------------------------------
\* The run function of c returns ...
RunReturns(c) ==
    /\ runner[c] = "running"
    /\ runner' = [runner EXCEPT ![c] = "sending"]
    /\ \E e \in RunErrs : ret' = [ret EXCEPT ![c] = e]
    /\ UNCHANGED <<cmdVars, ticketVars, chanVars, timerVars, ctx>>

\* ... and its goroutine sends the result, which blocks while the buffer is full.
RunSends(c) ==
    /\ runner[c] = "sending"
    /\ buf[runChan[c]] = None
    /\ buf' = [buf EXCEPT ![runChan[c]] = [from |-> c, err |-> ret[c]]]
    /\ runner' = [runner EXCEPT ![c] = "done"]
    /\ UNCHANGED <<cmdVars, ticketVars, runChan, chanPool, chanMade, ret, timerVars, ctx>>

\* The runtime puts the time on t.C.
TimerExpires(t) ==
    /\ clock[t] = "running"
    /\ clock' = [clock EXCEPT ![t] = "expired"]
    /\ UNCHANGED <<cmdVars, ticketVars, chanVars, runVars, timer, timerPool, timerMade, ctx>>

\* The caller's context is canceled or its deadline passes, before or during
\* the call; what happens after the call is over is of no interest.
CtxEnds(c) ==
    /\ c \in WithContext
    /\ pc[c] \notin {"unwind", "done"}
    /\ ctx[c] = {}
    /\ \E e \in {{"canceled"}, {"deadline exceeded"}} : ctx' = [ctx EXCEPT ![c] = e]
    /\ UNCHANGED <<cmdVars, ticketVars, chanVars, runVars, timerVars>>

\* Every call has returned and every goroutine has ended.
Terminated ==
    /\ \A c \in Cmd : pc[c] = "done" /\ runner[c] \in {"none", "done"}
    /\ UNCHANGED vars

----------------------------------------------------------------------------
\* The steps of DoC once it was called.
Call(c) ==
    \/ TakeTicket(c)
    \/ Reject(c)
    \/ Launch(c)
    \/ ArmTimer(c)
    \/ RecvRunErr(c)
    \/ RecvDone(c)
    \/ RecvTimer(c)
    \/ ReturnCount(c)
    \/ ReturnPut(c)
    \/ ReleaseChan(c)
    \/ Succeed(c)
    \/ ErrorWithFallback(c)
    \/ Finish(c)

Next ==
    \/ \E c \in Cmd :
         \/ Allowed(c)
         \/ ShortCircuited(c)
         \/ Call(c)
         \/ RunReturns(c)
         \/ RunSends(c)
         \/ CtxEnds(c)
    \/ \E t \in Timer : TimerExpires(t)
    \/ Terminated

\* Goroutines that can move are scheduled and timers expire.  Nothing forces a
\* caller to call, a run function to return or a context to end.
Fairness ==
    /\ \A c \in Cmd : WF_vars(Call(c)) /\ WF_vars(RunSends(c))
    /\ \A t \in Timer : WF_vars(TimerExpires(t))

Spec == Init /\ [][Next]_vars
FairSpec == Spec /\ Fairness
----------------------------------------------------------------------------
(* Properties                                                              *)

CallTypes ==
    /\ pc \in [Cmd -> Location]
    /\ arm \in [Cmd -> {"none", "run", "ctx", "timer"}]
    /\ runner \in [Cmd -> {"none", "running", "sending", "done"}]

ErrorTypes ==
    /\ err \in [Cmd -> Error]
    /\ ret \in [Cmd -> Error]
    /\ ctx \in [Cmd -> Error]

EventTypes == event \in [Cmd -> Events \cup {None}]

TicketTypes ==
    /\ tickets \in 0..Max
    /\ executed \in Nat
    /\ maxActive \in 0..Max

ChanTypes ==
    /\ runChan \in [Cmd -> Chan \cup {None}]
    /\ buf \in [Chan -> [from : Cmd, err : Error] \cup {None}]
    /\ chanPool \subseteq chanMade
    /\ chanMade \subseteq Chan

TimerTypes ==
    /\ timer \in [Cmd -> Timer \cup {None}]
    /\ clock \in [Timer -> {"stopped", "running", "expired"}]
    /\ timerPool \subseteq timerMade
    /\ timerMade \subseteq Timer

\* Every variable has its type, and no counter leaves its range.
TypeOK ==
    CallTypes /\ ErrorTypes /\ EventTypes /\ TicketTypes /\ ChanTypes /\ TimerTypes

\* No ticket is lost or forged on any path through DoC: the tickets in the
\* channel and the calls that hold one always add up to Max.  Hence the send in
\* executorPool.Return (pool.go:41) never blocks and at most Max calls are inside.
TicketConservation ==
    /\ IsFiniteSet(Holders)
    /\ tickets + Cardinality(Holders) = Max

\* A call that took the runChan case got what its own run function returned,
\* never a value left over in a reused channel from another call (hystrix.go:142).
OwnResult ==
    \A c \in Cmd : arm[c] = "run" /\ pc[c] \in {"count", "put", "release", "report"}
                    => err[c] = ret[c]

\* The goroutine that executes run never blocks on its send, even when its
\* caller has long returned on a timeout or an ended context (hystrix.go:135).
SendNeverBlocks ==
    \A c \in Cmd : runner[c] = "sending" => buf[runChan[c]] = None

\* "safe to release as runChan is drained" (hystrix.go:145): a channel in the
\* pool is empty and no goroutine that may still send on it exists.
PooledChanIsQuiet ==
    \A h \in chanPool :
        /\ buf[h] = None
        /\ \A c \in Cmd : runChan[c] = h => runner[c] = "done"

\* MaxConcurrentRequests is "how many commands of the same type can run at the same time"
\* (settings.go:14).  A ticket is returned when the caller leaves, not when run returns
\* (hystrix.go:153-160), so more than Max run functions can be running, but those beyond
\* Max are of calls that left on a timeout or an ended context.
Abandoned == {c \in Cmd : arm[c] \in {"ctx", "timer"} /\ c \notin Holders}
OverrunOnlyAbandoned ==
    Cardinality({c \in Cmd : runner[c] = "running"} \ Abandoned) <= Max

\* A timer belongs to one call at a time, from AcquireTimer to the deferred
\* ReleaseTimer (hystrix.go:138-139), and a pooled timer is stopped, so that no
\* call is timed out by, or has its timer stopped by, another call.
TimerExclusive ==
    /\ \A c, d \in Cmd :
         timer[c] = timer[d] /\ timer[c] # None /\ pc[c] # "done" /\ pc[d] # "done" => c = d
    /\ \A t \in timerPool :
         clock[t] = "stopped" /\ \A c \in Cmd : timer[c] = t => pc[c] = "done"

\* What a call returns agrees with what it reported and with what happened:
\* nil exactly after a success or a successful fallback, "success" only when its
\* own run returned nil and was received in time, "timeout" whenever its timer
\* ended the wait, and a call that was refused never executed its run function.
OutcomeSound ==
    \A c \in Cmd : pc[c] = "done" =>
        /\ err[c] = {} <=> \/ event[c].primary = "success"
                              \/ event[c].secondary = "fallback-success"
        /\ event[c].primary = "success" <=> arm[c] = "run" /\ ret[c] = {}
        /\ arm[c] = "timer" => event[c].primary = "timeout"
        /\ arm[c] = "ctx" => event[c].primary \in {"context_canceled", "context_deadline_exceeded"}
        /\ arm[c] = "none" <=> runner[c] = "none"

\* Every call of DoC returns, whatever its run function does: the timeout, if
\* nothing else, gets it out of the second select (hystrix.go:141-161).
CallReturns == \A c \in Cmd : pc[c] # "idle" ~> pc[c] = "done"

\* The calls that end as "rejected" without having run, and the calls that
\* took a case of the second select and put their ticket back.
Turned == {c \in Cmd : /\ arm[c] = "none"
                       /\ \/ pc[c] = "report" /\ err[c] = {"max concurrency"}
                          \/ pc[c] \in {"unwind", "done"} /\ event[c].primary = "rejected"}
Left == {c \in Cmd : arm[c] # "none" /\ c \notin Holders}

BH == INSTANCE Bulkhead WITH active <- Holders, turned <- Turned, left <- Left

\* Command implements Bulkhead, fairness included (pool.go and hystrix.go:124-160).
ImplementsBulkhead == BH!Spec
=============================================================================
