---------------------------- MODULE EventStream ----------------------------
(***************************************************************************)
(* StreamHandler (hystrix/eventstream.go): one goroutine publishes two     *)
(* events per circuit every second to all connected clients, each of which *)
(* has a buffered channel and a handler goroutine; and the global flag     *)
(* that switches timings on while somebody is watching.                    *)
(*                                                                         *)
(* A Lock section is one step.  writeToRequests holds RLock while it goes  *)
(* over the clients one by one, and no Lock section fits in between.  Of   *)
(* an event only the place it takes in a channel matters here.             *)
(***************************************************************************)
EXTENDS Integers, FiniteSets

CONSTANTS
    Client,             \* HTTP requests
    Circuits,           \* the circuits that exist
    BufferSize          \* streamEventBufferSize

ASSUME BufferAssumption == BufferSize \in Nat \ {0}

VARIABLES
    TimingEnabled,      \* DefaultMetricCollectorTimingEnabled
    preset,             \* whether the application had set it itself
    requests,           \* the clients in sh.requests
    events,             \* the number of events in the channel of each client
    done,               \* whether sh.done is closed
    pc,                 \* where the handler of each client is
    owner,              \* whether it was this handler that set the flag
    gone,               \* whether its request's context is done
    loop,               \* where the publisher is
    todo, kind,         \* circuits left for this second; what is published of the current one
    left                \* clients left for this event

handlerVars == <<TimingEnabled, preset, requests, pc, owner>>
loopVars == <<loop, todo, kind, left>>
vars == <<handlerVars, events, done, gone, loopVars>>

Goto(c, from, to) == pc[c] = from /\ pc' = [pc EXCEPT ![c] = to]

\* After Start.
Init ==
    /\ preset \in BOOLEAN
    /\ TimingEnabled = preset
    /\ requests = {}
    /\ events = [c \in Client |-> 0]
    /\ done = FALSE
    /\ pc = [c \in Client |-> "new"]
    /\ owner = [c \in Client |-> FALSE]
    /\ gone = [c \in Client |-> FALSE]
    /\ loop = "select"
    /\ todo = {}
    /\ kind = "metrics"
    /\ left = {}

\* Nobody is inside an RLock section.
Unlocked == loop # "send"

----------------------------------------------------------------------------
(* ServeHTTP                                                               *)

\* The response cannot be flushed.
Unsupported(c) ==
    /\ Goto(c, "new", "served")
    /\ UNCHANGED <<TimingEnabled, preset, requests, owner, events, done, gone, loopVars>>

\* Mutation: the flag is stored, and every handler thinks it has set it.
Enable_Store(c) ==
    /\ Goto(c, "new", "register")
    /\ TimingEnabled' = TRUE
    /\ owner' = [owner EXCEPT ![c] = TRUE]
    /\ UNCHANGED <<preset, requests, events, done, gone, loopVars>>

\* CompareAndSwap(false, true): who wins it has to undo it.
Enable(c) ==
    /\ Goto(c, "new", "register")
    /\ TimingEnabled' = TRUE
    /\ owner' = [owner EXCEPT ![c] = ~TimingEnabled]
    /\ UNCHANGED <<preset, requests, events, done, gone, loopVars>>

\* The lookup that precedes the insertion finds nothing, a request is served once.
Register(c) ==
    /\ Goto(c, "register", "serve")
    /\ Unlocked
    /\ requests' = requests \cup {c}
    /\ UNCHANGED <<TimingEnabled, preset, owner, events, done, gone, loopVars>>

\* The select: an event, or the end of the request's context.
Receive(c) ==
    /\ Goto(c, "serve", "write")
    /\ events[c] > 0
    /\ events' = [events EXCEPT ![c] = @ - 1]
    /\ UNCHANGED <<TimingEnabled, preset, requests, owner, done, gone, loopVars>>

Leave(c) ==
    /\ Goto(c, "serve", "unregister")
    /\ gone[c]
    /\ UNCHANGED <<TimingEnabled, preset, requests, owner, events, done, gone, loopVars>>

\* Write and Flush return, or Write fails, which it always does in the end when
\* the client is gone.
Written(c) ==
    /\ Goto(c, "write", "serve")
    /\ UNCHANGED <<TimingEnabled, preset, requests, owner, events, done, gone, loopVars>>

WriteFails(c) ==
    /\ Goto(c, "write", "unregister")
    /\ UNCHANGED <<TimingEnabled, preset, requests, owner, events, done, gone, loopVars>>

\* The deferred calls, last one first.
Unregister(c) ==
    /\ Goto(c, "unregister", "disable")
    /\ Unlocked
    /\ requests' = requests \ {c}
    /\ UNCHANGED <<TimingEnabled, preset, owner, events, done, gone, loopVars>>

Disable(c) ==
    /\ Goto(c, "disable", "served")
    /\ TimingEnabled' = IF owner[c] THEN FALSE ELSE TimingEnabled
    /\ owner' = [owner EXCEPT ![c] = FALSE]
    /\ UNCHANGED <<preset, requests, events, done, gone, loopVars>>

\* The client closes its connection.
Disconnect(c) ==
    /\ ~gone[c]
    /\ gone' = [gone EXCEPT ![c] = TRUE]
    /\ UNCHANGED <<handlerVars, events, done, loopVars>>

----------------------------------------------------------------------------
(* loop                                                                    *)

\* A second is over: all circuits are to be published.
Tick ==
    /\ loop = "select"
    /\ loop' = "publish"
    /\ todo' = Circuits
    /\ kind' = "metrics"
    /\ UNCHANGED <<handlerVars, events, done, gone, left>>

\* On to the thread pool of this circuit, or to the next circuit.
Continue ==
    \/ kind = "metrics" /\ kind' = "threads" /\ UNCHANGED todo
    \/ kind = "threads" /\ kind' = "metrics" /\ \E cb \in todo : todo' = todo \ {cb}

\* publishMetrics or publishThreadPools cannot make its bytes: the error is logged,
\* and nobody gets this event.
PublishFails ==
    /\ loop = "publish"
    /\ todo # {}
    /\ Continue
    /\ UNCHANGED <<handlerVars, events, done, gone, loop, left>>

\* It has its bytes, and takes RLock.
WriteToRequests ==
    /\ loop = "publish"
    /\ todo # {}
    /\ loop' = "send"
    /\ left' = requests
    /\ UNCHANGED <<handlerVars, events, done, gone, todo, kind>>

\* Mutation: the send has no default case.
Offer_Blocks(c) ==
    /\ loop = "send"
    /\ c \in left
    /\ events[c] < BufferSize
    /\ events' = [events EXCEPT ![c] = @ + 1]
    /\ left' = left \ {c}
    /\ UNCHANGED <<handlerVars, done, gone, loop, todo, kind>>

\* Mutation: the event is kept for the client, however many are waiting.
Offer_Unbounded(c) ==
    /\ loop = "send"
    /\ c \in left
    /\ events' = [events EXCEPT ![c] = @ + 1]
    /\ left' = left \ {c}
    /\ UNCHANGED <<handlerVars, done, gone, loop, todo, kind>>

\* The event goes into the client's channel if there is room, and is dropped for
\* this client otherwise.
Offer(c) ==
    /\ loop = "send"
    /\ c \in left
    /\ events' = IF events[c] < BufferSize
                 THEN [events EXCEPT ![c] = @ + 1] ELSE events
    /\ left' = left \ {c}
    /\ UNCHANGED <<handlerVars, done, gone, loop, todo, kind>>

\* RUnlock.
Sent ==
    /\ loop = "send"
    /\ left = {}
    /\ loop' = "publish"
    /\ Continue
    /\ UNCHANGED <<handlerVars, events, done, gone, left>>

EndOfRound ==
    /\ loop = "publish"
    /\ todo = {}
    /\ loop' = "select"
    /\ UNCHANGED <<handlerVars, events, done, gone, todo, kind, left>>

Stop ==
    /\ ~done
    /\ done' = TRUE
    /\ UNCHANGED <<handlerVars, events, gone, loopVars>>

\* A second Stop closes a closed channel: its caller gets a panic, the handler is
\* as it was.
StopPanics ==
    /\ done
    /\ UNCHANGED vars

\* Mutation: a break that leaves only the select.
LoopReturns_Break ==
    /\ loop = "select"
    /\ done
    /\ UNCHANGED vars

LoopReturns ==
    /\ loop = "select"
    /\ done
    /\ loop' = "returned"
    /\ UNCHANGED <<handlerVars, events, done, gone, todo, kind, left>>

----------------------------------------------------------------------------
ServeHTTP(c) ==
    \/ Unsupported(c) \/ Enable(c) \/ Register(c) \/ Receive(c) \/ Leave(c)
    \/ Written(c) \/ WriteFails(c) \/ Unregister(c) \/ Disable(c)

Publish == WriteToRequests \/ PublishFails \/ (\E c \in Client : Offer(c)) \/ Sent \/ EndOfRound

Next ==
    \/ \E c \in Client : ServeHTTP(c) \/ Disconnect(c)
    \/ Tick \/ Publish \/ LoopReturns \/ Stop \/ StopPanics

Spec == Init /\ [][Next]_vars

\* The publisher is scheduled, and a handler whose client is gone.  A select with
\* several cases ready takes each of them now and then, and a Lock that waits
\* keeps new readers out, hence strong fairness there.  Nothing makes a connected
\* client read.
FairSpec ==
    /\ Spec
    /\ WF_vars(Publish)
    /\ SF_vars(LoopReturns)
    /\ \A c \in Client :
         /\ SF_vars(Leave(c))
         /\ SF_vars(Unregister(c))
         /\ WF_vars(gone[c] /\ WriteFails(c))
----------------------------------------------------------------------------
(* Properties                                                              *)

\* Every variable has its type; no client's channel holds more than its buffer,
\* and a client is in the map exactly while its handler serves it.
TypeOK ==
    /\ TimingEnabled \in BOOLEAN
    /\ pc \in [Client -> {"new", "register", "serve", "write", "unregister", "disable", "served"}]
    /\ events \in [Client -> 0..BufferSize]
    /\ \A c \in Client : c \in requests <=> pc[c] \in {"serve", "write", "unregister"}
    /\ loop \in {"select", "publish", "send", "returned"}
    /\ left \subseteq requests
    /\ todo \subseteq Circuits

\* Timings are on if the application wanted them or exactly one handler has
\* switched them on, which will switch them off; with the last handler gone the
\* flag is as it was before the first (eventstream.go:52-56).
FlagOwned ==
    /\ TimingEnabled <=> preset \/ \E c \in Client : owner[c]
    /\ \A c, d \in Client : owner[c] /\ owner[d] => c = d
    /\ \A c \in Client : owner[c] => ~preset /\ pc[c] \notin {"new", "served"}

\* "it should be detected as disconnected and de-registered"
\* (eventstream_test.go:253): a client that has gone is forgotten in the end,
\* whatever the other clients and the publisher do.
Deregistered == \A c \in Client : gone[c] /\ c \in requests ~> c \notin requests

\* A client that does not read never keeps the publisher from the others: every
\* round comes to its end (eventstream.go:192-200).
RoundsEnd == loop # "select" ~> loop \in {"select", "returned"}

\* "Stop shuts down the metric collection routine" (eventstream.go:37).
StopStops == done ~> loop = "returned"

\* "When StreamHandler is serving a request, this flag will temporailby be enabled
\* to capture timing metrics for the duration of the request"
\* (default_metric_collector.go:12-13).
TimingWhileServed ==
    \A c \in Client : pc[c] \in {"serve", "write"} => TimingEnabled
=============================================================================
