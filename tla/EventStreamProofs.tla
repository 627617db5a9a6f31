------------------------- MODULE EventStreamProofs -------------------------
(***************************************************************************)
(* TypeOK and FlagOwned of EventStream, for any clients, circuits and      *)
(* buffer size.                                                            *)
(***************************************************************************)
EXTENDS EventStream, TLAPS

\* The types TypeOK leaves out, and that the publisher has no clients left to
\* serve outside of its RLock section, which is why Unregister leaves TypeOK true.
LoopInv ==
    /\ preset \in BOOLEAN
    /\ owner \in [Client -> BOOLEAN]
    /\ loop # "send" => left = {}

\* The inductive invariant.
Inv == TypeOK /\ LoopInv /\ FlagOwned

\* Inv holds after Start.
LEMMA InitInv == Init => Inv
BY BufferAssumption DEF Init, Inv, TypeOK, LoopInv, FlagOwned

\* A step of a handler keeps the types.
LEMMA HandlerTypes ==
    ASSUME TypeOK, LoopInv, NEW c \in Client, ServeHTTP(c) PROVE TypeOK' /\ LoopInv'
<1>1. CASE Unsupported(c)
  BY <1>1 DEF Unsupported, Goto, TypeOK, LoopInv, loopVars
<1>2. CASE Enable(c)
  BY <1>2 DEF Enable, Goto, TypeOK, LoopInv, loopVars
<1>3. CASE Register(c)
  BY <1>3 DEF Register, Unlocked, Goto, TypeOK, LoopInv, loopVars
<1>4. CASE Receive(c)
  <2>1. events' \in [Client -> 0..BufferSize]
    BY <1>4, BufferAssumption DEF Receive, TypeOK
  <2> QED BY <1>4, <2>1 DEF Receive, Goto, TypeOK, LoopInv, loopVars
<1>5. CASE Leave(c)
  BY <1>5 DEF Leave, Goto, TypeOK, LoopInv, loopVars
<1>6. CASE Written(c)
  BY <1>6 DEF Written, Goto, TypeOK, LoopInv, loopVars
<1>7. CASE WriteFails(c)
  BY <1>7 DEF WriteFails, Goto, TypeOK, LoopInv, loopVars
<1>8. CASE Unregister(c)
  BY <1>8 DEF Unregister, Unlocked, Goto, TypeOK, LoopInv, loopVars
<1>9. CASE Disable(c)
  BY <1>9 DEF Disable, Goto, TypeOK, LoopInv, loopVars
<1> QED BY <1>1, <1>2, <1>3, <1>4, <1>5, <1>6, <1>7, <1>8, <1>9 DEF ServeHTTP

\* A step of the publisher, of Stop or of a client that disconnects keeps the types.
LEMMA LoopTypes ==
    ASSUME TypeOK, LoopInv,
           Tick \/ Publish \/ LoopReturns \/ Stop \/ StopPanics \/ \E c \in Client : Disconnect(c)
    PROVE  TypeOK' /\ LoopInv'
<1>1. CASE Tick
  BY <1>1 DEF Tick, TypeOK, LoopInv, handlerVars
<1>2. CASE WriteToRequests
  BY <1>2 DEF WriteToRequests, TypeOK, LoopInv, handlerVars
<1>3. ASSUME NEW c \in Client, Offer(c) PROVE TypeOK' /\ LoopInv'
  <2>1. events' \in [Client -> 0..BufferSize]
    BY <1>3, BufferAssumption DEF Offer, TypeOK
  <2> QED BY <1>3, <2>1 DEF Offer, TypeOK, LoopInv, handlerVars
<1>4. CASE Sent
  BY <1>4 DEF Sent, Continue, TypeOK, LoopInv, handlerVars
<1>5. CASE EndOfRound
  BY <1>5 DEF EndOfRound, TypeOK, LoopInv, handlerVars
<1>6. CASE LoopReturns
  BY <1>6 DEF LoopReturns, TypeOK, LoopInv, handlerVars
<1>7. CASE Stop
  BY <1>7 DEF Stop, TypeOK, LoopInv, handlerVars, loopVars
<1>8. ASSUME NEW c \in Client, Disconnect(c) PROVE TypeOK' /\ LoopInv'
  BY <1>8 DEF Disconnect, TypeOK, LoopInv, handlerVars, loopVars
<1>9. CASE PublishFails
  BY <1>9 DEF PublishFails, Continue, TypeOK, LoopInv, handlerVars
<1>10. CASE StopPanics
  BY <1>10 DEF StopPanics, TypeOK, LoopInv, vars, handlerVars, loopVars
<1> QED BY <1>1, <1>2, <1>3, <1>4, <1>5, <1>6, <1>7, <1>8, <1>9, <1>10 DEF Publish

\* Only Enable and Disable touch the flag: the winner of the CompareAndSwap becomes
\* its only owner, and an owner that leaves knows that nobody else is one.
LEMMA FlagStep ==
    ASSUME TypeOK, LoopInv, FlagOwned, [Next]_vars PROVE FlagOwned'
<1>1. ASSUME NEW c \in Client, Enable(c) PROVE FlagOwned'
  <2>1. CASE TimingEnabled
    <3>1. owner' = owner
      BY <1>1, <2>1, ~owner[c] DEF Enable, LoopInv, Goto, FlagOwned
    <3> QED BY <1>1, <2>1, <3>1 DEF Enable, Goto, FlagOwned, TypeOK, LoopInv
  <2>2. CASE ~TimingEnabled
    <3>1. ~preset /\ \A d \in Client : ~owner[d]
      BY <2>2 DEF FlagOwned
    <3>2. owner' = [owner EXCEPT ![c] = TRUE]
      BY <1>1, <2>2 DEF Enable
    <3>3. owner'[c] /\ \A d \in Client : owner'[d] => d = c
      BY <3>1, <3>2 DEF LoopInv
    <3> QED BY <1>1, <3>1, <3>3 DEF Enable, Goto, FlagOwned, TypeOK
  <2> QED BY <2>1, <2>2
<1>2. ASSUME NEW c \in Client, Disable(c) PROVE FlagOwned'
  <2>1. CASE owner[c]
    <3>1. ~preset /\ \A d \in Client : ~owner'[d]
      BY <1>2, <2>1 DEF Disable, FlagOwned, LoopInv
    <3> QED BY <1>2, <2>1, <3>1 DEF Disable, FlagOwned
  <2>2. CASE ~owner[c]
    <3>1. owner' = owner
      BY <1>2, <2>2 DEF Disable, LoopInv
    <3> QED BY <1>2, <2>2, <3>1 DEF Disable, Goto, FlagOwned, TypeOK
  <2> QED BY <2>1, <2>2
<1>3. ASSUME UNCHANGED <<TimingEnabled, preset, owner>>,
             NEW c \in Client, pc[c] \notin {"new", "served"} \/ ~owner[c],
             \A d \in Client \ {c} : pc'[d] = pc[d], pc'[c] # "new",
             pc'[c] = "served" => ~owner[c]
      PROVE FlagOwned'
  BY <1>3 DEF FlagOwned
<1>4. ASSUME NEW c \in Client,
             Unsupported(c) \/ Register(c) \/ Receive(c) \/ Leave(c) \/ Written(c)
             \/ WriteFails(c) \/ Unregister(c)
      PROVE FlagOwned'
  <2>1. UNCHANGED <<TimingEnabled, preset, owner>>
    BY <1>4 DEF Unsupported, Register, Receive, Leave, Written, WriteFails, Unregister
  <2>2. /\ \A d \in Client \ {c} : pc'[d] = pc[d]
        /\ pc'[c] # "new"
        /\ pc'[c] = "served" => pc[c] = "new"
    BY <1>4 DEF Unsupported, Register, Receive, Leave, Written, WriteFails, Unregister,
                Goto, TypeOK
  <2> QED BY <1>3, <2>1, <2>2 DEF FlagOwned
<1>5. ASSUME UNCHANGED handlerVars PROVE FlagOwned'
  BY <1>5 DEF handlerVars, FlagOwned
<1>6. ASSUME (\E c \in Client : Disconnect(c)) \/ Tick \/ Publish \/ LoopReturns \/ Stop
             \/ StopPanics \/ UNCHANGED vars
      PROVE UNCHANGED handlerVars
  BY <1>6 DEF Disconnect, Tick, Publish, WriteToRequests, PublishFails, Offer, Sent,
              EndOfRound, LoopReturns, Stop, StopPanics, vars
<1> QED BY <1>1, <1>2, <1>4, <1>5, <1>6 DEF Next, ServeHTTP

\* Every step keeps the invariant.
LEMMA StepInv == Inv /\ [Next]_vars => Inv'
<1> SUFFICES ASSUME Inv, [Next]_vars PROVE Inv'
  OBVIOUS
<1>1. CASE UNCHANGED vars
  BY <1>1 DEF Inv, TypeOK, LoopInv, FlagOwned, vars, handlerVars, loopVars
<1>2. CASE Next
  <2>1. TypeOK' /\ LoopInv'
    BY <1>2, HandlerTypes, LoopTypes DEF Next, Inv
  <2> QED BY <2>1, FlagStep DEF Inv
<1> QED BY <1>1, <1>2

\* The type invariant of EventStream: a channel never holds more than its buffer,
\* the map of clients is exactly those being served, and the publisher only offers
\* to clients that are in the map (eventstream.go:192-224).
THEOREM StreamTypes == Spec => []TypeOK
BY InitInv, StepInv, PTL DEF Spec, Inv

\* However many clients come and go, the timing flag has one owner that will put it
\* back, or was set by the application and stays (eventstream.go:52-56).
THEOREM FlagRestored == Spec => []FlagOwned
BY InitInv, StepInv, PTL DEF Spec, Inv
=============================================================================
