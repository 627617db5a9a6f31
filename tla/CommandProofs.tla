--------------------------- MODULE CommandProofs ---------------------------
(***************************************************************************)
(* Proofs about module Command, for every set of calls, every Max and any  *)
(* number of channels and timers.                                          *)
(***************************************************************************)
EXTENDS Command, FiniteSetTheorems, TLAPS

----------------------------------------------------------------------------
(* The strengthening that makes the properties inductive.                  *)

\* Which locals of a call are set at which place of DoC.
ControlInv ==
    \A c \in Cmd :
        /\ pc[c] \in {"idle", "ticket", "launch"} => runChan[c] = None
        /\ pc[c] \in {"idle", "ticket", "launch", "arm"} => timer[c] = None
        /\ pc[c] = "arm" => runChan[c] # None
        /\ pc[c] = "select" => runChan[c] # None /\ timer[c] # None
        /\ pc[c] \in {"idle", "ticket", "launch", "arm", "select"} => arm[c] = "none"
        /\ pc[c] \in {"count", "put"} => arm[c] # "none"
        /\ pc[c] = "release" => arm[c] = "run"
        /\ arm[c] # "none" => runChan[c] # None /\ timer[c] # None
        /\ arm[c] = "none" /\ pc[c] \in {"report", "unwind", "done"} =>
             runChan[c] = None /\ timer[c] = None
        /\ runner[c] = "none" <=> runChan[c] = None
        /\ runChan[c] \in chanMade \cup {None}
        /\ timer[c] \in timerMade \cup {None}

\* A call owns its channel from AcquireSingleErrorChan until it gives it back;
\* the channel of a call that did not take the runChan case is never given back.
Owns(c) ==
    /\ runChan[c] # None
    /\ ~(arm[c] = "run" /\ pc[c] \in {"report", "unwind", "done"})

\* Channels have one owner, which is the only one to send on them and the only
\* one to receive from them.
ChanInv ==
    /\ \A c, d \in Cmd : Owns(c) /\ Owns(d) /\ runChan[c] = runChan[d] => c = d
    /\ \A c \in Cmd : Owns(c) => runChan[c] \notin chanPool
    /\ \A h \in Chan : buf[h] # None =>
         /\ Owns(buf[h].from)
         /\ runChan[buf[h].from] = h
         /\ runner[buf[h].from] = "done"
         /\ arm[buf[h].from] # "run"
         /\ buf[h].err = ret[buf[h].from]
    /\ \A c \in Cmd : arm[c] = "run" => runner[c] = "done"

\* Timers have one owner, and only owned timers run.
TimerInv ==
    /\ \A c, d \in Cmd :
         timer[c] = timer[d] /\ timer[c] # None /\ pc[c] # "done" /\ pc[d] # "done" => c = d
    /\ \A c \in Cmd : timer[c] # None /\ pc[c] # "done" => timer[c] \notin timerPool
    /\ \A t \in timerPool : clock[t] = "stopped"

\* What a call carries from the moment its fate is decided: the error of its
\* refusal or of the case it took, and then an event that agrees with it.
CtxShape(c) == ctx[c] = {} \/ ctx[c] = {"canceled"} \/ ctx[c] = {"deadline exceeded"}

Decided(c) ==
    pc[c] \in {"count", "put", "release", "report"} =>
        /\ arm[c] = "run" => err[c] = ret[c]
        /\ arm[c] = "timer" => err[c] = {"timeout"}
        /\ arm[c] = "ctx" => err[c] = ctx[c] /\ ctx[c] # {}
        /\ arm[c] = "none" => err[c] = {"circuit open"} \/ err[c] = {"max concurrency"}

Reported(c) ==
    pc[c] \in {"unwind", "done"} =>
        /\ err[c] = {} <=> \/ event[c].primary = "success"
                           \/ event[c].secondary = "fallback-success"
        /\ event[c].primary = "success" <=> arm[c] = "run" /\ ret[c] = {}
        /\ arm[c] = "timer" => event[c].primary = "timeout"
        /\ arm[c] = "ctx" => event[c].primary \in {"context_canceled", "context_deadline_exceeded"}

OutcomeInv == \A c \in Cmd : CtxShape(c) /\ Decided(c) /\ Reported(c)

----------------------------------------------------------------------------
LEMMA InitTyped == Init => TypeOK /\ ControlInv
BY MaxAssumption DEF Init, TypeOK, CallTypes, ErrorTypes, EventTypes, TicketTypes, ChanTypes,
     TimerTypes, ControlInv, Location, Error, Cause

LEMMA StepCallTypes == TypeOK /\ ControlInv /\ [Next]_vars => CallTypes'
<1> SUFFICES ASSUME TypeOK, ControlInv, [Next]_vars PROVE CallTypes'
  OBVIOUS
<1> USE DEF TypeOK, CallTypes, Location, Goto, cmdVars, ticketVars, chanVars, runVars,
    timerVars
<1>1. ASSUME NEW c \in Cmd, Allowed(c) PROVE CallTypes'
  BY <1>1 DEF Allowed
<1>2. ASSUME NEW c \in Cmd, ShortCircuited(c) PROVE CallTypes'
  BY <1>2 DEF ShortCircuited
<1>3. ASSUME NEW c \in Cmd, TakeTicket(c) PROVE CallTypes'
  BY <1>3 DEF TakeTicket
<1>4. ASSUME NEW c \in Cmd, Reject(c) PROVE CallTypes'
  BY <1>4 DEF Reject
<1>5. ASSUME NEW c \in Cmd, Launch(c) PROVE CallTypes'
  BY <1>5 DEF Launch, AcquireSingleErrorChan
<1>6. ASSUME NEW c \in Cmd, ArmTimer(c) PROVE CallTypes'
  BY <1>6 DEF ArmTimer, AcquireTimer
<1>7. ASSUME NEW c \in Cmd, RecvRunErr(c) PROVE CallTypes'
  BY <1>7 DEF RecvRunErr
<1>8. ASSUME NEW c \in Cmd, RecvDone(c) PROVE CallTypes'
  BY <1>8 DEF RecvDone
<1>9. ASSUME NEW c \in Cmd, RecvTimer(c) PROVE CallTypes'
  BY <1>9 DEF RecvTimer
<1>10. ASSUME NEW c \in Cmd, ReturnCount(c) PROVE CallTypes'
  BY <1>10 DEF ReturnCount
<1>11. ASSUME NEW c \in Cmd, ReturnPut(c) PROVE CallTypes'
  BY <1>11 DEF ReturnPut
<1>12. ASSUME NEW c \in Cmd, ReleaseChan(c) PROVE CallTypes'
  BY <1>12 DEF ReleaseChan, ReleaseSingleErrorChan
<1>13. ASSUME NEW c \in Cmd, Succeed(c) PROVE CallTypes'
  BY <1>13 DEF Succeed
<1>14. ASSUME NEW c \in Cmd, ErrorWithFallback(c) PROVE CallTypes'
  BY <1>14 DEF ErrorWithFallback
<1>15. ASSUME NEW c \in Cmd, Finish(c) PROVE CallTypes'
  BY <1>15 DEF Finish, ReleaseTimer
<1>16. ASSUME NEW c \in Cmd, RunReturns(c) PROVE CallTypes'
  BY <1>16 DEF RunReturns
<1>17. ASSUME NEW c \in Cmd, RunSends(c) PROVE CallTypes'
  BY <1>17 DEF RunSends
<1>18. CASE UNCHANGED <<cmdVars, runVars>>
  BY <1>18
<1> QED
  BY <1>1, <1>2, <1>3, <1>4, <1>5, <1>6, <1>7, <1>8, <1>9, <1>10, <1>11, <1>12, <1>13,
     <1>14, <1>15, <1>16, <1>17, <1>18 DEF Next, Call, Terminated, vars, CtxEnds,
     TimerExpires

LEMMA StepErrorTypes == TypeOK /\ ControlInv /\ [Next]_vars => ErrorTypes'
<1> SUFFICES ASSUME TypeOK, ControlInv, [Next]_vars PROVE ErrorTypes'
  OBVIOUS
<1> USE ErrsAssumption DEF TypeOK, ErrorTypes, Goto, cmdVars, ticketVars, chanVars, runVars,
    timerVars
<1>1. ASSUME NEW c \in Cmd, ShortCircuited(c) PROVE ErrorTypes'
  BY <1>1 DEF ShortCircuited, Error, Cause
<1>2. ASSUME NEW c \in Cmd, Reject(c) PROVE ErrorTypes'
  BY <1>2 DEF Reject, Error, Cause
<1>3. ASSUME NEW c \in Cmd, RecvRunErr(c) PROVE ErrorTypes'
  BY <1>3 DEF RecvRunErr, ChanTypes, CallTypes, ControlInv
<1>4. ASSUME NEW c \in Cmd, RecvDone(c) PROVE ErrorTypes'
  BY <1>4 DEF RecvDone
<1>5. ASSUME NEW c \in Cmd, RecvTimer(c) PROVE ErrorTypes'
  BY <1>5 DEF RecvTimer, Error, Cause
<1>6. ASSUME NEW c \in Cmd, ErrorWithFallback(c) PROVE ErrorTypes'
  BY <1>6 DEF ErrorWithFallback, Error
<1>7. ASSUME NEW c \in Cmd, RunReturns(c) PROVE ErrorTypes'
  BY <1>7 DEF RunReturns
<1>8. ASSUME NEW c \in Cmd, CtxEnds(c) PROVE ErrorTypes'
  <2>1. PICK e \in {{"canceled"}, {"deadline exceeded"}} : ctx' = [ctx EXCEPT ![c] = e]
    BY <1>8 DEF CtxEnds
  <2>2. e \in Error
    BY DEF Error, Cause
  <2> QED
    BY <1>8, <2>1, <2>2 DEF CtxEnds
<1>9. CASE UNCHANGED <<err, ret, ctx>>
  BY <1>9
<1> QED
  BY <1>1, <1>2, <1>3, <1>4, <1>5, <1>6, <1>7, <1>8, <1>9 DEF Next, Call, Terminated, vars,
     Allowed, TakeTicket, Launch, ArmTimer, ReturnCount, ReturnPut, ReleaseChan, Succeed,
     Finish, RunSends, TimerExpires, AcquireSingleErrorChan, AcquireTimer,
     ReleaseSingleErrorChan, ReleaseTimer

\* The switch of errorWithFallback always ends in one of its events.
LEMMA PrimaryEventType ==
    ASSUME NEW e, NEW x
    PROVE  PrimaryEvent(e, x) \in {"short-circuit", "rejected", "timeout", "context_canceled",
                                   "context_deadline_exceeded", "failure"}
BY DEF PrimaryEvent

LEMMA StepEventTypes == TypeOK /\ ControlInv /\ [Next]_vars => EventTypes'
<1> SUFFICES ASSUME TypeOK, ControlInv, [Next]_vars PROVE EventTypes'
  OBVIOUS
<1> USE DEF TypeOK, EventTypes, Goto, cmdVars, ticketVars, chanVars, runVars, timerVars
<1>1. ASSUME NEW c \in Cmd, Succeed(c) PROVE EventTypes'
  BY <1>1 DEF Succeed, Events
<1>2. ASSUME NEW c \in Cmd, ErrorWithFallback(c) PROVE EventTypes'
  <2>1. PICK v \in Events : event' = [event EXCEPT ![c] = v]
    BY <1>2, PrimaryEventType DEF ErrorWithFallback, Events
  <2> QED
    BY <2>1
<1>3. CASE UNCHANGED event
  BY <1>3
<1> QED
  BY <1>1, <1>2, <1>3 DEF Next, Call, Terminated, vars, Allowed, ShortCircuited, TakeTicket,
     Reject, Launch, ArmTimer, RecvRunErr, RecvDone, RecvTimer, ReturnCount, ReturnPut,
     ReleaseChan, Finish, RunReturns, RunSends, CtxEnds, TimerExpires,
     AcquireSingleErrorChan, AcquireTimer, ReleaseSingleErrorChan, ReleaseTimer

LEMMA StepTicketTypes == TypeOK /\ ControlInv /\ [Next]_vars => TicketTypes'
<1> SUFFICES ASSUME TypeOK, ControlInv, [Next]_vars PROVE TicketTypes'
  OBVIOUS
<1> USE MaxAssumption DEF TypeOK, TicketTypes, Goto, cmdVars, ticketVars, chanVars, runVars,
    timerVars
<1>1. ASSUME NEW c \in Cmd, TakeTicket(c) PROVE TicketTypes'
  BY <1>1 DEF TakeTicket
<1>2. ASSUME NEW c \in Cmd, ReturnCount(c) PROVE TicketTypes'
  BY <1>2 DEF ReturnCount, ActiveCount
<1>3. ASSUME NEW c \in Cmd, ReturnPut(c) PROVE TicketTypes'
  BY <1>3 DEF ReturnPut
<1>4. CASE UNCHANGED ticketVars
  BY <1>4
<1> QED
  BY <1>1, <1>2, <1>3, <1>4 DEF Next, Call, Terminated, vars, Allowed, ShortCircuited,
     Reject, Launch, ArmTimer, RecvRunErr, RecvDone, RecvTimer, ReleaseChan, Succeed,
     ErrorWithFallback, Finish, RunReturns, RunSends, CtxEnds, TimerExpires,
     AcquireSingleErrorChan, AcquireTimer, ReleaseSingleErrorChan, ReleaseTimer

LEMMA StepChanTypes == TypeOK /\ ControlInv /\ [Next]_vars => ChanTypes'
<1> SUFFICES ASSUME TypeOK, ControlInv, [Next]_vars PROVE ChanTypes'
  OBVIOUS
<1> USE NoneAssumption DEF TypeOK, ChanTypes, Goto, cmdVars, ticketVars, chanVars, runVars,
    timerVars
<1>1. ASSUME NEW c \in Cmd, Launch(c) PROVE ChanTypes'
  BY <1>1 DEF Launch, AcquireSingleErrorChan
<1>2. ASSUME NEW c \in Cmd, RecvRunErr(c) PROVE ChanTypes'
  BY <1>2 DEF RecvRunErr
<1>3. ASSUME NEW c \in Cmd, ReleaseChan(c) PROVE ChanTypes'
  BY <1>3 DEF ReleaseChan, ReleaseSingleErrorChan, ControlInv
<1>4. ASSUME NEW c \in Cmd, RunSends(c) PROVE ChanTypes'
  BY <1>4 DEF RunSends, ControlInv, ErrorTypes
<1>5. CASE UNCHANGED chanVars
  BY <1>5
<1> QED
  BY <1>1, <1>2, <1>3, <1>4, <1>5 DEF Next, Call, Terminated, vars, Allowed, ShortCircuited,
     TakeTicket, Reject, ArmTimer, RecvDone, RecvTimer, ReturnCount, ReturnPut, Succeed,
     ErrorWithFallback, Finish, RunReturns, CtxEnds, TimerExpires, AcquireTimer,
     ReleaseTimer

LEMMA StepTimerTypes == TypeOK /\ ControlInv /\ [Next]_vars => TimerTypes'
<1> SUFFICES ASSUME TypeOK, ControlInv, [Next]_vars PROVE TimerTypes'
  OBVIOUS
<1> USE NoneAssumption DEF TypeOK, TimerTypes, Goto, cmdVars, ticketVars, chanVars, runVars,
    timerVars
<1>1. ASSUME NEW c \in Cmd, ArmTimer(c) PROVE TimerTypes'
  BY <1>1 DEF ArmTimer, AcquireTimer
<1>2. ASSUME NEW c \in Cmd, RecvTimer(c) PROVE TimerTypes'
  BY <1>2 DEF RecvTimer
<1>3. ASSUME NEW c \in Cmd, Finish(c) PROVE TimerTypes'
  BY <1>3 DEF Finish, ReleaseTimer, ControlInv
<1>4. ASSUME NEW t \in Timer, TimerExpires(t) PROVE TimerTypes'
  BY <1>4 DEF TimerExpires
<1>5. CASE UNCHANGED timerVars
  BY <1>5
<1> QED
  BY <1>1, <1>2, <1>3, <1>4, <1>5 DEF Next, Call, Terminated, vars, Allowed, ShortCircuited,
     TakeTicket, Reject, Launch, RecvRunErr, RecvDone, ReturnCount, ReturnPut, ReleaseChan,
     Succeed, ErrorWithFallback, RunReturns, RunSends, CtxEnds, AcquireSingleErrorChan,
     ReleaseSingleErrorChan

LEMMA StepControl == TypeOK /\ ControlInv /\ [Next]_vars => ControlInv'
<1> SUFFICES ASSUME TypeOK, ControlInv, [Next]_vars PROVE ControlInv'
  OBVIOUS
<1> USE NoneAssumption DEF TypeOK, CallTypes, ChanTypes, TimerTypes, ControlInv, Goto,
    cmdVars, ticketVars, chanVars, runVars, timerVars
<1>1. ASSUME NEW c \in Cmd, Allowed(c) PROVE ControlInv'
  BY <1>1 DEF Allowed
<1>2. ASSUME NEW c \in Cmd, ShortCircuited(c) PROVE ControlInv'
  BY <1>2 DEF ShortCircuited
<1>3. ASSUME NEW c \in Cmd, TakeTicket(c) PROVE ControlInv'
  BY <1>3 DEF TakeTicket
<1>4. ASSUME NEW c \in Cmd, Reject(c) PROVE ControlInv'
  BY <1>4 DEF Reject
<1>5. ASSUME NEW c \in Cmd, Launch(c) PROVE ControlInv'
  BY <1>5 DEF Launch, AcquireSingleErrorChan
<1>6. ASSUME NEW c \in Cmd, ArmTimer(c) PROVE ControlInv'
  BY <1>6 DEF ArmTimer, AcquireTimer
<1>7. ASSUME NEW c \in Cmd, RecvRunErr(c) PROVE ControlInv'
  BY <1>7 DEF RecvRunErr
<1>8. ASSUME NEW c \in Cmd, RecvDone(c) PROVE ControlInv'
  BY <1>8 DEF RecvDone
<1>9. ASSUME NEW c \in Cmd, RecvTimer(c) PROVE ControlInv'
  BY <1>9 DEF RecvTimer
<1>10. ASSUME NEW c \in Cmd, ReturnCount(c) PROVE ControlInv'
  BY <1>10 DEF ReturnCount
<1>11. ASSUME NEW c \in Cmd, ReturnPut(c) PROVE ControlInv'
  BY <1>11 DEF ReturnPut
<1>12. ASSUME NEW c \in Cmd, ReleaseChan(c) PROVE ControlInv'
  BY <1>12 DEF ReleaseChan, ReleaseSingleErrorChan
<1>13. ASSUME NEW c \in Cmd, Succeed(c) PROVE ControlInv'
  BY <1>13 DEF Succeed
<1>14. ASSUME NEW c \in Cmd, ErrorWithFallback(c) PROVE ControlInv'
  BY <1>14 DEF ErrorWithFallback
<1>15. ASSUME NEW c \in Cmd, Finish(c) PROVE ControlInv'
  BY <1>15 DEF Finish, ReleaseTimer
<1>16. ASSUME NEW c \in Cmd, RunReturns(c) PROVE ControlInv'
  BY <1>16 DEF RunReturns
<1>17. ASSUME NEW c \in Cmd, RunSends(c) PROVE ControlInv'
  BY <1>17 DEF RunSends
<1>18. CASE UNCHANGED <<cmdVars, runVars, runChan, chanMade, timer, timerMade>>
  BY <1>18
<1> QED
  BY <1>1, <1>2, <1>3, <1>4, <1>5, <1>6, <1>7, <1>8, <1>9, <1>10, <1>11, <1>12, <1>13,
     <1>14, <1>15, <1>16, <1>17, <1>18 DEF Next, Call, Terminated, vars, CtxEnds,
     TimerExpires

\* Every variable keeps its type and the counters their ranges, whatever the
\* order of the calls' steps: tickets never leaves 0..Max (pool.go:17-51).
THEOREM Typing == Spec => [](TypeOK /\ ControlInv)
<1>1. TypeOK /\ ControlInv /\ [Next]_vars => TypeOK' /\ ControlInv'
  BY StepCallTypes, StepErrorTypes, StepEventTypes, StepTicketTypes, StepChanTypes,
     StepTimerTypes, StepControl DEF TypeOK
<1> QED
  BY <1>1, InitTyped, PTL DEF Spec

\* In particular, no counter of the pool leaves its range (pool.go:17-51).
THEOREM TypesKept == Spec => []TypeOK
BY Typing, PTL

----------------------------------------------------------------------------
(* Tickets.                                                                *)

LEMMA InitTickets == Init => TicketConservation
<1> SUFFICES ASSUME Init PROVE TicketConservation
  OBVIOUS
<1>1. Holders = {}
  BY DEF Init, Holders
<1> QED
  BY <1>1, FS_EmptySet, MaxAssumption DEF Init, TicketConservation

\* Taking a ticket adds one holder and putting it back removes it; no other step
\* moves a call into or out of the part of DoC where a ticket is held.
LEMMA StepTickets == TypeOK /\ TicketConservation /\ [Next]_vars => TicketConservation'
<1> SUFFICES ASSUME TypeOK, TicketConservation, [Next]_vars PROVE TicketConservation'
  OBVIOUS
<1> USE DEF TypeOK, CallTypes, TicketTypes, Holders, Goto
<1>1. ASSUME NEW c \in Cmd, TakeTicket(c) PROVE TicketConservation'
  <2>1. Holders' = Holders \cup {c} /\ c \notin Holders
    BY <1>1 DEF TakeTicket
  <2>2. IsFiniteSet(Holders') /\ Cardinality(Holders') = Cardinality(Holders) + 1
    <3>1. PICK H, G : H = Holders /\ G = Holders' /\ IsFiniteSet(H) /\ c \notin H /\ G = H \cup {c}
      BY <2>1 DEF TicketConservation
    <3>2. IsFiniteSet(G) /\ Cardinality(G) = Cardinality(H) + 1
      BY ONLY <3>1, FS_AddElement
    <3> QED
      BY ONLY <3>1, <3>2
  <2>3. tickets' = tickets - 1 /\ Cardinality(Holders) \in Nat
    BY <1>1, FS_CardinalityType DEF TakeTicket, TicketConservation
  <2> QED
    BY <2>2, <2>3, MaxAssumption DEF TicketConservation
<1>2. ASSUME NEW c \in Cmd, ReturnPut(c) PROVE TicketConservation'
  <2>1. Holders' = Holders \ {c} /\ c \in Holders
    BY <1>2 DEF ReturnPut
  <2>2. IsFiniteSet(Holders') /\ Cardinality(Holders') = Cardinality(Holders) - 1
    <3>1. PICK H, G : H = Holders /\ G = Holders' /\ IsFiniteSet(H) /\ c \in H /\ G = H \ {c}
      BY <2>1 DEF TicketConservation
    <3>2. IsFiniteSet(G) /\ Cardinality(G) = Cardinality(H) - 1
      BY ONLY <3>1, FS_RemoveElement
    <3> QED
      BY ONLY <3>1, <3>2
  <2>3. tickets' = tickets + 1 /\ Cardinality(Holders) \in Nat
    BY <1>2, FS_CardinalityType DEF ReturnPut, TicketConservation
  <2> QED
    BY <2>2, <2>3, MaxAssumption DEF TicketConservation
<1>3. CASE Holders' = Holders /\ tickets' = tickets
  BY <1>3 DEF TicketConservation
<1>4. ASSUME NEW c \in Cmd,
             \/ Allowed(c) \/ ShortCircuited(c) \/ Reject(c) \/ Launch(c) \/ ArmTimer(c)
             \/ RecvRunErr(c) \/ RecvDone(c) \/ RecvTimer(c) \/ ReturnCount(c)
             \/ ReleaseChan(c) \/ Succeed(c) \/ ErrorWithFallback(c) \/ Finish(c)
             \/ RunReturns(c) \/ RunSends(c) \/ CtxEnds(c)
      PROVE  Holders' = Holders /\ tickets' = tickets
  BY <1>4 DEF Allowed, ShortCircuited, Reject, Launch, ArmTimer, RecvRunErr, RecvDone, RecvTimer,
     ReturnCount, ReleaseChan, Succeed, ErrorWithFallback, Finish, RunReturns, RunSends, CtxEnds,
     cmdVars, ticketVars
<1>5. ASSUME (\E t \in Timer : TimerExpires(t)) \/ Terminated \/ UNCHANGED vars
      PROVE  Holders' = Holders /\ tickets' = tickets
  BY <1>5 DEF TimerExpires, Terminated, vars, cmdVars, ticketVars
<1> QED
  BY <1>1, <1>2, <1>3, <1>4, <1>5 DEF Next, Call

\* No path through DoC loses or forges a ticket (hystrix.go:124-160, pool.go:33-42),
\* for any number of calls and any Max.
THEOREM TicketsConserved == Spec => []TicketConservation
BY Typing, InitTickets, StepTickets, PTL DEF Spec
----------------------------------------------------------------------------
(* Result channels.                                                        *)

LEMMA InitChan == Init => ChanInv
BY DEF Init, ChanInv, Owns

LEMMA StepChan == TypeOK /\ ControlInv /\ ChanInv /\ [Next]_vars => ChanInv'
<1> SUFFICES ASSUME TypeOK, ControlInv, ChanInv, [Next]_vars PROVE ChanInv'
  OBVIOUS
<1> USE NoneAssumption DEF TypeOK, CallTypes, ChanTypes, ControlInv, ChanInv, Owns, Goto,
    cmdVars, chanVars, runVars
<1>1. ASSUME NEW c \in Cmd, Launch(c) PROVE ChanInv'
  BY <1>1 DEF Launch, AcquireSingleErrorChan
<1>2. ASSUME NEW c \in Cmd, RecvRunErr(c) PROVE ChanInv'
  BY <1>2 DEF RecvRunErr
<1>3. ASSUME NEW c \in Cmd, ReleaseChan(c) PROVE ChanInv'
  BY <1>3 DEF ReleaseChan, ReleaseSingleErrorChan
<1>4. ASSUME NEW c \in Cmd, RunReturns(c) PROVE ChanInv'
  BY <1>4 DEF RunReturns
<1>5. ASSUME NEW c \in Cmd, RunSends(c) PROVE ChanInv'
  BY <1>5 DEF RunSends
<1>6. ASSUME NEW c \in Cmd, RecvDone(c) \/ RecvTimer(c) PROVE ChanInv'
  BY <1>6 DEF RecvDone, RecvTimer
<1>7. ASSUME NEW c \in Cmd,
             Allowed(c) \/ ShortCircuited(c) \/ TakeTicket(c) \/ Reject(c) \/ ArmTimer(c) \/ ReturnCount(c)
      PROVE  ChanInv'
  <2>1. UNCHANGED <<arm, chanVars, runVars>>
    BY <1>7 DEF Allowed, ShortCircuited, TakeTicket, Reject, ArmTimer, ReturnCount
  <2>2. /\ pc[c] \in {"idle", "ticket", "arm", "count"}
        /\ \E l \in {"ticket", "report", "launch", "select", "put"} : pc' = [pc EXCEPT ![c] = l]
        /\ arm[c] = "none" \/ pc' = [pc EXCEPT ![c] = "put"]
    BY <1>7 DEF Allowed, ShortCircuited, TakeTicket, Reject, ArmTimer, ReturnCount
  <2> QED
    BY <2>1, <2>2
<1>8. ASSUME NEW c \in Cmd, ReturnPut(c) PROVE ChanInv'
  BY <1>8 DEF ReturnPut
<1>9. ASSUME NEW c \in Cmd, Succeed(c) \/ ErrorWithFallback(c) \/ Finish(c) PROVE ChanInv'
  <2>1. UNCHANGED <<arm, chanVars, runVars>>
    BY <1>9 DEF Succeed, ErrorWithFallback, Finish
  <2>2. /\ pc[c] \in {"report", "unwind"}
        /\ \E l \in {"unwind", "done"} : pc' = [pc EXCEPT ![c] = l]
    BY <1>9 DEF Succeed, ErrorWithFallback, Finish
  <2> QED
    BY <2>1, <2>2
<1>10. CASE UNCHANGED <<cmdVars, chanVars, runVars>>
  BY <1>10
<1> QED
  BY <1>1, <1>2, <1>3, <1>4, <1>5, <1>6, <1>7, <1>8, <1>9, <1>10
     DEF Next, Call, CtxEnds, TimerExpires, Terminated, vars
LEMMA ChanSafe == TypeOK /\ ControlInv /\ ChanInv => SendNeverBlocks /\ PooledChanIsQuiet
<1> SUFFICES ASSUME TypeOK, ControlInv, ChanInv PROVE SendNeverBlocks /\ PooledChanIsQuiet
  OBVIOUS
<1> USE NoneAssumption DEF TypeOK, CallTypes, ChanTypes, ControlInv, ChanInv, Owns
<1>1. SendNeverBlocks
  BY DEF SendNeverBlocks
<1>2. PooledChanIsQuiet
  BY DEF PooledChanIsQuiet
<1> QED
  BY <1>1, <1>2

\* Reusing result channels is safe (hystrix.go:132-145): the send of a run
\* function's goroutine never blocks, and a pooled channel is empty and will
\* stay so until it is acquired.
THEOREM ChannelsIsolated == Spec => [](SendNeverBlocks /\ PooledChanIsQuiet)
BY Typing, InitChan, StepChan, ChanSafe, PTL DEF Spec

----------------------------------------------------------------------------
(* Run functions that outlive their call.                                  *)

\* A run function that is running belongs to a call that holds a ticket, unless the
\* call took the case of the context or of the timer and has put its ticket back.
LEMMA RunningHolds ==
    TypeOK /\ ControlInv /\ ChanInv => {c \in Cmd : runner[c] = "running"} \ Abandoned \subseteq Holders
<1> SUFFICES ASSUME TypeOK, ControlInv, ChanInv, NEW c \in Cmd, runner[c] = "running",
                    c \notin Abandoned
             PROVE  c \in Holders
  OBVIOUS
<1>1. arm[c] # "run"
  BY DEF ChanInv
<1>2. CASE arm[c] = "none"
  <2>1. pc[c] \in {"arm", "select"}
    BY <1>2 DEF ControlInv, TypeOK, CallTypes, Location
  <2> QED
    BY <2>1 DEF Holders
<1>3. CASE arm[c] \in {"ctx", "timer"}
  BY <1>3 DEF Abandoned
<1> QED
  BY <1>1, <1>2, <1>3 DEF TypeOK, CallTypes

LEMMA OverrunSafe ==
    TypeOK /\ ControlInv /\ ChanInv /\ TicketConservation => OverrunOnlyAbandoned
<1> SUFFICES ASSUME TypeOK, ControlInv, ChanInv, TicketConservation
             PROVE  OverrunOnlyAbandoned
  OBVIOUS
<1> DEFINE R == {c \in Cmd : runner[c] = "running"} \ Abandoned
<1>1. R \subseteq Holders
  BY RunningHolds
<1> HIDE DEF R
<1>2. Cardinality(R) <= Cardinality(Holders)
  BY <1>1, FS_Subset DEF TicketConservation
<1>3. Cardinality(R) \in Nat /\ Cardinality(Holders) \in Nat
  BY <1>1, FS_Subset, FS_CardinalityType DEF TicketConservation
<1>4. tickets \in Nat /\ tickets + Cardinality(Holders) = Max
  BY MaxAssumption DEF TypeOK, TicketTypes, TicketConservation
<1>5. Cardinality(R) <= Max
  BY <1>2, <1>3, <1>4, MaxAssumption
<1> QED
  BY <1>5 DEF OverrunOnlyAbandoned, R

\* More than Max run functions run at the same time only by those of calls that left on
\* a timeout or an ended context (hystrix.go:153-160): the others are at most Max.
THEOREM OverrunsAbandoned == Spec => []OverrunOnlyAbandoned
BY Typing, InitTickets, StepTickets, InitChan, StepChan, OverrunSafe, PTL DEF Spec

----------------------------------------------------------------------------
(* Timers.                                                                 *)

LEMMA InitTimer == Init => TimerInv
BY DEF Init, TimerInv

LEMMA StepTimer == TypeOK /\ ControlInv /\ TimerInv /\ [Next]_vars => TimerInv'
<1> SUFFICES ASSUME TypeOK, ControlInv, TimerInv, [Next]_vars PROVE TimerInv'
  OBVIOUS
<1> USE NoneAssumption DEF TypeOK, CallTypes, TimerTypes, ControlInv, TimerInv, Goto, cmdVars, timerVars
<1>1. ASSUME NEW c \in Cmd, ArmTimer(c) PROVE TimerInv'
  BY <1>1 DEF ArmTimer, AcquireTimer
<1>2. ASSUME NEW c \in Cmd, RecvTimer(c) PROVE TimerInv'
  BY <1>2 DEF RecvTimer
<1>3. ASSUME NEW c \in Cmd, Finish(c) PROVE TimerInv'
  BY <1>3 DEF Finish, ReleaseTimer
<1>4. ASSUME NEW t \in Timer, TimerExpires(t) PROVE TimerInv'
  BY <1>4 DEF TimerExpires
<1>5. ASSUME UNCHANGED timerVars, \A c \in Cmd : pc'[c] = "done" <=> pc[c] = "done" PROVE TimerInv'
  BY <1>5
<1>6. ASSUME NEW c \in Cmd,
             \/ Allowed(c) \/ ShortCircuited(c) \/ TakeTicket(c) \/ Reject(c) \/ Launch(c)
             \/ RecvRunErr(c) \/ RecvDone(c) \/ ReturnCount(c) \/ ReturnPut(c) \/ ReleaseChan(c)
             \/ Succeed(c) \/ ErrorWithFallback(c) \/ RunReturns(c) \/ RunSends(c) \/ CtxEnds(c)
      PROVE  UNCHANGED timerVars /\ \A d \in Cmd : pc'[d] = "done" <=> pc[d] = "done"
  BY <1>6 DEF Allowed, ShortCircuited, TakeTicket, Reject, Launch, RecvRunErr, RecvDone,
     ReturnCount, ReturnPut, ReleaseChan, Succeed, ErrorWithFallback, RunReturns, RunSends, CtxEnds
<1>7. ASSUME Terminated \/ UNCHANGED vars
      PROVE  UNCHANGED timerVars /\ \A d \in Cmd : pc'[d] = "done" <=> pc[d] = "done"
  BY <1>7 DEF Terminated, vars
<1> QED
  BY <1>1, <1>2, <1>3, <1>4, <1>5, <1>6, <1>7 DEF Next, Call

LEMMA TimerSafe == TypeOK /\ TimerInv => TimerExclusive
BY NoneAssumption DEF TypeOK, TimerTypes, TimerInv, TimerExclusive

\* A pooled timer serves one call at a time (timer_nosync.go:12-26).
THEOREM TimersExclusive == Spec => []TimerExclusive
BY Typing, InitTimer, StepTimer, TimerSafe, PTL DEF Spec
----------------------------------------------------------------------------
(* Outcomes.                                                               *)

LEMMA InitOutcome == Init => OutcomeInv
BY DEF Init, OutcomeInv, CtxShape, Decided, Reported

\* What a call finds in its channel is the value of its own run function.
LEMMA ReceivesOwn ==
    ASSUME TypeOK, ControlInv, ChanInv, NEW c \in Cmd, RecvRunErr(c)
    PROVE  err'[c] = ret[c]
<1>1. runChan[c] \in Chan /\ Owns(c) /\ buf[runChan[c]] # None
  BY DEF RecvRunErr, Goto, ControlInv, TypeOK, ChanTypes, Owns
<1>2. buf[runChan[c]].from \in Cmd
  BY <1>1 DEF TypeOK, ChanTypes
<1>3. buf[runChan[c]].from = c
  BY <1>1, <1>2 DEF ChanInv
<1> QED
  BY <1>1, <1>3 DEF ChanInv, RecvRunErr, TypeOK, ErrorTypes

LEMMA StepOutcome == TypeOK /\ ControlInv /\ ChanInv /\ OutcomeInv /\ [Next]_vars => OutcomeInv'
<1> SUFFICES ASSUME TypeOK, ControlInv, ChanInv, OutcomeInv, [Next]_vars, NEW d \in Cmd
             PROVE  (CtxShape(d) /\ Decided(d) /\ Reported(d))'
  BY DEF OutcomeInv
<1> DEFINE Goal == CtxShape(d)' /\ Decided(d)' /\ Reported(d)'
<1>a. CtxShape(d) /\ Decided(d) /\ Reported(d)
  BY DEF OutcomeInv
<1>b. /\ pc \in [Cmd -> Location] /\ arm \in [Cmd -> {"none", "run", "ctx", "timer"}]
      /\ err \in [Cmd -> Error] /\ ret \in [Cmd -> Error] /\ ctx \in [Cmd -> Error]
      /\ event \in [Cmd -> Events \cup {None}]
  BY DEF TypeOK, CallTypes, ErrorTypes, EventTypes
<1> USE <1>a, <1>b DEF CtxShape, Decided, Reported, Goto, cmdVars, runVars
<1>1. ASSUME NEW c \in Cmd, Allowed(c) \/ TakeTicket(c) \/ Launch(c) \/ ArmTimer(c) PROVE Goal
  BY <1>1 DEF Allowed, TakeTicket, Launch, ArmTimer
<1>2. ASSUME NEW c \in Cmd, ShortCircuited(c) \/ Reject(c) PROVE Goal
  BY <1>2 DEF ShortCircuited, Reject, ControlInv
<1>3. ASSUME NEW c \in Cmd, RecvRunErr(c) PROVE Goal
  <2>1. err'[c] = ret[c]
    BY <1>3, ReceivesOwn
  <2> QED
    BY <1>3, <2>1 DEF RecvRunErr
<1>4. ASSUME NEW c \in Cmd, RecvDone(c) PROVE Goal
  BY <1>4 DEF RecvDone
<1>5. ASSUME NEW c \in Cmd, RecvTimer(c) PROVE Goal
  BY <1>5 DEF RecvTimer
<1>6. ASSUME NEW c \in Cmd, ReturnCount(c) \/ ReturnPut(c) \/ ReleaseChan(c) PROVE Goal
  BY <1>6 DEF ReturnCount, ReturnPut, ReleaseChan
<1>7. ASSUME NEW c \in Cmd, Succeed(c) PROVE Goal
  BY <1>7 DEF Succeed
<1>8. ASSUME NEW c \in Cmd, ErrorWithFallback(c) PROVE Goal
  <2> DEFINE P == PrimaryEvent(err[c], ctx[c])
  <2>1. CASE d # c
    BY <1>8, <2>1 DEF ErrorWithFallback
  <2>2. CASE d = c
    <3>1. P # "success"
      BY PrimaryEventType
    <3>2. arm[c] = "timer" => P = "timeout"
      BY <1>8, <2>2 DEF ErrorWithFallback, PrimaryEvent
    <3>3. arm[c] = "ctx" => P \in {"context_canceled", "context_deadline_exceeded"}
      <4>1. /\ PrimaryEvent({"canceled"}, {"canceled"}) = "context_canceled"
            /\ PrimaryEvent({"deadline exceeded"}, {"deadline exceeded"})
                 = "context_deadline_exceeded"
        BY DEF PrimaryEvent
      <4>2. arm[c] = "ctx" => err[c] = ctx[c] /\ ctx[c] # {}
        BY <1>8, <2>2 DEF ErrorWithFallback
      <4> QED
        BY <2>2, <4>1, <4>2
    <3>4. ~(arm[c] = "run" /\ ret[c] = {})
      BY <1>8, <2>2 DEF ErrorWithFallback
    <3>5. pc'[c] = "unwind" /\ arm'[c] = arm[c] /\ ret'[c] = ret[c] /\ ctx'[c] = ctx[c]
      BY <1>8 DEF ErrorWithFallback
    <3>6. /\ event'[c].primary = P
          /\ err'[c] = {} <=> event'[c].secondary = "fallback-success"
      <4>1. err[c] # {}
        BY <1>8 DEF ErrorWithFallback
      <4>2. CASE c \notin HasFallback
        <5>1. event' = [event EXCEPT ![c] = [primary |-> P, secondary |-> ""]] /\ err' = err
          BY <1>8, <4>2 DEF ErrorWithFallback
        <5> HIDE DEF P
        <5> QED
          BY <4>1, <5>1
      <4>3. CASE c \in HasFallback
        <5>1. PICK f \in FallbackErrs :
                /\ event' = [event EXCEPT ![c] = [primary |-> P,
                       secondary |-> IF f = {} THEN "fallback-success" ELSE "fallback-failure"]]
                /\ err' = [err EXCEPT ![c] = IF f = {} THEN {} ELSE f \cup err[c]]
          BY <1>8, <4>3 DEF ErrorWithFallback
        <5>2. f \cup err[c] # {}
          BY <4>1
        <5> HIDE DEF P
        <5> QED
          BY <5>1, <5>2
      <4> QED
        BY <4>2, <4>3
    <3> HIDE DEF P
    <3> QED
      BY <2>2, <3>1, <3>2, <3>3, <3>4, <3>5, <3>6
  <2> QED
    BY <2>1, <2>2
<1>9. ASSUME NEW c \in Cmd, Finish(c) PROVE Goal
  BY <1>9 DEF Finish
<1>10. ASSUME NEW c \in Cmd, RunReturns(c) PROVE Goal
  BY <1>10 DEF RunReturns, ChanInv
<1>11. ASSUME NEW c \in Cmd, CtxEnds(c) PROVE Goal
  BY <1>11 DEF CtxEnds
<1>12. CASE UNCHANGED <<cmdVars, ret, ctx>>
  BY <1>12
<1> QED
  BY <1>1, <1>2, <1>3, <1>4, <1>5, <1>6, <1>7, <1>8, <1>9, <1>10, <1>11, <1>12
     DEF Next, Call, RunSends, TimerExpires, Terminated, vars

LEMMA OutcomeSafe == ControlInv /\ OutcomeInv => OwnResult /\ OutcomeSound
BY DEF ControlInv, OutcomeInv, OwnResult, OutcomeSound, CtxShape, Decided, Reported
\* A call never takes another call's result for its own (hystrix.go:142).
THEOREM ResultsOwned == Spec => []OwnResult
BY Typing, InitChan, StepChan, InitOutcome, StepOutcome, OutcomeSafe, PTL DEF Spec

\* What DoC returns, what it reports and what happened agree (hystrix.go:141-204).
THEOREM OutcomesSound == Spec => []OutcomeSound
BY Typing, InitChan, StepChan, InitOutcome, StepOutcome, OutcomeSafe, PTL DEF Spec

----------------------------------------------------------------------------
(* Command implements the safety part of Bulkhead.                         *)

LEMMA SameCardinality == \A S : BH!Cardinality(S) = Cardinality(S)
BY DEF Cardinality, BH!Cardinality

LEMMA InitBulkhead == Init => BH!Init
BY DEF Init, BH!Init, Holders, Turned, Left

LEMMA StepBulkhead ==
    TypeOK /\ ControlInv /\ TicketConservation /\ OutcomeInv /\ [Next]_vars => [BH!Next]_(BH!vars)
<1> SUFFICES ASSUME TypeOK, ControlInv, TicketConservation, OutcomeInv, [Next]_vars
             PROVE  [BH!Next]_(BH!vars)
  OBVIOUS
<1>a. /\ pc \in [Cmd -> Location] /\ arm \in [Cmd -> {"none", "run", "ctx", "timer"}]
      /\ err \in [Cmd -> Error] /\ event \in [Cmd -> Events \cup {None}]
  BY DEF TypeOK, CallTypes, ErrorTypes, EventTypes
<1>b. tickets \in Nat /\ Cardinality(Holders) \in Nat /\ tickets + Cardinality(Holders) = Max
  BY FS_CardinalityType, MaxAssumption DEF TypeOK, TicketTypes, TicketConservation
<1> USE <1>a DEF Goto, Holders, Turned, Left, cmdVars
<1>1. ASSUME NEW c \in Cmd, TakeTicket(c) PROVE BH!Admit(c)
  <2>1. pc[c] = "ticket" /\ arm[c] = "none" /\ pc' = [pc EXCEPT ![c] = "launch"]
        /\ UNCHANGED <<arm, err, event>>
    BY <1>1 DEF TakeTicket, ControlInv
  <2>2. Cardinality(Holders) < Max
    BY <1>1, <1>b, MaxAssumption DEF TakeTicket
  <2>3. Holders' = Holders \cup {c} /\ Turned' = Turned /\ Left' = Left
    BY <2>1
  <2>4. c \notin Holders /\ c \notin Turned /\ c \notin Left
    BY <2>1
  <2> HIDE DEF Holders, Turned, Left
  <2> QED
    BY <2>2, <2>3, <2>4, SameCardinality DEF BH!Admit, BH!Outside
<1>2. ASSUME NEW c \in Cmd, Reject(c) PROVE BH!TurnAway(c)
  <2>1. pc[c] = "ticket" /\ arm[c] = "none" /\ pc' = [pc EXCEPT ![c] = "report"]
        /\ err' = [err EXCEPT ![c] = {"max concurrency"}] /\ UNCHANGED <<arm, event>>
    BY <1>2 DEF Reject, ControlInv
  <2>2. Cardinality(Holders) = Max
    <3>1. tickets = 0
      BY <1>2 DEF Reject
    <3> HIDE DEF Holders
    <3> QED
      BY <3>1, <1>b
  <2>3. Holders' = Holders /\ Turned' = Turned \cup {c} /\ Left' = Left
    BY <2>1
  <2>4. c \notin Holders /\ c \notin Turned /\ c \notin Left
    BY <2>1
  <2> HIDE DEF Holders, Turned, Left
  <2> QED
    BY <2>2, <2>3, <2>4, SameCardinality DEF BH!TurnAway, BH!Outside
<1>3. ASSUME NEW c \in Cmd, ReturnPut(c) PROVE BH!Leave(c)
  <2>1. pc[c] = "put" /\ arm[c] # "none" /\ pc'[c] \in {"release", "report"}
        /\ (\A d \in Cmd : d # c => pc'[d] = pc[d]) /\ UNCHANGED <<arm, err, event>>
    BY <1>3 DEF ReturnPut, ControlInv
  <2>2. Holders' = Holders \ {c} /\ Turned' = Turned /\ Left' = Left \cup {c} /\ c \in Holders
    BY <2>1
  <2> QED
    BY <2>2 DEF BH!Leave
<1>4. ASSUME NEW c \in Cmd, Allowed(c) \/ Launch(c) \/ ArmTimer(c) \/ ReturnCount(c)
      PROVE  UNCHANGED <<Holders, Turned, Left>>
  BY <1>4 DEF Allowed, Launch, ArmTimer, ReturnCount
<1>5. ASSUME NEW c \in Cmd, ShortCircuited(c) PROVE UNCHANGED <<Holders, Turned, Left>>
  BY <1>5 DEF ShortCircuited
<1>6. ASSUME NEW c \in Cmd, RecvRunErr(c) \/ RecvDone(c) \/ RecvTimer(c)
      PROVE  UNCHANGED <<Holders, Turned, Left>>
  <2>1. /\ pc[c] = "select" /\ arm[c] = "none" /\ pc' = [pc EXCEPT ![c] = "count"]
        /\ \E a \in {"run", "ctx", "timer"} : arm' = [arm EXCEPT ![c] = a]
        /\ \E e : err' = [err EXCEPT ![c] = e]
        /\ UNCHANGED event
    BY <1>6 DEF RecvRunErr, RecvDone, RecvTimer, ControlInv
  <2>2. \A d \in Cmd : d # c => pc'[d] = pc[d] /\ arm'[d] = arm[d] /\ err'[d] = err[d]
    BY <2>1
  <2>3. pc'[c] = "count" /\ arm'[c] # "none"
    BY <2>1
  <2> QED
    BY <2>1, <2>2, <2>3
<1>7. ASSUME NEW c \in Cmd, ReleaseChan(c) PROVE UNCHANGED <<Holders, Turned, Left>>
  BY <1>7 DEF ReleaseChan, ControlInv
<1>8. ASSUME NEW c \in Cmd, Succeed(c) PROVE UNCHANGED <<Holders, Turned, Left>>
  BY <1>8 DEF Succeed, OutcomeInv, Decided
<1>9. ASSUME NEW c \in Cmd, ErrorWithFallback(c) PROVE UNCHANGED <<Holders, Turned, Left>>
  <2>1. /\ pc[c] = "report" /\ pc' = [pc EXCEPT ![c] = "unwind"] /\ UNCHANGED arm
        /\ event'[c].primary = PrimaryEvent(err[c], ctx[c])
    <3> DEFINE P == PrimaryEvent(err[c], ctx[c])
    <3>1. /\ pc[c] = "report" /\ pc' = [pc EXCEPT ![c] = "unwind"] /\ UNCHANGED arm
          /\ \E v : event' = [event EXCEPT ![c] = [primary |-> P, secondary |-> v]]
      BY <1>9 DEF ErrorWithFallback
    <3> HIDE DEF P
    <3>2. event'[c].primary = P
      BY <3>1
    <3> QED
      BY <3>1, <3>2 DEF P
  <2>2. \A d \in Cmd : d # c => pc'[d] = pc[d] /\ err'[d] = err[d] /\ event'[d] = event[d]
    BY <1>9 DEF ErrorWithFallback
  <2>3. /\ PrimaryEvent({"max concurrency"}, ctx[c]) = "rejected"
        /\ PrimaryEvent({"circuit open"}, ctx[c]) = "short-circuit"
    BY DEF PrimaryEvent
  <2>4. arm[c] = "none" => err[c] = {"circuit open"} \/ err[c] = {"max concurrency"}
    BY <2>1 DEF OutcomeInv, Decided
  <2>5. c \in Turned' <=> c \in Turned
    BY <2>1, <2>3, <2>4
  <2>6. \A d \in Cmd : d # c => (d \in Turned' <=> d \in Turned)
    BY <2>1, <2>2
  <2>7. Turned' = Turned
    <3>1. Turned \subseteq Cmd /\ Turned' \subseteq Cmd
      OBVIOUS
    <3> HIDE DEF Turned
    <3> QED
      BY <2>5, <2>6, <3>1
  <2>8. Holders' = Holders /\ Left' = Left
    BY <2>1, <2>2
  <2> QED
    BY <2>7, <2>8
<1>10. ASSUME NEW c \in Cmd, Finish(c) PROVE UNCHANGED <<Holders, Turned, Left>>
  BY <1>10 DEF Finish
<1>11. ASSUME UNCHANGED cmdVars PROVE UNCHANGED <<Holders, Turned, Left>>
  BY <1>11
<1>12. CASE UNCHANGED <<Holders, Turned, Left>>
  BY <1>12 DEF BH!vars
<1>13. ASSUME NEW c \in Cmd, RunReturns(c) \/ RunSends(c) \/ CtxEnds(c) PROVE UNCHANGED cmdVars
  BY <1>13 DEF RunReturns, RunSends, CtxEnds
<1>14. ASSUME (\E t \in Timer : TimerExpires(t)) \/ Terminated \/ UNCHANGED vars
       PROVE  UNCHANGED cmdVars
  BY <1>14 DEF TimerExpires, Terminated, vars
<1> QED
  BY <1>1, <1>2, <1>3, <1>4, <1>5, <1>6, <1>7, <1>8, <1>9, <1>10, <1>11, <1>12, <1>13, <1>14
     DEF Next, Call, BH!Next

\* The ticket pool is a bulkhead: admission only below Max, rejection only at
\* Max, for any set of calls (hystrix.go:124-130, pool.go).
THEOREM RefinesBulkhead == Spec => BH!SafeSpec
BY Typing, InitTickets, StepTickets, InitChan, StepChan, InitOutcome, StepOutcome, InitBulkhead,
   StepBulkhead, PTL DEF Spec, BH!SafeSpec
=============================================================================
