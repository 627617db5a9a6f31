--------------------------- MODULE CircuitProofs ---------------------------
(***************************************************************************)
(* Proofs about module Circuit, for any goroutines, thresholds and windows *)
(* and without a bound on time or calls that matters.                      *)
(***************************************************************************)
EXTENDS Circuit, FoldProofs, TLAPS

----------------------------------------------------------------------------
(* Time                                                                    *)

\* Instants are integers and nothing is stamped later than the clock.
TimeInv ==
    /\ clock \in Int
    /\ stamp \in Int /\ stamp <= clock
    /\ now \in [Proc -> Int]
    /\ \A p \in Proc : now[p] <= clock
    /\ DOMAIN val = Proc
    /\ DOMAIN pc = Proc

LEMMA InitTime == Init => TimeInv
BY CircuitAssumption DEF Init, TimeInv

LEMMA StepTime == TimeInv /\ [Next]_vars => TimeInv'
<1> SUFFICES ASSUME TimeInv, [Next]_vars PROVE TimeInv'
  OBVIOUS
<1> USE DEF TimeInv, Goto, Now, shared, local, history
<1>1. ASSUME NEW p \in Proc, LoadOpen(p) PROVE TimeInv'
  BY <1>1 DEF LoadOpen
<1>2. ASSUME NEW p \in Proc, CheckVolume(p) PROVE TimeInv'
  BY <1>2 DEF CheckVolume
<1>3. ASSUME NEW p \in Proc, ReadRequests(p) PROVE TimeInv'
  BY <1>3 DEF ReadRequests
<1>4. ASSUME NEW p \in Proc, ReadErrors(p) PROVE TimeInv'
  BY <1>4 DEF ReadErrors
<1>5. ASSUME NEW p \in Proc, SetOpen(p) PROVE TimeInv'
  BY <1>5 DEF SetOpen
<1>6. ASSUME NEW p \in Proc, SetOpenLost(p) PROVE TimeInv'
  BY <1>6 DEF SetOpenLost
<1>7. ASSUME NEW p \in Proc, StoreStamp(p) PROVE TimeInv'
  BY <1>7 DEF StoreStamp
<1>8. ASSUME NEW p \in Proc, LoadStamp(p) PROVE TimeInv'
  BY <1>8 DEF LoadStamp
<1>9. ASSUME NEW p \in Proc, TooEarly(p) PROVE TimeInv'
  BY <1>9 DEF TooEarly, Refuse
<1>10. ASSUME NEW p \in Proc, GrantTest(p) PROVE TimeInv'
  BY <1>10 DEF GrantTest
<1>11. ASSUME NEW p \in Proc, GrantLost(p) PROVE TimeInv'
  BY <1>11 DEF GrantLost, Refuse
<1>12. ASSUME NEW p \in Proc, Executed(p) PROVE TimeInv'
  BY <1>12 DEF Executed
<1>13. ASSUME NEW p \in Proc, Report(p) PROVE TimeInv'
  BY <1>13 DEF Report
<1>14. ASSUME NEW p \in Proc, SetClose(p) PROVE TimeInv'
  BY <1>14 DEF SetClose
<1>15. ASSUME NEW p \in Proc, SetCloseLost(p) PROVE TimeInv'
  BY <1>15 DEF SetCloseLost
<1>16. ASSUME NEW p \in Proc, ResetRequests(p) PROVE TimeInv'
  BY <1>16 DEF ResetRequests
<1>17. ASSUME NEW p \in Proc, ResetErrors(p) PROVE TimeInv'
  BY <1>17 DEF ResetErrors
<1>18. ASSUME NEW p \in Proc, CountRequest(p) PROVE TimeInv'
  BY <1>18 DEF CountRequest
<1>19. ASSUME NEW p \in Proc, CountError(p) PROVE TimeInv'
  BY <1>19 DEF CountError
<1>20. CASE Tick
  BY <1>20 DEF Tick
<1>21. CASE UNCHANGED vars
  BY <1>21 DEF vars
<1> QED
  BY <1>1, <1>2, <1>3, <1>4, <1>5, <1>6, <1>7, <1>8, <1>9, <1>10, <1>11, <1>12, <1>13, <1>14, <1>15,
     <1>16, <1>17, <1>18, <1>19, <1>20, <1>21
     DEF Next, IsOpen, AllowSingleTest, ReportEvent, Terminated

----------------------------------------------------------------------------
(* Tests                                                                   *)

\* The last test granted, if nobody opened the circuit since, is what the stamp
\* records, and a goroutine about to ask for a test read a stamp old enough.
GrantInv ==
    /\ granted # None => granted = stamp
    /\ \A p \in Proc : pc[p] = "grant" => now[p] > val[p] + SleepWindow

LEMMA InitGrant == Init => GrantInv
BY DEF Init, GrantInv

LEMMA StepGrant == TimeInv /\ GrantInv /\ [Next]_vars => GrantInv'
<1> SUFFICES ASSUME TimeInv, GrantInv, [Next]_vars PROVE GrantInv'
  OBVIOUS
<1> USE DEF TimeInv, GrantInv, Goto, Answer, shared, local, history
<1>1. ASSUME NEW p \in Proc, LoadOpen(p) PROVE GrantInv'
  BY <1>1 DEF LoadOpen
<1>2. ASSUME NEW p \in Proc, CheckVolume(p) PROVE GrantInv'
  BY <1>2 DEF CheckVolume
<1>3. ASSUME NEW p \in Proc, ReadRequests(p) PROVE GrantInv'
  BY <1>3 DEF ReadRequests
<1>4. ASSUME NEW p \in Proc, ReadErrors(p) PROVE GrantInv'
  BY <1>4 DEF ReadErrors
<1>5. ASSUME NEW p \in Proc, SetOpen(p) PROVE GrantInv'
  BY <1>5 DEF SetOpen
<1>6. ASSUME NEW p \in Proc, SetOpenLost(p) PROVE GrantInv'
  BY <1>6 DEF SetOpenLost
<1>7. ASSUME NEW p \in Proc, StoreStamp(p) PROVE GrantInv'
  BY <1>7 DEF StoreStamp
<1>8. ASSUME NEW p \in Proc, LoadStamp(p) PROVE GrantInv'
  BY <1>8 DEF LoadStamp
<1>9. ASSUME NEW p \in Proc, TooEarly(p) PROVE GrantInv'
  BY <1>9 DEF TooEarly, Refuse
<1>10. ASSUME NEW p \in Proc, GrantTest(p) PROVE GrantInv'
  BY <1>10 DEF GrantTest
<1>11. ASSUME NEW p \in Proc, GrantLost(p) PROVE GrantInv'
  BY <1>11 DEF GrantLost, Refuse
<1>12. ASSUME NEW p \in Proc, Executed(p) PROVE GrantInv'
  BY <1>12 DEF Executed
<1>13. ASSUME NEW p \in Proc, Report(p) PROVE GrantInv'
  BY <1>13 DEF Report
<1>14. ASSUME NEW p \in Proc, SetClose(p) PROVE GrantInv'
  BY <1>14 DEF SetClose
<1>15. ASSUME NEW p \in Proc, SetCloseLost(p) PROVE GrantInv'
  BY <1>15 DEF SetCloseLost
<1>16. ASSUME NEW p \in Proc, ResetRequests(p) PROVE GrantInv'
  BY <1>16 DEF ResetRequests
<1>17. ASSUME NEW p \in Proc, ResetErrors(p) PROVE GrantInv'
  BY <1>17 DEF ResetErrors
<1>18. ASSUME NEW p \in Proc, CountRequest(p) PROVE GrantInv'
  BY <1>18 DEF CountRequest
<1>19. ASSUME NEW p \in Proc, CountError(p) PROVE GrantInv'
  BY <1>19 DEF CountError
<1>20. CASE Tick
  BY <1>20 DEF Tick
<1>21. CASE UNCHANGED vars
  BY <1>21 DEF vars
<1> QED
  BY <1>1, <1>2, <1>3, <1>4, <1>5, <1>6, <1>7, <1>8, <1>9, <1>10, <1>11, <1>12, <1>13, <1>14, <1>15,
     <1>16, <1>17, <1>18, <1>19, <1>20, <1>21
     DEF Next, IsOpen, AllowSingleTest, ReportEvent, Terminated

\* Only GrantTest grants a test.
LEMMA NewGrant ==
    ASSUME [Next]_vars, granted' \notin {None, granted} PROVE \E p \in Proc : GrantTest(p)
BY DEF Next, IsOpen, AllowSingleTest, ReportEvent, Tick, Terminated, vars, shared, history,
   LoadOpen, CheckVolume, ReadRequests, ReadErrors, SetOpen, SetOpenLost, StoreStamp, LoadStamp,
   TooEarly, GrantLost, Refuse, Executed, Report, SetClose, SetCloseLost, ResetRequests,
   ResetErrors, CountRequest, CountError

LEMMA SpacedStep ==
    TimeInv /\ GrantInv /\ [Next]_vars =>
        (granted # None /\ granted' \notin {None, granted} => granted' > granted + SleepWindow)
<1> SUFFICES ASSUME TimeInv, GrantInv, [Next]_vars, granted # None, granted' \notin {None, granted}
             PROVE  granted' > granted + SleepWindow
  OBVIOUS
<1>1. PICK p \in Proc : GrantTest(p)
  BY NewGrant
<1>2. granted = stamp /\ stamp = val[p] /\ now[p] > val[p] + SleepWindow /\ granted' = now[p]
  BY <1>1 DEF GrantInv, GrantTest, Goto
<1> QED
  BY <1>2

\* Tests are granted one at a time and more than a sleep window apart as long as
\* nobody opens the circuit, for any number of goroutines (circuit.go:102-114).
THEOREM TestsAreSpaced == Spec => TestsSpaced
<1>1. TimeInv /\ GrantInv /\ [Next]_vars =>
        [granted # None /\ granted' \notin {None, granted} => granted' > granted + SleepWindow]_vars
  BY SpacedStep
<1> QED
  BY <1>1, InitTime, StepTime, InitGrant, StepGrant, PTL DEF Spec, TestsSpaced

----------------------------------------------------------------------------
(* Answers                                                                 *)

\* Who is in the middle of an operation has seen the present value of open, and
\* the values its place in the code depends on.
SeenInv ==
    /\ open \in BOOLEAN
    /\ seen \in [Proc -> SUBSET BOOLEAN]
    /\ DOMAIN pc = Proc
    /\ DOMAIN ev = Proc
    /\ \A p \in Proc :
         /\ pc[p] # "idle" => open \in seen[p]
         /\ pc[p] \in {"volume", "reqs", "errs", "run"} => FALSE \in seen[p]
         /\ pc[p] \in {"store", "load", "grant"} => TRUE \in seen[p]
         /\ pc[p] \in {"reset", "resetErrors", "count"} /\ ev[p] = "success" => FALSE \in seen[p]

LEMMA InitSeen == Init => SeenInv
BY DEF Init, SeenInv

LEMMA StepSeen == SeenInv /\ [Next]_vars => SeenInv'
<1> SUFFICES ASSUME SeenInv, [Next]_vars PROVE SeenInv'
  OBVIOUS
<1> USE DEF SeenInv, Goto, Answer, shared, local, history
<1>1. ASSUME NEW p \in Proc, LoadOpen(p) PROVE SeenInv'
  BY <1>1 DEF LoadOpen
<1>2. ASSUME NEW p \in Proc, CheckVolume(p) PROVE SeenInv'
  BY <1>2 DEF CheckVolume
<1>3. ASSUME NEW p \in Proc, ReadRequests(p) PROVE SeenInv'
  BY <1>3 DEF ReadRequests
<1>4. ASSUME NEW p \in Proc, ReadErrors(p) PROVE SeenInv'
  BY <1>4 DEF ReadErrors
<1>5. ASSUME NEW p \in Proc, SetOpen(p) PROVE SeenInv'
  BY <1>5 DEF SetOpen, SetOpenTo
<1>6. ASSUME NEW p \in Proc, SetOpenLost(p) PROVE SeenInv'
  BY <1>6 DEF SetOpenLost
<1>7. ASSUME NEW p \in Proc, StoreStamp(p) PROVE SeenInv'
  BY <1>7 DEF StoreStamp
<1>8. ASSUME NEW p \in Proc, LoadStamp(p) PROVE SeenInv'
  BY <1>8 DEF LoadStamp
<1>9. ASSUME NEW p \in Proc, TooEarly(p) PROVE SeenInv'
  BY <1>9 DEF TooEarly, Refuse
<1>10. ASSUME NEW p \in Proc, GrantTest(p) PROVE SeenInv'
  BY <1>10 DEF GrantTest
<1>11. ASSUME NEW p \in Proc, GrantLost(p) PROVE SeenInv'
  BY <1>11 DEF GrantLost, Refuse
<1>12. ASSUME NEW p \in Proc, Executed(p) PROVE SeenInv'
  BY <1>12 DEF Executed
<1>13. ASSUME NEW p \in Proc, Report(p) PROVE SeenInv'
  BY <1>13 DEF Report
<1>14. ASSUME NEW p \in Proc, SetClose(p) PROVE SeenInv'
  BY <1>14 DEF SetClose, SetOpenTo
<1>15. ASSUME NEW p \in Proc, SetCloseLost(p) PROVE SeenInv'
  BY <1>15 DEF SetCloseLost
<1>16. ASSUME NEW p \in Proc, ResetRequests(p) PROVE SeenInv'
  BY <1>16 DEF ResetRequests
<1>17. ASSUME NEW p \in Proc, ResetErrors(p) PROVE SeenInv'
  BY <1>17 DEF ResetErrors
<1>18. ASSUME NEW p \in Proc, CountRequest(p) PROVE SeenInv'
  BY <1>18 DEF CountRequest
<1>19. ASSUME NEW p \in Proc, CountError(p) PROVE SeenInv'
  BY <1>19 DEF CountError
<1>20. CASE Tick
  BY <1>20 DEF Tick
<1>21. CASE UNCHANGED vars
  BY <1>21 DEF vars
<1> QED
  BY <1>1, <1>2, <1>3, <1>4, <1>5, <1>6, <1>7, <1>8, <1>9, <1>10, <1>11, <1>12, <1>13, <1>14, <1>15,
     <1>16, <1>17, <1>18, <1>19, <1>20, <1>21
     DEF Next, IsOpen, AllowSingleTest, ReportEvent, Terminated

LEMMA SeenSafe == SeenInv => AnswerWasTrue /\ SuccessCloses
BY DEF SeenInv, AnswerWasTrue, SuccessCloses

\* IsOpen answers what was true at some moment of its execution (circuit.go:76-93),
\* for any number of goroutines that open and close the circuit meanwhile.
THEOREM AnswersWereTrue == Spec => []AnswerWasTrue
BY InitSeen, StepSeen, SeenSafe, PTL DEF Spec

\* A reported success finds or leaves the circuit closed (circuit.go:146-148).
THEOREM SuccessesClose == Spec => []SuccessCloses
BY InitSeen, StepSeen, SeenSafe, PTL DEF Spec

----------------------------------------------------------------------------
(* Openings                                                                *)

\* Once everybody who opened the circuit has stored a time, the stamp is not
\* older than the opening; until then those who will store one took it later.
OpenedInv ==
    /\ openedAt \in Int /\ openedAt <= clock
    /\ \A p \in Proc : pc[p] = "store" => now[p] >= openedAt
    /\ (\A p \in Proc : pc[p] # "store") => stamp >= openedAt

LEMMA InitOpened == Init => OpenedInv
BY CircuitAssumption DEF Init, OpenedInv, None

LEMMA StepOpened == TimeInv /\ GrantInv /\ OpenedInv /\ [Next]_vars => OpenedInv'
<1> SUFFICES ASSUME TimeInv, GrantInv, OpenedInv, [Next]_vars PROVE OpenedInv'
  OBVIOUS
<1> USE DEF TimeInv, OpenedInv, Goto, Answer, Now, shared, local, history
<1>1. ASSUME NEW p \in Proc, LoadOpen(p) PROVE OpenedInv'
  BY <1>1 DEF LoadOpen
<1>2. ASSUME NEW p \in Proc, CheckVolume(p) PROVE OpenedInv'
  BY <1>2 DEF CheckVolume
<1>3. ASSUME NEW p \in Proc, ReadRequests(p) PROVE OpenedInv'
  BY <1>3 DEF ReadRequests
<1>4. ASSUME NEW p \in Proc, ReadErrors(p) PROVE OpenedInv'
  BY <1>4 DEF ReadErrors
<1>5. ASSUME NEW p \in Proc, SetOpen(p) PROVE OpenedInv'
  BY <1>5 DEF SetOpen, SetOpenTo
<1>6. ASSUME NEW p \in Proc, SetOpenLost(p) PROVE OpenedInv'
  BY <1>6 DEF SetOpenLost
<1>7. ASSUME NEW p \in Proc, StoreStamp(p) PROVE OpenedInv'
  BY <1>7 DEF StoreStamp
<1>8. ASSUME NEW p \in Proc, LoadStamp(p) PROVE OpenedInv'
  BY <1>8 DEF LoadStamp
<1>9. ASSUME NEW p \in Proc, TooEarly(p) PROVE OpenedInv'
  BY <1>9 DEF TooEarly, Refuse
<1>10. ASSUME NEW p \in Proc, GrantTest(p) PROVE OpenedInv'
  BY <1>10, CircuitAssumption DEF GrantTest, GrantInv
<1>11. ASSUME NEW p \in Proc, GrantLost(p) PROVE OpenedInv'
  BY <1>11 DEF GrantLost, Refuse
<1>12. ASSUME NEW p \in Proc, Executed(p) PROVE OpenedInv'
  BY <1>12 DEF Executed
<1>13. ASSUME NEW p \in Proc, Report(p) PROVE OpenedInv'
  BY <1>13 DEF Report
<1>14. ASSUME NEW p \in Proc, SetClose(p) PROVE OpenedInv'
  BY <1>14 DEF SetClose, SetOpenTo
<1>15. ASSUME NEW p \in Proc, SetCloseLost(p) PROVE OpenedInv'
  BY <1>15 DEF SetCloseLost
<1>16. ASSUME NEW p \in Proc, ResetRequests(p) PROVE OpenedInv'
  BY <1>16 DEF ResetRequests
<1>17. ASSUME NEW p \in Proc, ResetErrors(p) PROVE OpenedInv'
  BY <1>17 DEF ResetErrors
<1>18. ASSUME NEW p \in Proc, CountRequest(p) PROVE OpenedInv'
  BY <1>18 DEF CountRequest
<1>19. ASSUME NEW p \in Proc, CountError(p) PROVE OpenedInv'
  BY <1>19 DEF CountError
<1>20. CASE Tick
  BY <1>20 DEF Tick
<1>21. CASE UNCHANGED vars
  BY <1>21 DEF vars
<1> QED
  BY <1>1, <1>2, <1>3, <1>4, <1>5, <1>6, <1>7, <1>8, <1>9, <1>10, <1>11, <1>12, <1>13, <1>14, <1>15,
     <1>16, <1>17, <1>18, <1>19, <1>20, <1>21
     DEF Next, IsOpen, AllowSingleTest, ReportEvent, Terminated

LEMMA EarlyStep ==
    TimeInv /\ GrantInv /\ OpenedInv /\ [Next]_vars =>
        (granted' \notin {None, granted} /\ clock <= openedAt + SleepWindow
         => \E q \in Proc : pc[q] = "store")
<1> SUFFICES ASSUME TimeInv, GrantInv, OpenedInv, [Next]_vars, granted' \notin {None, granted},
                    \A q \in Proc : pc[q] # "store"
             PROVE  clock > openedAt + SleepWindow
  BY CircuitAssumption DEF TimeInv, OpenedInv
<1>1. PICK p \in Proc : GrantTest(p)
  BY NewGrant
<1>2. stamp = val[p] /\ now[p] > val[p] + SleepWindow
  BY <1>1 DEF GrantInv, GrantTest, Goto
<1>3. stamp >= openedAt /\ clock >= now[p]
  BY DEF OpenedInv, TimeInv
<1> QED
  BY <1>2, <1>3, CircuitAssumption DEF TimeInv, OpenedInv

\* A test within the sleep window of the opening is granted only while somebody who
\* opened the circuit has yet to store the time (circuit.go:117-119), for any
\* number of goroutines and any sleep window.
THEOREM EarlyTestsOnlyBeforeStore == Spec => EarlyOnlyBeforeStore
<1>1. TimeInv /\ GrantInv /\ OpenedInv /\ [Next]_vars =>
        [granted' \notin {None, granted} /\ clock <= openedAt + SleepWindow
         => \E q \in Proc : pc[q] = "store"]_vars
  BY EarlyStep
<1> QED
  BY <1>1, InitTime, StepTime, InitGrant, StepGrant, InitOpened, StepOpened, PTL
     DEF Spec, EarlyOnlyBeforeStore

----------------------------------------------------------------------------
(* Types, and how much is counted.                                         *)

LEMMA SumFolds ==
    ASSUME NEW counter \in [Time -> Nat], NEW t
    PROVE  /\ Folding(Plus, counter, {k \in Time : k >= t - Window})
           /\ Sum(counter, t) = Fold(Plus, counter, {k \in Time : k >= t - Window})
<1> DEFINE S == {k \in Time : k >= t - Window}
<1>1. IsFiniteSet(Time)
  BY CircuitAssumption, FS_Interval DEF Time
<1>2. IsFiniteSet(S) /\ \A k \in S : counter[k] \in Nat
  BY <1>1, FS_Subset
<1>3. Sum(counter, t) = MapThenSumSet(LAMBDA k : counter[k], S)
  BY DEF Sum
<1> HIDE DEF S
<1>4. Folding(Plus, counter, S) /\ MapThenSumSet(LAMBDA k : counter[k], S) = Fold(Plus, counter, S)
  BY <1>2, SumIsFold
<1>5. Folding(Plus, counter, S) /\ Sum(counter, t) = Fold(Plus, counter, S)
  BY <1>3, <1>4
<1> QED
  BY <1>5 DEF S

LEMMA SumType == ASSUME NEW counter \in [Time -> Nat], NEW t PROVE Sum(counter, t) \in Nat
<1>1. PICK S : S = {k \in Time : k >= t - Window}
  OBVIOUS
<1>2. Folding(Plus, counter, S) /\ Sum(counter, t) = Fold(Plus, counter, S)
  BY <1>1, SumFolds
<1>3. Fold(Plus, counter, S) \in Nat
  BY ONLY <1>2, FoldType
<1> QED
  BY <1>2, <1>3

\* TypeOK, less what bounds the counters, and with the earliest that a goroutine's now can be.
Types ==
    /\ clock \in Nat /\ Start <= clock /\ clock <= MaxClock
    /\ open \in BOOLEAN
    /\ stamp \in Nat /\ stamp <= clock
    /\ requests \in [Time -> Nat] /\ errors \in [Time -> Nat] /\ since \in [Time -> Nat]
    /\ disturbed \subseteq Proc
    /\ pc \in [Proc -> Location]
    /\ now \in [Proc -> Nat] /\ \A p \in Proc : now[p] <= clock /\ (pc[p] # "idle" => Start <= now[p])
    /\ val \in [Proc -> Nat]
    /\ ev \in [Proc -> PrimaryEvents]
    /\ calls \in Nat /\ calls <= MaxCalls
    /\ seen \in [Proc -> SUBSET BOOLEAN]
    /\ openedAt # None => openedAt \in Nat /\ Start <= openedAt /\ openedAt <= clock
    /\ granted # None => granted \in Nat /\ Start <= granted /\ granted <= clock

LEMMA StepTypes == Types /\ [Next]_vars => Types'
<1> SUFFICES ASSUME Types, [Next]_vars PROVE Types'
  OBVIOUS
<1> USE CircuitAssumption DEF Types, Goto, Answer, Now, Location, PrimaryEvents, Time, shared, local, history
<1>1. ASSUME NEW p \in Proc, LoadOpen(p) PROVE Types'
  <2>1. /\ pc' \in [Proc -> Location] /\ (\A q \in Proc : q # p => pc'[q] = pc[q])
        /\ now' = [now EXCEPT ![p] = clock]
        /\ calls' \in Nat /\ calls' <= MaxCalls /\ seen' \in [Proc -> SUBSET BOOLEAN]
        /\ UNCHANGED <<clock, shared, val, ev, openedAt, granted, since, disturbed>>
    BY <1>1 DEF LoadOpen
  <2> HIDE DEF Location, PrimaryEvents, Time
  <2>2. now' \in [Proc -> Nat] /\ \A q \in Proc : now'[q] <= clock /\ (pc'[q] # "idle" => Start <= now'[q])
    BY <2>1
  <2> QED
    BY <2>1, <2>2
<1>2. ASSUME NEW p \in Proc, CheckVolume(p) PROVE Types'
  <2>1. PICK t \in Now(p) : now' = [now EXCEPT ![p] = t]
    BY <1>2 DEF CheckVolume
  <2>2. /\ pc[p] = "volume" /\ pc' \in [Proc -> Location] /\ \A q \in Proc : q # p => pc'[q] = pc[q]
        /\ UNCHANGED <<clock, shared, val, ev, calls, history>>
    BY <1>2 DEF CheckVolume
  <2>3. t \in Nat /\ now[p] <= t /\ t <= clock
    BY <2>1
  <2> HIDE DEF Location, PrimaryEvents, Time
  <2>4. now' \in [Proc -> Nat] /\ \A q \in Proc : now'[q] <= clock /\ (pc'[q] # "idle" => Start <= now'[q])
    BY <2>1, <2>2, <2>3
  <2> QED
    BY <2>2, <2>4
<1>3. ASSUME NEW p \in Proc, ReadRequests(p) PROVE Types'
  <2>1. Sum(requests, now[p]) \in Nat
    BY SumType
  <2> QED
    BY <1>3, <2>1 DEF ReadRequests
<1>4. ASSUME NEW p \in Proc, ReadErrors(p) PROVE Types'
  BY <1>4 DEF ReadErrors, Decided
<1>5. ASSUME NEW p \in Proc, SetOpen(p) PROVE Types'
  <2>1. /\ pc[p] = "setOpen" /\ pc' = [pc EXCEPT ![p] = "store"] /\ now' = [now EXCEPT ![p] = clock]
        /\ open' = TRUE /\ seen' = [q \in Proc |-> seen[q] \cup {TRUE}]
        /\ openedAt' = openedAt \/ openedAt' = clock
        /\ UNCHANGED <<clock, stamp, requests, errors, val, ev, calls, granted, since>> /\ disturbed' \subseteq Proc
    BY <1>5 DEF SetOpen, SetOpenTo, Decided
  <2>2. pc' \in [Proc -> Location] /\ seen' \in [Proc -> SUBSET BOOLEAN]
    BY <2>1
  <2> HIDE DEF Location, PrimaryEvents, Time
  <2>3. now' \in [Proc -> Nat] /\ \A q \in Proc : now'[q] <= clock /\ (pc'[q] # "idle" => Start <= now'[q])
    BY <2>1
  <2>4. openedAt' # None => openedAt' \in Nat /\ Start <= openedAt' /\ openedAt' <= clock
    BY <2>1
  <2> QED
    BY <2>1, <2>2, <2>3, <2>4
<1>6. ASSUME NEW p \in Proc, SetOpenLost(p) PROVE Types'
  <2>1. /\ pc' \in [Proc -> Location] /\ (\A q \in Proc : q # p => pc'[q] = pc[q])
        /\ now' = [now EXCEPT ![p] = clock]
        /\ UNCHANGED <<clock, shared, val, ev, calls, seen, openedAt, granted, since>>
        /\ disturbed' \subseteq Proc
    BY <1>6 DEF SetOpenLost, Decided
  <2> HIDE DEF Location, PrimaryEvents, Time
  <2>2. now' \in [Proc -> Nat] /\ \A q \in Proc : now'[q] <= clock /\ (pc'[q] # "idle" => Start <= now'[q])
    BY <2>1
  <2> QED
    BY <2>1, <2>2
<1>7. ASSUME NEW p \in Proc, StoreStamp(p) PROVE Types'
  <2>1. /\ pc' \in [Proc -> Location] /\ (\A q \in Proc : q # p => pc'[q] = pc[q])
        /\ now' = [now EXCEPT ![p] = clock]
        /\ granted' = None /\ stamp' \in Nat /\ stamp' <= clock
        /\ UNCHANGED <<clock, open, requests, errors, val, ev, calls, seen, openedAt, since, disturbed>>
    BY <1>7 DEF StoreStamp
  <2> HIDE DEF Location, PrimaryEvents, Time
  <2>2. now' \in [Proc -> Nat] /\ \A q \in Proc : now'[q] <= clock /\ (pc'[q] # "idle" => Start <= now'[q])
    BY <2>1
  <2> QED
    BY <2>1, <2>2
<1>8. ASSUME NEW p \in Proc, LoadStamp(p) PROVE Types'
  <2>1. PICK t \in Now(p) : now' = [now EXCEPT ![p] = t]
    BY <1>8 DEF LoadStamp
  <2>2. /\ pc[p] = "load" /\ pc' = [pc EXCEPT ![p] = "grant"] /\ val' = [val EXCEPT ![p] = stamp]
        /\ UNCHANGED <<clock, shared, ev, calls, history>>
    BY <1>8 DEF LoadStamp
  <2>3. t \in Nat /\ now[p] <= t /\ t <= clock /\ pc' \in [Proc -> Location]
    BY <2>1, <2>2
  <2> HIDE DEF Location, PrimaryEvents, Time
  <2> QED
    BY <2>1, <2>2, <2>3
<1>9. ASSUME NEW p \in Proc, TooEarly(p) PROVE Types'
  BY <1>9 DEF TooEarly, Refuse
<1>10. ASSUME NEW p \in Proc, GrantTest(p) PROVE Types'
  BY <1>10 DEF GrantTest
<1>11. ASSUME NEW p \in Proc, GrantLost(p) PROVE Types'
  BY <1>11 DEF GrantLost, Refuse
<1>12. ASSUME NEW p \in Proc, Executed(p) PROVE Types'
  BY <1>12 DEF Executed
<1>13. ASSUME NEW p \in Proc, Report(p) PROVE Types'
  <2>1. /\ pc' \in [Proc -> Location] /\ (\A q \in Proc : q # p => pc'[q] = pc[q])
        /\ now' = [now EXCEPT ![p] = clock]
        /\ seen' \in [Proc -> SUBSET BOOLEAN]
        /\ UNCHANGED <<clock, shared, val, ev, calls, openedAt, granted, since, disturbed>>
    BY <1>13 DEF Report
  <2> HIDE DEF Location, PrimaryEvents, Time
  <2>2. now' \in [Proc -> Nat] /\ \A q \in Proc : now'[q] <= clock /\ (pc'[q] # "idle" => Start <= now'[q])
    BY <2>1
  <2> QED
    BY <2>1, <2>2
<1>14. ASSUME NEW p \in Proc, SetClose(p) PROVE Types'
  BY <1>14 DEF SetClose, SetOpenTo
<1>15. ASSUME NEW p \in Proc, SetCloseLost(p) PROVE Types'
  <2>1. /\ pc[p] = "setClose" /\ pc' = [pc EXCEPT ![p] = "count"] /\ now' = [now EXCEPT ![p] = clock]
        /\ UNCHANGED <<clock, shared, val, ev, calls, history>>
    BY <1>15 DEF SetCloseLost
  <2>2. pc' \in [Proc -> Location]
    BY <2>1
  <2> HIDE DEF Location, PrimaryEvents, Time
  <2> QED
    BY <2>1, <2>2
<1>16. ASSUME NEW p \in Proc, ResetRequests(p) PROVE Types'
  BY <1>16 DEF ResetRequests, Disturb
<1>17. ASSUME NEW p \in Proc, ResetErrors(p) PROVE Types'
  <2>1. /\ pc' \in [Proc -> Location] /\ (\A q \in Proc : q # p => pc'[q] = pc[q])
        /\ now' = [now EXCEPT ![p] = clock]
        /\ errors' \in [Time -> Nat]
        /\ UNCHANGED <<clock, open, stamp, requests, val, ev, calls, seen, openedAt, granted, since>>
        /\ disturbed' \subseteq Proc
    BY <1>17 DEF ResetErrors, Disturb
  <2> HIDE DEF Location, PrimaryEvents, Time
  <2>2. now' \in [Proc -> Nat] /\ \A q \in Proc : now'[q] <= clock /\ (pc'[q] # "idle" => Start <= now'[q])
    BY <2>1
  <2> QED
    BY <2>1, <2>2
<1>18. ASSUME NEW p \in Proc, CountRequest(p) PROVE Types'
  <2>1. PICK t \in Now(p) : now' = [now EXCEPT ![p] = t] /\ requests' = [requests EXCEPT ![t] = @ + 1]
    BY <1>18 DEF CountRequest
  <2>2. /\ pc[p] = "count" /\ pc' \in [Proc -> Location] /\ \A q \in Proc : q # p => pc'[q] = pc[q]
        /\ disturbed' \subseteq Proc
        /\ UNCHANGED <<clock, open, stamp, errors, val, ev, calls, seen, openedAt, granted, since>>
    BY <1>18 DEF CountRequest, Disturb
  <2>3. t \in Nat /\ now[p] <= t /\ t <= clock /\ t \in Time
    BY <2>1
  <2> HIDE DEF Location, PrimaryEvents, Time
  <2>4. requests' \in [Time -> Nat]
    BY <2>1, <2>3
  <2>5. now' \in [Proc -> Nat] /\ \A q \in Proc : now'[q] <= clock /\ (pc'[q] # "idle" => Start <= now'[q])
    BY <2>1, <2>2, <2>3
  <2> QED
    BY <2>2, <2>4, <2>5
<1>19. ASSUME NEW p \in Proc, CountError(p) PROVE Types'
  <2>1. /\ pc[p] = "countErrors" /\ pc' = [pc EXCEPT ![p] = "idle"]
        /\ errors' = [errors EXCEPT ![now[p]] = @ + 1] /\ disturbed' \subseteq Proc
        /\ since' = [since EXCEPT ![now[p]] = @ + 1] \/ since' = since
        /\ UNCHANGED <<clock, open, stamp, requests, now, val, ev, calls, seen, openedAt, granted>>
    BY <1>19 DEF CountError, Disturb
  <2>2. pc' \in [Proc -> Location] /\ now[p] \in Time
    BY <2>1
  <2> HIDE DEF Location, PrimaryEvents, Time
  <2>3. errors' \in [Time -> Nat] /\ since' \in [Time -> Nat]
    BY <2>1, <2>2
  <2> QED
    BY <2>1, <2>2, <2>3
<1>20. CASE Tick
  <2> HIDE DEF Location, PrimaryEvents, Time
  <2> QED
    BY <1>20 DEF Tick
<1>21. CASE UNCHANGED vars
  BY <1>21 DEF vars
<1> HIDE DEF Types
<1> QED
  BY <1>1, <1>2, <1>3, <1>4, <1>5, <1>6, <1>7, <1>8, <1>9, <1>10, <1>11, <1>12, <1>13, <1>14, <1>15,
     <1>16, <1>17, <1>18, <1>19, <1>20, <1>21
     DEF Next, IsOpen, AllowSingleTest, ReportEvent, Terminated

\* A call counts one request and one error at most, and has not done so yet if it is on its way.
Live == {p \in Proc : pc[p] # "idle"}
Uncounted == {p \in Proc : pc[p] \notin {"idle", "countErrors"}}
CountInv ==
    /\ IsFiniteSet(Live)
    /\ \A t \in Time : /\ requests[t] + Cardinality(Uncounted) <= calls
                       /\ errors[t] + Cardinality(Live) <= calls

LEMMA StepCounts == Types /\ Types' /\ CountInv /\ [Next]_vars => CountInv'
<1> SUFFICES ASSUME Types, Types', CountInv, [Next]_vars PROVE CountInv'
  OBVIOUS
<1>t. /\ pc \in [Proc -> Location] /\ calls \in Nat
      /\ \A t \in Time : requests[t] \in Nat /\ errors[t] \in Nat /\ requests'[t] \in Nat /\ errors'[t] \in Nat
  BY DEF Types
<1>f. IsFiniteSet(Live) /\ IsFiniteSet(Uncounted) /\ Cardinality(Live) \in Nat /\ Cardinality(Uncounted) \in Nat
  <2>1. IsFiniteSet(Live) /\ Uncounted \subseteq Live
    BY DEF CountInv, Live, Uncounted
  <2> QED
    BY <2>1, FS_Subset, FS_CardinalityType
<1> DEFINE Less == \A t \in Time : requests'[t] <= requests[t] /\ errors'[t] <= errors[t]
           Quiet == /\ Less /\ calls' = calls
                    /\ \A q \in Proc : /\ pc'[q] # "idle" => pc[q] # "idle"
                                       /\ pc'[q] \notin {"idle", "countErrors"} => pc[q] \notin {"idle", "countErrors"}
<1>x. ASSUME Quiet PROVE CountInv'
  <2>1. Live' \subseteq Live /\ Uncounted' \subseteq Uncounted
    BY <1>x DEF Live, Uncounted
  <2>2. /\ IsFiniteSet(Live') /\ Cardinality(Live') <= Cardinality(Live) /\ Cardinality(Live') \in Nat
        /\ Cardinality(Uncounted') <= Cardinality(Uncounted) /\ Cardinality(Uncounted') \in Nat
    BY <1>f, <2>1, FS_Subset, FS_CardinalityType
  <2> QED
    BY <1>t, <1>f, <1>x, <2>2 DEF CountInv
<1> USE DEF Goto, Answer, shared, local
<1>1. ASSUME NEW p \in Proc, LoadOpen(p) PROVE CountInv'
  <2>1. /\ UNCHANGED <<requests, errors>> /\ calls' = calls + 1 /\ \A q \in Proc : q # p => pc'[q] = pc[q]
    BY <1>1, <1>t DEF LoadOpen
  <2>2. Live' \subseteq Live \cup {p} /\ Uncounted' \subseteq Uncounted \cup {p}
    BY <2>1 DEF Live, Uncounted
  <2>3. /\ IsFiniteSet(Live \cup {p}) /\ Cardinality(Live \cup {p}) <= Cardinality(Live) + 1
        /\ IsFiniteSet(Uncounted \cup {p}) /\ Cardinality(Uncounted \cup {p}) <= Cardinality(Uncounted) + 1
    <3>1. ASSUME NEW S, IsFiniteSet(S), Cardinality(S) \in Nat
          PROVE  IsFiniteSet(S \cup {p}) /\ Cardinality(S \cup {p}) <= Cardinality(S) + 1
      <4>1. IsFiniteSet(S \cup {p})
        BY <3>1, FS_AddElement
      <4>2. Cardinality(S \cup {p}) = IF p \in S THEN Cardinality(S) ELSE Cardinality(S) + 1
        BY <3>1, FS_AddElement
      <4> QED
        BY <3>1, <4>1, <4>2
    <3> QED
      BY <1>f, <3>1
  <2>4. /\ IsFiniteSet(Live') /\ Cardinality(Live') <= Cardinality(Live \cup {p}) /\ Cardinality(Live') \in Nat
        /\ Cardinality(Uncounted') <= Cardinality(Uncounted \cup {p}) /\ Cardinality(Uncounted') \in Nat
        /\ Cardinality(Live \cup {p}) \in Nat /\ Cardinality(Uncounted \cup {p}) \in Nat
    BY <2>2, <2>3, FS_Subset, FS_CardinalityType
  <2> QED
    BY <1>t, <1>f, <2>1, <2>3, <2>4 DEF CountInv
<1>2. ASSUME NEW p \in Proc, CheckVolume(p) \/ ReadRequests(p) \/ ReadErrors(p) PROVE Quiet
  BY <1>2, <1>t DEF CheckVolume, ReadRequests, ReadErrors
<1>3. ASSUME NEW p \in Proc, SetOpen(p) \/ SetOpenLost(p) \/ StoreStamp(p) PROVE Quiet
  <2>1. CASE SetOpen(p)
    BY <2>1, <1>t DEF SetOpen
  <2>2. CASE SetOpenLost(p)
    BY <2>2, <1>t DEF SetOpenLost
  <2>3. CASE StoreStamp(p)
    BY <2>3, <1>t DEF StoreStamp
  <2> QED
    BY <1>3, <2>1, <2>2, <2>3
<1>4. ASSUME NEW p \in Proc, AllowSingleTest(p) \/ Executed(p) PROVE Quiet
  BY <1>4, <1>t DEF AllowSingleTest, LoadStamp, TooEarly, GrantTest, GrantLost, Refuse, Executed
<1>5. ASSUME NEW p \in Proc, Report(p) \/ SetClose(p) \/ SetCloseLost(p) PROVE Quiet
  <2>1. CASE Report(p)
    BY <2>1, <1>t DEF Report
  <2>2. CASE SetClose(p)
    BY <2>2, <1>t DEF SetClose
  <2>3. CASE SetCloseLost(p)
    BY <2>3, <1>t DEF SetCloseLost
  <2> QED
    BY <1>5, <2>1, <2>2, <2>3
<1>6. ASSUME NEW p \in Proc, ResetRequests(p) \/ ResetErrors(p) PROVE Quiet
  BY <1>6, <1>t DEF ResetRequests, ResetErrors
<1>7. ASSUME NEW p \in Proc, CountRequest(p) PROVE CountInv'
  <2>1. /\ UNCHANGED <<errors, calls>> /\ pc[p] = "count" /\ pc'[p] \in {"idle", "countErrors"}
        /\ \A q \in Proc : q # p => pc'[q] = pc[q]
        /\ \E u \in Now(p) : requests' = [requests EXCEPT ![u] = @ + 1]
    BY <1>7, <1>t DEF CountRequest
  <2>2. \A t \in Time : requests'[t] <= requests[t] + 1
    BY <1>t, <2>1 DEF Types
  <2>3. Live' \subseteq Live /\ Uncounted' = Uncounted \ {p} /\ p \in Uncounted
    BY <2>1 DEF Live, Uncounted
  <2>4. /\ IsFiniteSet(Live') /\ Cardinality(Live') <= Cardinality(Live) /\ Cardinality(Live') \in Nat
        /\ Cardinality(Uncounted') = Cardinality(Uncounted) - 1
    BY <1>f, <2>3, FS_Subset, FS_RemoveElement, FS_CardinalityType
  <2> QED
    BY <1>t, <1>f, <2>1, <2>2, <2>4 DEF CountInv
<1>8. ASSUME NEW p \in Proc, CountError(p) PROVE CountInv'
  <2>1. /\ UNCHANGED <<requests, calls>> /\ pc[p] = "countErrors" /\ pc'[p] = "idle"
        /\ \A q \in Proc : q # p => pc'[q] = pc[q]
        /\ errors' = [errors EXCEPT ![now[p]] = @ + 1]
    BY <1>8, <1>t DEF CountError
  <2>2. \A t \in Time : errors'[t] <= errors[t] + 1
    BY <1>t, <2>1 DEF Types
  <2>3. Live' = Live \ {p} /\ p \in Live /\ Uncounted' = Uncounted
    BY <2>1 DEF Live, Uncounted
  <2>4. IsFiniteSet(Live') /\ Cardinality(Live') = Cardinality(Live) - 1
    BY <1>f, <2>3, FS_RemoveElement
  <2> QED
    BY <1>t, <1>f, <2>1, <2>2, <2>3, <2>4 DEF CountInv
<1>9. ASSUME Tick \/ UNCHANGED vars PROVE Quiet
  BY <1>9, <1>t DEF Tick, vars
<1>10. ASSUME Quiet PROVE CountInv'
  BY <1>x, <1>10
<1> HIDE DEF Quiet
<1> QED
  BY <1>1, <1>2, <1>3, <1>4, <1>5, <1>6, <1>7, <1>8, <1>9, <1>10
     DEF Next, IsOpen, ReportEvent, Terminated

LEMMA TypesInvariant == Spec => [](Types /\ CountInv)
<1>1. Init => Types
  <2> SUFFICES ASSUME Init PROVE Types
    OBVIOUS
  <2>1. /\ pc \in [Proc -> Location] /\ ev \in [Proc -> PrimaryEvents] /\ seen \in [Proc -> SUBSET BOOLEAN]
        /\ openedAt = None /\ granted = None /\ open \in BOOLEAN /\ disturbed = {}
    BY DEF Init, Location, PrimaryEvents
  <2>2. requests \in [Time -> Nat] /\ errors \in [Time -> Nat] /\ since \in [Time -> Nat]
    BY DEF Init
  <2>3. /\ now \in [Proc -> Nat] /\ val \in [Proc -> Nat]
        /\ \A p \in Proc : now[p] <= clock /\ (pc[p] # "idle" => Start <= now[p])
    BY CircuitAssumption DEF Init
  <2> QED
    BY <2>1, <2>2, <2>3, CircuitAssumption DEF Init, Types
<1>2. Init => CountInv
  <2> SUFFICES ASSUME Init PROVE CountInv
    OBVIOUS
  <2>1. Live = {} /\ Uncounted = {}
    BY DEF Init, Live, Uncounted
  <2> QED
    BY <2>1, FS_EmptySet DEF Init, CountInv
<1> QED
  BY <1>1, <1>2, StepTypes, StepCounts, PTL DEF Spec

LEMMA TypesSafe == Types /\ CountInv => TypeOK
<1> SUFFICES ASSUME Types, CountInv PROVE TypeOK
  OBVIOUS
<1>1. /\ IsFiniteSet(Live) /\ Uncounted \subseteq Live
  BY DEF CountInv, Live, Uncounted
<1>2. Cardinality(Live) \in Nat /\ Cardinality(Uncounted) \in Nat
  BY <1>1, FS_Subset, FS_CardinalityType
<1>3. ASSUME NEW t \in Time PROVE requests[t] \in 0..MaxCalls /\ errors[t] \in 0..MaxCalls
  <2>1. requests[t] \in Nat /\ errors[t] \in Nat /\ calls \in Nat /\ calls <= MaxCalls
    BY DEF Types
  <2>2. requests[t] + Cardinality(Uncounted) <= calls /\ errors[t] + Cardinality(Live) <= calls
    BY DEF CountInv
  <2> QED
    BY <1>2, <2>1, <2>2, CircuitAssumption
<1>4. requests \in [Time -> 0..MaxCalls] /\ errors \in [Time -> 0..MaxCalls]
  BY <1>3 DEF Types
<1>5. now \in [Proc -> 0..clock]
  BY DEF Types
<1>6. openedAt \in {None} \cup Start..clock /\ granted \in {None} \cup Start..clock
  BY CircuitAssumption DEF Types
<1> QED
  BY <1>4, <1>5, <1>6, CircuitAssumption DEF Types, TypeOK

\* Every variable has its type, no counter exceeds the calls made, and nothing is stamped later
\* than the clock (circuit.go:102-119).
THEOREM CircuitTypes == Spec => []TypeOK
BY TypesInvariant, TypesSafe, PTL

----------------------------------------------------------------------------
(* Errors after a close                                                    *)

\* Who is about to count an error reports a call that failed.
ErrorsInv ==
    /\ \A p \in Proc : pc[p] = "countErrors" => Failed(p)
    /\ ErrorsForgotten

LEMMA InitErrors == Init => ErrorsInv
BY DEF Init, ErrorsInv, ErrorsForgotten

LEMMA StepErrors == Types /\ ErrorsInv /\ [Next]_vars => ErrorsInv'
<1> SUFFICES ASSUME Types, ErrorsInv, [Next]_vars PROVE ErrorsInv'
  OBVIOUS
<1>t. /\ pc \in [Proc -> Location] /\ ev \in [Proc -> PrimaryEvents]
      /\ now \in [Proc -> Nat] /\ errors \in [Time -> Nat] /\ since \in [Time -> Nat]
  BY DEF Types
<1> DEFINE Quiet == /\ UNCHANGED <<errors, since>>
                    /\ Resetting => Resetting'
                    /\ \A q \in Proc : pc'[q] = "countErrors" => pc[q] = "countErrors" /\ ev'[q] = ev[q]
<1>x. ASSUME Quiet PROVE ErrorsInv'
  BY <1>x DEF ErrorsInv, ErrorsForgotten, Failed
<1> USE DEF Goto, Answer, shared, local, history, Resetting
<1>1. ASSUME NEW p \in Proc, LoadOpen(p) \/ CheckVolume(p) \/ ReadRequests(p) \/ ReadErrors(p) PROVE Quiet
  BY <1>1, <1>t DEF LoadOpen, CheckVolume, ReadRequests, ReadErrors
<1>2. ASSUME NEW p \in Proc, SetOpen(p) \/ SetOpenLost(p) \/ StoreStamp(p) PROVE Quiet
  BY <1>2, <1>t DEF SetOpen, SetOpenTo, SetOpenLost, StoreStamp
<1>3. ASSUME NEW p \in Proc, AllowSingleTest(p) \/ Executed(p) PROVE Quiet
  BY <1>3, <1>t DEF AllowSingleTest, LoadStamp, TooEarly, GrantTest, GrantLost, Refuse, Executed
<1>4. ASSUME NEW p \in Proc, Report(p) \/ SetCloseLost(p) \/ ResetRequests(p) PROVE Quiet
  BY <1>4, <1>t DEF Report, SetCloseLost, ResetRequests
<1>5. ASSUME NEW p \in Proc, SetClose(p) PROVE ErrorsInv'
  <2>1. pc'[p] = "reset" /\ ev' = ev /\ \A q \in Proc : q # p => pc'[q] = pc[q]
    BY <1>5, <1>t DEF SetClose
  <2> QED
    BY <2>1 DEF ErrorsInv, ErrorsForgotten, Failed
<1>6. ASSUME NEW p \in Proc, ResetErrors(p) PROVE ErrorsInv'
  <2>1. /\ pc'[p] = "count" /\ ev' = ev /\ \A q \in Proc : q # p => pc'[q] = pc[q]
        /\ since' = since /\ \A t \in Time : errors'[t] = 0
    BY <1>6, <1>t DEF ResetErrors
  <2>2. \A t \in Time : since[t] \in Nat
    BY <1>t
  <2>3. \A t \in Time : errors'[t] <= since'[t]
    BY <2>1, <2>2
  <2> QED
    BY <2>1, <2>3 DEF ErrorsInv, ErrorsForgotten, Failed
<1>7. ASSUME NEW p \in Proc, CountRequest(p) PROVE ErrorsInv'
  <2>1. /\ pc[p] = "count" /\ UNCHANGED <<errors, since, ev>> /\ \A q \in Proc : q # p => pc'[q] = pc[q]
        /\ pc'[p] = IF IsError(ev[p]) THEN "countErrors" ELSE "idle"
    BY <1>7, <1>t DEF CountRequest
  <2>2. Resetting => Resetting'
    BY <2>1
  <2> QED
    BY <2>1, <2>2 DEF ErrorsInv, ErrorsForgotten, Failed, IsError
<1>8. ASSUME NEW p \in Proc, CountError(p) PROVE ErrorsInv'
  <2>1. /\ pc[p] = "countErrors" /\ pc'[p] = "idle" /\ ev' = ev /\ \A q \in Proc : q # p => pc'[q] = pc[q]
        /\ errors' = [errors EXCEPT ![now[p]] = @ + 1] /\ since' = [since EXCEPT ![now[p]] = @ + 1]
    BY <1>8, <1>t DEF CountError, ErrorsInv
  <2>2. Resetting => Resetting'
    BY <2>1
  <2>3. \A t \in Time : errors[t] \in Nat /\ since[t] \in Nat
    BY <1>t
  <2>4. \A t \in Time : errors[t] <= since[t] => errors'[t] <= since'[t]
    BY <1>t, <2>1, <2>3
  <2> QED
    BY <2>1, <2>2, <2>4 DEF ErrorsInv, ErrorsForgotten, Failed
<1>9. ASSUME Tick \/ UNCHANGED vars PROVE Quiet
  BY <1>9 DEF Tick, vars
<1>10. ASSUME Quiet PROVE ErrorsInv'
  BY <1>x, <1>10
<1> HIDE DEF Quiet
<1> QED
  BY <1>1, <1>2, <1>3, <1>4, <1>5, <1>6, <1>7, <1>8, <1>9, <1>10
     DEF Next, IsOpen, ReportEvent, Terminated

\* Once a circuit was closed and nobody is at the reset, no instant has more errors than were
\* added to it since open became false (circuit.go:123-128), however many goroutines update and
\* reset the counters at the same time.  A call that failed before and adds its error late is
\* among those.
THEOREM ErrorsAreForgotten == Spec => []ErrorsForgotten
BY TypesInvariant, InitErrors, StepErrors, PTL DEF Spec, ErrorsInv

----------------------------------------------------------------------------
(* What opens the circuit                                                  *)

LEMMA Quotient ==
    ASSUME NEW a \in Int, NEW b \in Nat, b > 0
    PROVE  a \div b \in Int /\ b * (a \div b) <= a /\ a < b * (a \div b) + b
OBVIOUS

\* What a rounded percentage at or above the threshold, or below it, says of the share of errors.
LEMMA Rounded ==
    ASSUME NEW reqs \in Nat, NEW errs \in Nat, NEW percent \in ErrorPercent(reqs, errs)
    PROVE  /\ ~IsHealthy(percent) => 200 * errs >= Due(reqs)
           /\ IsHealthy(percent) /\ reqs > 0 => 200 * errs <= Due(reqs)
<1>1. CASE reqs = 0
  BY <1>1, CircuitAssumption DEF Due
<1>2. CASE reqs > 0
  <2>1. PICK below \in {0, 1} : percent = (200 * errs + reqs - below) \div (2 * reqs)
    BY <1>2 DEF ErrorPercent
  <2>2. PICK a \in Int, b \in Nat : a = 200 * errs + reqs - below /\ b = 2 * reqs
    OBVIOUS
  <2>3. percent \in Int /\ b * percent <= a /\ a < b * percent + b
    BY <1>2, <2>1, <2>2, Quotient
  <2>4. ASSUME ErrorPercentThreshold <= percent PROVE 200 * errs >= Due(reqs)
    <3>1. b * ErrorPercentThreshold <= b * percent
      BY <2>2, <2>3, <2>4, CircuitAssumption
    <3>2. b * ErrorPercentThreshold = 2 * reqs * ErrorPercentThreshold
      BY <2>2
    <3>3. Due(reqs) = 2 * reqs * ErrorPercentThreshold - reqs
      BY CircuitAssumption DEF Due
    <3> QED
      BY <2>2, <2>3, <3>1, <3>2, <3>3, CircuitAssumption
  <2>5. ASSUME percent + 1 <= ErrorPercentThreshold PROVE 200 * errs <= Due(reqs)
    <3>1. b * (percent + 1) <= b * ErrorPercentThreshold
      BY <2>2, <2>3, <2>5, CircuitAssumption
    <3>2. b * ErrorPercentThreshold = 2 * reqs * ErrorPercentThreshold
      BY <2>2
    <3>3. Due(reqs) = 2 * reqs * ErrorPercentThreshold - reqs
      BY CircuitAssumption DEF Due
    <3> QED
      BY <2>2, <2>3, <3>1, <3>2, <3>3, CircuitAssumption
  <2> QED
    BY <2>3, <2>4, <2>5, CircuitAssumption DEF IsHealthy
<1> QED
  BY <1>1, <1>2

Deciding == {"reqs", "errs", "setOpen"}

\* Unless a counter changed after its look at it, what p has found so far is still what the
\* counters show.
Measured(p) ==
    p \notin disturbed =>
        /\ pc[p] \in Deciding => Sum(requests, now[p]) >= RequestVolumeThreshold
        /\ pc[p] = "errs" => val[p] = Sum(requests, now[p])
        /\ pc[p] = "setOpen" => 200 * Sum(errors, now[p]) >= Due(Sum(requests, now[p]))

MeasureInv == \A p \in Proc : Measured(p)

\* A step of p leaves the others where they are, and disturbs them if it changes a counter.
Apart(p) ==
    /\ \A q \in Proc : q # p => pc'[q] = pc[q] /\ now'[q] = now[q] /\ val'[q] = val[q]
    /\ \/ UNCHANGED <<requests, errors>> /\ disturbed \ {p} \subseteq disturbed'
       \/ Disturb

LEMMA StepApart ==
    ASSUME NEW p \in Proc, Types, IsOpen(p) \/ AllowSingleTest(p) \/ Executed(p) \/ ReportEvent(p)
    PROVE  Apart(p)
<1>t. pc \in [Proc -> Location] /\ now \in [Proc -> Nat] /\ val \in [Proc -> Nat]
  BY DEF Types
<1> USE DEF Apart, Goto, Decided, shared, local, history
<1>1. CASE LoadOpen(p) \/ CheckVolume(p) \/ ReadRequests(p)
  BY <1>1, <1>t DEF LoadOpen, CheckVolume, ReadRequests
<1>2. CASE ReadErrors(p)
  BY <1>2, <1>t DEF ReadErrors
<1>3. CASE SetOpen(p) \/ SetOpenLost(p) \/ StoreStamp(p)
  BY <1>3, <1>t DEF SetOpen, SetOpenLost, StoreStamp
<1>4. CASE AllowSingleTest(p) \/ Executed(p)
  BY <1>4, <1>t DEF AllowSingleTest, LoadStamp, TooEarly, GrantTest, GrantLost, Refuse, Executed
<1>5. CASE Report(p) \/ SetClose(p) \/ SetCloseLost(p)
  BY <1>5, <1>t DEF Report, SetClose, SetCloseLost
<1>6. CASE ResetRequests(p) \/ ResetErrors(p)
  BY <1>6, <1>t DEF ResetRequests, ResetErrors
<1>7. CASE CountRequest(p) \/ CountError(p)
  BY <1>7, <1>t DEF CountRequest, CountError
<1> QED
  BY <1>1, <1>2, <1>3, <1>4, <1>5, <1>6, <1>7 DEF IsOpen, ReportEvent

LEMMA OthersMeasured ==
    ASSUME NEW p \in Proc, NEW q \in Proc, q # p, Apart(p), Measured(q) PROVE Measured(q)'
<1>1. pc'[q] = pc[q] /\ now'[q] = now[q] /\ val'[q] = val[q]
  BY DEF Apart
<1>2. CASE UNCHANGED <<requests, errors>> /\ disturbed \ {p} \subseteq disturbed'
  <2>1. q \notin disturbed' => q \notin disturbed
    BY <1>2
  <2> QED
    BY <1>1, <1>2, <2>1 DEF Measured
<1>3. CASE Disturb
  <2>1. pc[q] \in Deciding => q \in disturbed'
    BY <1>3 DEF Disturb, Deciding
  <2> QED
    BY <1>1, <2>1 DEF Measured, Deciding
<1> QED
  BY <1>2, <1>3 DEF Apart

LEMMA OwnMeasured ==
    ASSUME NEW p \in Proc, Types, Measured(p),
           IsOpen(p) \/ AllowSingleTest(p) \/ Executed(p) \/ ReportEvent(p)
    PROVE  Measured(p)'
<1>t. pc \in [Proc -> Location] /\ now \in [Proc -> Nat] /\ val \in [Proc -> Nat]
  BY DEF Types
<1>s. \A t \in Nat : Sum(requests, t) \in Nat /\ Sum(errors, t) \in Nat
  BY SumType DEF Types
<1>i. ASSUME pc'[p] \notin Deciding PROVE Measured(p)'
  BY <1>i DEF Measured, Deciding
<1> USE DEF Goto, Answer
<1>1. CASE CheckVolume(p)
  <2>1. PICK t \in Now(p) : /\ pc' = [pc EXCEPT ![p] = IF Sum(requests, t) < RequestVolumeThreshold
                                                        THEN Answer(p, FALSE) ELSE "reqs"]
                            /\ now' = [now EXCEPT ![p] = t] /\ requests' = requests
    BY <1>1 DEF CheckVolume, shared
  <2>2. CASE Sum(requests, t) < RequestVolumeThreshold
    BY <1>i, <1>t, <2>1, <2>2 DEF Deciding
  <2>3. CASE ~(Sum(requests, t) < RequestVolumeThreshold)
    <3>1. pc'[p] = "reqs" /\ now'[p] = t
      BY <1>t, <2>1, <2>3
    <3>2. Sum(requests, t) \in Nat
      BY SumType DEF Types
    <3>3. Sum(requests, t) >= RequestVolumeThreshold
      BY <2>3, <3>2, CircuitAssumption
    <3>4. Sum(requests', now'[p]) >= RequestVolumeThreshold
      BY <2>1, <3>1, <3>3
    <3> QED
      BY <3>1, <3>4 DEF Measured
  <2> QED
    BY <2>2, <2>3
<1>2. CASE ReadRequests(p)
  <2>1. /\ pc[p] = "reqs" /\ pc'[p] = "errs" /\ val'[p] = Sum(requests, now[p])
        /\ UNCHANGED <<now, requests, disturbed>>
    BY <1>2, <1>t DEF ReadRequests, shared, history
  <2> QED
    BY <2>1 DEF Measured, Deciding
<1>3. CASE ReadErrors(p)
  <2>1. PICK percent \in ErrorPercent(val[p], Sum(errors, now[p])) :
             \/ IsHealthy(percent) /\ pc'[p] = Answer(p, FALSE)
             \/ ~IsHealthy(percent) /\ pc'[p] = "setOpen" /\ disturbed' = disturbed
    BY <1>3, <1>t DEF ReadErrors
  <2>2. pc[p] = "errs" /\ UNCHANGED <<now, requests, errors>>
    BY <1>3 DEF ReadErrors, shared
  <2>3. CASE pc'[p] = Answer(p, FALSE)
    BY <1>i, <2>3 DEF Deciding
  <2>4. CASE ~IsHealthy(percent) /\ pc'[p] = "setOpen" /\ disturbed' = disturbed
    <3>1. val[p] \in Nat /\ Sum(errors, now[p]) \in Nat
      BY <1>t, <1>s
    <3>2. 200 * Sum(errors, now[p]) >= Due(val[p])
      BY <2>4, <3>1, Rounded
    <3> QED
      BY <2>2, <2>4, <3>2 DEF Measured, Deciding
  <2> QED
    BY <2>1, <2>3, <2>4
<1>4. CASE LoadOpen(p) \/ SetOpen(p) \/ SetOpenLost(p)
  BY <1>i, <1>4, <1>t DEF LoadOpen, SetOpen, SetOpenLost, Deciding
<1>5. CASE StoreStamp(p) \/ Executed(p)
  BY <1>i, <1>5, <1>t DEF StoreStamp, Executed, Deciding
<1>6. CASE AllowSingleTest(p)
  BY <1>i, <1>6, <1>t DEF AllowSingleTest, LoadStamp, TooEarly, GrantTest, GrantLost, Refuse, Deciding
<1>7. CASE ReportEvent(p)
  BY <1>i, <1>7, <1>t DEF ReportEvent, Report, SetClose, SetCloseLost, ResetRequests, ResetErrors,
                    CountRequest, CountError, Deciding
<1> QED
  BY <1>1, <1>2, <1>3, <1>4, <1>5, <1>6, <1>7 DEF IsOpen

LEMMA StepMeasure == Types /\ MeasureInv /\ [Next]_vars => MeasureInv'
<1> SUFFICES ASSUME Types, MeasureInv, [Next]_vars, NEW q \in Proc PROVE Measured(q)'
  BY DEF MeasureInv
<1>1. Measured(q)
  BY DEF MeasureInv
<1>2. ASSUME NEW p \in Proc, IsOpen(p) \/ AllowSingleTest(p) \/ Executed(p) \/ ReportEvent(p)
      PROVE  Measured(q)'
  <2>1. CASE p = q
    BY <1>1, <1>2, <2>1, OwnMeasured
  <2>2. CASE p # q
    BY <1>1, <1>2, <2>2, StepApart, OthersMeasured
  <2> QED
    BY <2>1, <2>2
<1>3. CASE Tick \/ UNCHANGED vars
  <2>1. UNCHANGED <<pc, now, val, requests, errors, disturbed>>
    BY <1>3 DEF Tick, vars, shared, local, history
  <2> QED
    BY <1>1, <2>1 DEF Measured
<1> QED
  BY <1>2, <1>3 DEF Next, Terminated

LEMMA LeavingReads ==
    ASSUME NEW p \in Proc, Types, [Next]_vars, LeavesClosed(p)
    PROVE  \E percent \in ErrorPercent(val[p], Sum(errors, now[p])) : IsHealthy(percent)
<1>t. pc \in [Proc -> Location]
  BY DEF Types
<1>1. ASSUME NEW q \in Proc, q # p, IsOpen(q) \/ AllowSingleTest(q) \/ Executed(q) \/ ReportEvent(q)
      PROVE  FALSE
  BY <1>1, StepApart DEF Apart, LeavesClosed
<1>2. ~Tick /\ ~UNCHANGED vars
  BY DEF Tick, vars, local, LeavesClosed
<1>3. IsOpen(p) \/ AllowSingleTest(p) \/ Executed(p) \/ ReportEvent(p)
  BY <1>1, <1>2 DEF Next, Terminated
<1> USE DEF LeavesClosed, Goto
<1>4. ~AllowSingleTest(p) /\ ~Executed(p)
  BY DEF AllowSingleTest, LoadStamp, TooEarly, GrantTest, GrantLost, Refuse, Executed
<1>5. ~ReportEvent(p)
  BY DEF ReportEvent, Report, SetClose, SetCloseLost, ResetRequests, ResetErrors, CountRequest, CountError
<1>6. ReadErrors(p)
  BY <1>3, <1>4, <1>5 DEF IsOpen, LoadOpen, CheckVolume, ReadRequests, SetOpen, SetOpenLost, StoreStamp
<1> QED
  BY <1>6, <1>t DEF ReadErrors

LEMMA OpensStep ==
    ASSUME RequestVolumeThreshold > 0, Types, MeasureInv, [Next]_vars, NEW p \in Proc, p \notin disturbed
    PROVE  /\ Opens(p) => /\ Sum(requests, now[p]) >= RequestVolumeThreshold
                          /\ 200 * Sum(errors, now[p]) >= Due(Sum(requests, now[p]))
           /\ LeavesClosed(p) => 200 * Sum(errors, now[p]) <= Due(Sum(requests, now[p]))
<1>m. Measured(p)
  BY DEF MeasureInv
<1>1. Opens(p) => /\ Sum(requests, now[p]) >= RequestVolumeThreshold
                  /\ 200 * Sum(errors, now[p]) >= Due(Sum(requests, now[p]))
  BY <1>m DEF Measured, Opens, Deciding
<1>2. ASSUME LeavesClosed(p) PROVE 200 * Sum(errors, now[p]) <= Due(Sum(requests, now[p]))
  <2>1. PICK percent \in ErrorPercent(val[p], Sum(errors, now[p])) : IsHealthy(percent)
    BY <1>2, LeavingReads
  <2>2. val[p] = Sum(requests, now[p]) /\ Sum(requests, now[p]) >= RequestVolumeThreshold
    BY <1>m, <1>2 DEF Measured, LeavesClosed, Deciding
  <2>3. val[p] \in Nat /\ Sum(errors, now[p]) \in Nat
    BY SumType DEF Types
  <2>4. val[p] > 0
    BY <2>2, <2>3, CircuitAssumption
  <2>5. 200 * Sum(errors, now[p]) <= Due(val[p])
    BY <2>1, <2>3, <2>4, Rounded
  <2> QED
    BY <2>2, <2>5
<1> QED
  BY <1>1, <1>2

LEMMA InitMeasure == Init => MeasureInv
BY DEF Init, MeasureInv, Measured, Deciding

\* Who opens a circuit found enough requests and a share of errors that is, rounded, at the
\* threshold at least, and who leaves it closed after a look at the errors found no more, unless a
\* counter changed after its look at it (circuit.go:76-93, metrics.go:64-78): for any goroutines,
\* any threshold of errors and any positive threshold of requests (0 means the default one,
\* settings.go:67).
THEOREM OpensByMeasure == ASSUME RequestVolumeThreshold > 0 PROVE Spec => OpensOnMeasure
<1>1. Types /\ MeasureInv /\ [Next]_vars
      => [\A p \in Proc :
            LET reqs == Sum(requests, now[p])
                errs == Sum(errors, now[p])
            IN  /\ Opens(p) /\ p \notin disturbed
                    => reqs >= RequestVolumeThreshold /\ 200 * errs >= Due(reqs)
                /\ LeavesClosed(p) /\ p \notin disturbed => 200 * errs <= Due(reqs)]_vars
  BY OpensStep
<1> QED
  BY <1>1, TypesInvariant, InitMeasure, StepMeasure, PTL DEF Spec, OpensOnMeasure

\* Sums grow with what is summed.
LEMMA SumMonotone ==
    ASSUME NEW c \in [Time -> Nat], NEW d \in [Time -> Nat], NEW t, \A k \in Time : c[k] <= d[k]
    PROVE  Sum(c, t) <= Sum(d, t)
<1>1. PICK S : S = {k \in Time : k >= t - Window}
  OBVIOUS
<1>2. /\ Sum(c, t) = Fold(Plus, c, S)
      /\ Folding(Plus, d, S) /\ Sum(d, t) = Fold(Plus, d, S)
  BY <1>1, SumFolds
<1>3. \A k \in S : c[k] \in Nat /\ c[k] <= d[k]
  BY <1>1
<1>4. S \in SUBSET S
  OBVIOUS
<1>5. Fold(Plus, c, S) <= Fold(Plus, d, S)
  BY ONLY <1>2, <1>3, <1>4, PlusFolds, FoldMonotone
<1> QED
  BY <1>2, <1>5

\* It takes new errors to open a circuit again: unless a counter changed after the look at it or
\* somebody is at the reset, the share of errors that opens a circuit was added since open became
\* false (circuit.go:123-128), for any goroutines and thresholds.
THEOREM OpensByNewErrors == Spec => OpensOnNewErrors
<1>1. ASSUME Types, MeasureInv, ErrorsInv, NEW p \in Proc, Opens(p), p \notin disturbed, ~Resetting
      PROVE  200 * Sum(since, now[p]) >= Due(Sum(requests, now[p]))
  <2>1. 200 * Sum(errors, now[p]) >= Due(Sum(requests, now[p]))
    BY <1>1 DEF MeasureInv, Measured, Opens
  <2>2. Sum(errors, now[p]) <= Sum(since, now[p])
    BY <1>1, SumMonotone DEF Types, ErrorsInv, ErrorsForgotten
  <2>3. PICK e \in Nat, s \in Nat, r \in Nat :
             e = Sum(errors, now[p]) /\ s = Sum(since, now[p]) /\ r = Sum(requests, now[p])
    BY <1>1, SumType DEF Types
  <2>4. PICK due \in Int : due = Due(r)
    BY CircuitAssumption DEF Due
  <2> QED
    BY <2>1, <2>2, <2>3, <2>4
<1>2. Types /\ MeasureInv /\ ErrorsInv /\ [Next]_vars
      => [\A p \in Proc :
            Opens(p) /\ p \notin disturbed /\ ~Resetting
            => 200 * Sum(since, now[p]) >= Due(Sum(requests, now[p]))]_vars
  BY <1>1
<1> QED
  BY <1>2, TypesInvariant, InitMeasure, StepMeasure, InitErrors, StepErrors, PTL DEF Spec, OpensOnNewErrors
=============================================================================
