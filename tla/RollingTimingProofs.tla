------------------------- MODULE RollingTimingProofs -------------------------
(***************************************************************************)
(* Proofs about module RollingTiming, for any goroutines, any window and   *)
(* any number of calls; and about module TimingStats, for arrays of any    *)
(* length.                                                                 *)
(***************************************************************************)
EXTENDS RollingTiming, TimingStats, FoldProofs, TLAPS

----------------------------------------------------------------------------
(* The strengthening that makes the properties inductive.                  *)

Location == {"idle", "create", "append", "collect", "returned"}

AddRecord == [by : Adder, second : Nat, begun : Nat, missed : BOOLEAN, done : BOOLEAN, at : Nat,
              resets : Nat]

Types ==
    /\ clock \in Nat
    /\ resets \in Nat
    /\ LastCachedTime \in Nat /\ LastCachedTime <= clock
    /\ pc \in [Proc -> Location]
    /\ now \in [Proc -> Nat]
    /\ DOMAIN bucket = Proc /\ DOMAIN durations = Proc
    /\ adds \in Seq(AddRecord)
    /\ heap \in Seq(SUBSET Nat)

\* A goroutine in the middle of Add has one Add under way, which knows its second.
AddsInv ==
    /\ \A p \in Proc : now[p] <= clock
    /\ \A p \in Proc : pc[p] \in {"create", "append"} =>
         \E i \in DOMAIN adds : adds[i].by = p /\ ~adds[i].done
    /\ \A i, j \in DOMAIN adds :
         ~adds[i].done /\ ~adds[j].done /\ adds[i].by = adds[j].by => i = j
    /\ \A i \in DOMAIN adds :
         /\ adds[i].begun <= resets
         /\ ~adds[i].done =>
              /\ pc[adds[i].by] \in {"create", "append"}
              /\ adds[i].second = Unix(now[adds[i].by])
              /\ pc[adds[i].by] = "create" => adds[i].missed

\* Add i has been through the second section of getCurrentBucket.
PastCreate(i) == adds[i].done \/ pc[adds[i].by] # "create"

\* A bucket of the map was made by an Add that had looked for it in vain.
BucketsInv ==
    /\ \A k \in DOMAIN Buckets :
         /\ k \in Nat /\ k <= Unix(clock)
         /\ Buckets[k] \in DOMAIN heap
         /\ \E i \in DOMAIN adds : adds[i].missed /\ adds[i].second = k /\ PastCreate(i)
    /\ \A p \in Proc : pc[p] = "append" => bucket[p] \in DOMAIN heap
    /\ \A b \in DOMAIN heap : \A i \in heap[b] : i \in DOMAIN adds /\ adds[i].done
    /\ \A i \in CachedSortedDurations : i \in DOMAIN adds /\ adds[i].done

\* Until its second has left the window, an Add past getCurrentBucket has the bucket of the
\* map, and once it is over its duration is there.
Expired(i) == adds[i].second <= Unix(clock) - Window
HasBucket(i) ==
    /\ adds[i].second \in DOMAIN Buckets
    /\ adds[i].done => i \in heap[Buckets[adds[i].second]]
    /\ ~adds[i].done => bucket[adds[i].by] = Buckets[adds[i].second]
KeptInv ==
    \A i \in DOMAIN adds :
        adds[i].begun = resets /\ PastCreate(i) => Expired(i) \/ Raced(adds[i].second) \/ HasBucket(i)

\* The cache has what had been added before it was made.
CacheInv ==
    \A i \in Recorded(clock) :
        adds[i].at < LastCachedTime /\ ~Raced(adds[i].second) => i \in CachedSortedDurations

\* The map holds the seconds of one window, the one at the last removal, and those of
\* Adds that have not removed yet.
Appending == {p \in Proc : pc[p] = "append"}
GrowthInv ==
    /\ IsFiniteSet(Appending)
    /\ \E w \in 0..Unix(clock) :
         DOMAIN Buckets \subseteq ((w - Window + 1)..w) \cup {Unix(now[p]) : p \in Appending}

----------------------------------------------------------------------------
(* Seconds.                                                                *)

LEMMA UnixType == ASSUME NEW t \in Nat PROVE Unix(t) \in Nat
BY SecondAssumption DEF Unix

LEMMA UnixMonotone == ASSUME NEW t \in Nat, NEW u \in Nat, t <= u PROVE Unix(t) <= Unix(u)
BY SecondAssumption DEF Unix

----------------------------------------------------------------------------
(* What the steps of Add do to the history of the Adds.                    *)

LEMMA AddAt == ASSUME Types, NEW i \in DOMAIN adds PROVE adds[i] \in AddRecord
BY DEF Types

LEMMA BeginsAdd ==
    ASSUME Types, NEW p \in Adder, FindBucket(p)
    PROVE  LET k == Len(adds) + 1 IN
           /\ adds' \in Seq(AddRecord) /\ k \notin DOMAIN adds
           /\ DOMAIN adds' = DOMAIN adds \cup {k}
           /\ \A i \in DOMAIN adds : adds'[i] = adds[i]
           /\ adds'[k].by = p /\ adds'[k].second = Unix(clock) /\ adds'[k].begun = resets
           /\ adds'[k].missed = (Unix(clock) \notin DOMAIN Buckets)
           /\ adds'[k].done = FALSE
<1> DEFINE r == [by |-> p, second |-> Unix(clock), begun |-> resets,
                 missed |-> Unix(clock) \notin DOMAIN Buckets,
                 done |-> FALSE, at |-> clock, resets |-> resets]
<1>1. r \in AddRecord
  BY UnixType DEF Types, AddRecord
<1>2. adds' = Append(adds, r)
  BY DEF FindBucket
<1>3. /\ r.by = p /\ r.second = Unix(clock) /\ r.begun = resets
      /\ r.missed = (Unix(clock) \notin DOMAIN Buckets) /\ r.done = FALSE
  OBVIOUS
<1> HIDE DEF r
<1>4. /\ adds' \in Seq(AddRecord) /\ Len(adds) + 1 \notin DOMAIN adds
      /\ DOMAIN adds' = DOMAIN adds \cup {Len(adds) + 1}
      /\ \A i \in DOMAIN adds : adds'[i] = adds[i]
      /\ adds'[Len(adds) + 1] = r
  BY <1>1, <1>2 DEF Types
<1> QED
  BY <1>3, <1>4

\* The Add of p that is under way.
LEMMA PendingAdd ==
    ASSUME Types, AddsInv, NEW p \in Proc, pc[p] \in {"create", "append"}
    PROVE  /\ Pending(p) \in DOMAIN adds /\ adds[Pending(p)].by = p /\ ~adds[Pending(p)].done
           /\ \A i \in DOMAIN adds : adds[i].by = p /\ ~adds[i].done => i = Pending(p)
<1>1. \E i \in DOMAIN adds : adds[i].by = p /\ ~adds[i].done
  BY DEF AddsInv
<1>2. Pending(p) \in DOMAIN adds /\ adds[Pending(p)].by = p /\ ~adds[Pending(p)].done
  BY <1>1 DEF Pending
<1> QED
  BY <1>2 DEF AddsInv

LEMMA EndsAdd ==
    ASSUME Types, AddsInv, NEW p \in Adder, AppendDuration(p)
    PROVE  /\ adds' \in Seq(AddRecord) /\ DOMAIN adds' = DOMAIN adds
           /\ \A i \in DOMAIN adds :
                /\ i # Pending(p) => adds'[i] = adds[i]
                /\ adds'[i].by = adds[i].by /\ adds'[i].second = adds[i].second
                /\ adds'[i].begun = adds[i].begun /\ adds'[i].missed = adds[i].missed
           /\ adds'[Pending(p)].done = TRUE /\ adds'[Pending(p)].at = clock
           /\ adds'[Pending(p)].resets = resets
<1>1. PICK k \in DOMAIN adds : k = Pending(p)
  BY PendingAdd DEF AppendDuration, Goto, Proc
<1> DEFINE a == [adds[k] EXCEPT !.done = TRUE]
<1> DEFINE b == [a EXCEPT !.at = clock]
<1> DEFINE c == [b EXCEPT !.resets = resets]
<1>2. adds' = [adds EXCEPT ![k] = c]
  BY <1>1 DEF AppendDuration, Types
<1>3. adds[k] \in AddRecord /\ clock \in Nat /\ resets \in Nat
  BY AddAt DEF Types
<1>4. /\ a \in AddRecord /\ a.done = TRUE /\ a.by = adds[k].by /\ a.second = adds[k].second
      /\ a.begun = adds[k].begun /\ a.missed = adds[k].missed
  BY <1>3 DEF AddRecord
<1> HIDE DEF a
<1>5. /\ b \in AddRecord /\ b.done = TRUE /\ b.by = adds[k].by /\ b.second = adds[k].second
      /\ b.begun = adds[k].begun /\ b.missed = adds[k].missed /\ b.at = clock
  BY <1>3, <1>4 DEF AddRecord
<1> HIDE DEF b
<1>6. /\ c \in AddRecord /\ c.done = TRUE /\ c.by = adds[k].by /\ c.second = adds[k].second
      /\ c.begun = adds[k].begun /\ c.missed = adds[k].missed /\ c.at = clock
      /\ c.resets = resets
  BY <1>3, <1>5 DEF AddRecord
<1> HIDE DEF c
<1>7. /\ adds' \in Seq(AddRecord) /\ DOMAIN adds' = DOMAIN adds /\ adds'[k] = c
      /\ \A i \in DOMAIN adds : i # k => adds'[i] = adds[i]
  BY <1>2, <1>6 DEF Types
<1> QED
  BY <1>1, <1>6, <1>7

\* The steps that do not touch the Adds, and who is in which part of Add.
AddsStill ==
    /\ UNCHANGED <<adds, bucket>>
    /\ \A p \in Proc :
         /\ pc[p] = "create" <=> pc'[p] = "create"
         /\ pc[p] = "append" <=> pc'[p] = "append"
         /\ pc[p] \in {"create", "append"} => now'[p] = now[p]

LEMMA StepsAdds ==
    ASSUME Types, [Next]_vars
    PROVE  (\E p \in Adder : FindBucket(p) \/ CreateBucket(p) \/ AppendDuration(p)) \/ AddsStill
<1> USE DEF AddsStill, Types, Goto, Proc, local
<1>1. ASSUME NEW p \in Viewer, ReadCache(p) PROVE AddsStill
  BY <1>1 DEF ReadCache
<1>2. ASSUME NEW p \in Viewer, Collect(p) PROVE AddsStill
  BY <1>2 DEF Collect
<1>3. ASSUME NEW p \in Viewer, Shown(p) PROVE AddsStill
  BY <1>3 DEF Shown
<1>4. ASSUME NEW p \in Resetter, Reset(p) PROVE AddsStill
  BY <1>4 DEF Reset
<1>5. ASSUME Tick \/ Terminated \/ UNCHANGED vars PROVE AddsStill
  BY <1>5 DEF Tick, Terminated, vars
<1> HIDE DEF AddsStill
<1> QED
  BY <1>1, <1>2, <1>3, <1>4, <1>5 DEF Next, Add, SortedDurations

LEMMA StepTypes == Types /\ AddsInv /\ BucketsInv /\ [Next]_vars => Types'
<1> SUFFICES ASSUME Types, AddsInv, BucketsInv, [Next]_vars PROVE Types'
  OBVIOUS
<1>1. ASSUME NEW p \in Adder, FindBucket(p) PROVE Types'
  <2>1. adds' \in Seq(AddRecord)
    BY <1>1, BeginsAdd
  <2>2. /\ UNCHANGED <<clock, heap, LastCachedTime, durations, resets>>
        /\ \E l \in {"append", "create"} : pc' = [pc EXCEPT ![p] = l]
        /\ now' = [now EXCEPT ![p] = clock]
        /\ DOMAIN bucket' = DOMAIN bucket
    BY <1>1 DEF FindBucket, Goto, shared
  <2> QED
    BY <2>1, <2>2 DEF Types, Location
<1>2. ASSUME NEW p \in Adder, CreateBucket(p) PROVE Types'
  <2>1. heap' \in Seq(SUBSET Nat)
    <3>1. heap' = Append(heap, {}) /\ {} \in SUBSET Nat
      BY <1>2 DEF CreateBucket
    <3> QED
      BY <3>1 DEF Types
  <2>2. /\ UNCHANGED <<clock, LastCachedTime, now, durations, resets, adds>>
        /\ pc' = [pc EXCEPT ![p] = "append"]
        /\ DOMAIN bucket' = DOMAIN bucket
    BY <1>2 DEF CreateBucket, Goto
  <2> QED
    BY <2>1, <2>2 DEF Types, Location
<1>3. ASSUME NEW p \in Adder, AppendDuration(p) PROVE Types'
  <2>1. adds' \in Seq(AddRecord)
    BY <1>3, EndsAdd
  <2>2. heap' \in Seq(SUBSET Nat)
    <3>1. pc[p] = "append" /\ p \in Proc
      BY <1>3 DEF AppendDuration, Goto, Proc
    <3>2. bucket[p] \in DOMAIN heap /\ Pending(p) \in Nat
      BY <3>1, PendingAdd DEF BucketsInv, Types
    <3>3. heap[bucket[p]] \cup {Pending(p)} \in SUBSET Nat
      BY <3>2 DEF Types
    <3>4. heap' = [heap EXCEPT ![bucket[p]] = heap[bucket[p]] \cup {Pending(p)}]
      BY <1>3 DEF AppendDuration
    <3> QED
      BY <3>2, <3>3, <3>4 DEF Types
  <2>3. /\ UNCHANGED <<clock, LastCachedTime, now, bucket, durations, resets>>
        /\ pc' = [pc EXCEPT ![p] = "idle"]
    BY <1>3 DEF AppendDuration, Goto, local
  <2> QED
    BY <2>1, <2>2, <2>3 DEF Types, Location
<1>4. ASSUME NEW p \in Viewer, ReadCache(p) PROVE Types'
  BY <1>4 DEF ReadCache, Types, Location, Goto, shared
<1>5. ASSUME NEW p \in Viewer, Collect(p) PROVE Types'
  <2>1. /\ UNCHANGED <<clock, heap, now, bucket, resets, adds>> /\ LastCachedTime' = clock
        /\ pc' = [pc EXCEPT ![p] = "returned"] /\ DOMAIN durations' = DOMAIN durations
    BY <1>5 DEF Collect, Goto
  <2>2. LastCachedTime' \in Nat /\ LastCachedTime' <= clock'
    BY <2>1 DEF Types
  <2> QED
    BY <2>1, <2>2 DEF Types, Location
<1>6. ASSUME NEW p \in Viewer, Shown(p) PROVE Types'
  BY <1>6 DEF Shown, Types, Location, Goto, shared
<1>7. ASSUME NEW p \in Resetter, Reset(p) PROVE Types'
  BY <1>7 DEF Reset, Types, local
<1>8. CASE Tick
  BY <1>8 DEF Tick, Types, shared, local
<1>9. CASE Terminated \/ UNCHANGED vars
  BY <1>9 DEF Terminated, vars, Types, shared, local
<1> QED
  BY <1>1, <1>2, <1>3, <1>4, <1>5, <1>6, <1>7, <1>8, <1>9 DEF Next, Add, SortedDurations

LEMMA StepAdds == Types /\ AddsInv /\ [Next]_vars => AddsInv'
<1> SUFFICES ASSUME Types, AddsInv, [Next]_vars PROVE AddsInv'
  OBVIOUS
<1>t. /\ clock \in Nat /\ resets \in Nat /\ pc \in [Proc -> Location] /\ now \in [Proc -> Nat]
      /\ \A i \in DOMAIN adds : adds[i].by \in Proc /\ adds[i].begun \in Nat
  BY AddAt DEF Types, AddRecord, Proc
<1>1. ASSUME NEW p \in Adder, FindBucket(p) PROVE AddsInv'
  <2>0. PICK k : k = Len(adds) + 1
    OBVIOUS
  <2>1. /\ k \notin DOMAIN adds /\ DOMAIN adds' = DOMAIN adds \cup {k}
        /\ \A i \in DOMAIN adds : adds'[i] = adds[i]
        /\ adds'[k].by = p /\ adds'[k].second = Unix(clock) /\ adds'[k].begun = resets
        /\ adds'[k].missed = (Unix(clock) \notin DOMAIN Buckets)
        /\ adds'[k].done = FALSE
    BY <1>1, <2>0, BeginsAdd
  <2>2. /\ UNCHANGED <<clock, resets>> /\ now' = [now EXCEPT ![p] = clock] /\ p \in Proc
        /\ pc[p] = "idle"
        /\ \/ pc' = [pc EXCEPT ![p] = "append"]
           \/ pc' = [pc EXCEPT ![p] = "create"] /\ Unix(clock) \notin DOMAIN Buckets
    BY <1>1 DEF FindBucket, Goto, Proc
  <2>3. \A i \in DOMAIN adds : ~adds[i].done => adds[i].by # p
    BY <2>2 DEF AddsInv
  <2>4. pc'[p] \in {"create", "append"} /\ now'[p] = clock /\ (pc'[p] = "create" => adds'[k].missed)
        /\ \A q \in Proc : q # p => pc'[q] = pc[q] /\ now'[q] = now[q]
    BY <1>t, <2>1, <2>2
  <2> QED
    BY <1>t, <2>1, <2>2, <2>3, <2>4 DEF AddsInv
<1>2. ASSUME NEW p \in Adder, CreateBucket(p) PROVE AddsInv'
  <2>1. /\ UNCHANGED <<clock, now, resets, adds>> /\ p \in Proc
        /\ pc[p] = "create" /\ pc' = [pc EXCEPT ![p] = "append"]
    BY <1>2 DEF CreateBucket, Goto, Proc
  <2> QED
    BY <1>t, <2>1 DEF AddsInv
<1>3. ASSUME NEW p \in Adder, AppendDuration(p) PROVE AddsInv'
  <2>1. /\ DOMAIN adds' = DOMAIN adds
        /\ \A i \in DOMAIN adds :
                /\ i # Pending(p) => adds'[i] = adds[i]
                /\ adds'[i].by = adds[i].by /\ adds'[i].second = adds[i].second
                /\ adds'[i].begun = adds[i].begun /\ adds'[i].missed = adds[i].missed
        /\ adds'[Pending(p)].done = TRUE
    BY <1>3, EndsAdd
  <2>2. /\ UNCHANGED <<clock, now, resets>> /\ p \in Proc
        /\ pc[p] = "append" /\ pc' = [pc EXCEPT ![p] = "idle"]
    BY <1>3 DEF AppendDuration, Goto, local, Proc
  <2>3. \A i \in DOMAIN adds : adds[i].by = p /\ ~adds[i].done => i = Pending(p)
    BY <2>2, PendingAdd
  <2>4. \A i \in DOMAIN adds : ~adds'[i].done => adds'[i] = adds[i] /\ adds[i].by # p /\ ~adds[i].done
    BY <2>1, <2>3
  <2>5. \A q \in Proc : pc'[q] \in {"create", "append"} =>
           \E i \in DOMAIN adds' : adds'[i].by = q /\ ~adds'[i].done
    <3> SUFFICES ASSUME NEW q \in Proc, pc'[q] \in {"create", "append"}
                 PROVE  \E i \in DOMAIN adds' : adds'[i].by = q /\ ~adds'[i].done
      OBVIOUS
    <3>1. q # p /\ pc[q] \in {"create", "append"}
      BY <1>t, <2>2
    <3>2. PICK i \in DOMAIN adds : adds[i].by = q /\ ~adds[i].done
      BY <3>1 DEF AddsInv
    <3>3. i # Pending(p)
      BY <2>2, <3>1, <3>2, PendingAdd
    <3> QED
      BY <2>1, <3>2, <3>3
  <2> QED
    BY <1>t, <2>1, <2>2, <2>4, <2>5 DEF AddsInv
<1>4. CASE AddsStill
  <2> DEFINE Later == /\ clock' \in Nat /\ resets' \in Nat /\ clock <= clock' /\ resets <= resets'
                      /\ \A q \in Proc : now'[q] <= clock'
  <2>1. Later
    <3> USE <1>t DEF AddsInv
    <3>1. ASSUME NEW p \in Adder, FindBucket(p) PROVE Later
      BY <3>1 DEF FindBucket, Proc
    <3>2. ASSUME NEW p \in Adder, CreateBucket(p) \/ AppendDuration(p) PROVE Later
      BY <3>2 DEF CreateBucket, AppendDuration, local
    <3>3. ASSUME NEW p \in Viewer, ReadCache(p) PROVE Later
      BY <3>3 DEF ReadCache, Proc
    <3>4. ASSUME NEW p \in Viewer, Collect(p) \/ Shown(p) PROVE Later
      <4>1. UNCHANGED <<clock, now, resets>>
        BY <3>4 DEF Collect, Shown
      <4> QED
        BY <4>1
    <3>5. ASSUME NEW p \in Resetter, Reset(p) PROVE Later
      BY <3>5 DEF Reset, local
    <3>6. ASSUME Tick PROVE Later
      BY <3>6 DEF Tick, local
    <3>7. ASSUME Terminated \/ UNCHANGED vars PROVE Later
      BY <3>7 DEF Terminated, vars, local
    <3> HIDE DEF Later
    <3> QED
      BY <3>1, <3>2, <3>3, <3>4, <3>5, <3>6, <3>7 DEF Next, Add, SortedDurations
  <2> QED
    BY <1>4, <1>t, <2>1 DEF AddsStill, AddsInv
<1> QED
  BY <1>1, <1>2, <1>3, <1>4, StepsAdds

----------------------------------------------------------------------------
(* Buckets.                                                                *)

\* The Adds of an earlier state are still there and have not gone back.
AddsGrow ==
    /\ DOMAIN adds \subseteq DOMAIN adds'
    /\ \A i \in DOMAIN adds :
         /\ adds'[i].by = adds[i].by /\ adds'[i].second = adds[i].second
         /\ adds'[i].begun = adds[i].begun /\ adds'[i].missed = adds[i].missed
         /\ adds[i].done => adds'[i] = adds[i]
         /\ PastCreate(i) => PastCreate(i)'

LEMMA StepGrow == ASSUME Types, AddsInv, [Next]_vars PROVE AddsGrow
<1>t. /\ pc \in [Proc -> Location]
      /\ \A i \in DOMAIN adds : adds[i].by \in Proc /\ adds[i].done \in BOOLEAN
  BY AddAt DEF Types, AddRecord, Proc
<1> USE DEF AddsGrow, PastCreate
<1>1. ASSUME NEW p \in Adder, FindBucket(p) PROVE AddsGrow
  <2>1. /\ DOMAIN adds \subseteq DOMAIN adds'
        /\ \A i \in DOMAIN adds : adds'[i] = adds[i]
    BY <1>1, BeginsAdd
  <2>2. p \in Proc /\ pc[p] = "idle" /\ \E l : pc' = [pc EXCEPT ![p] = l]
    BY <1>1 DEF FindBucket, Goto, Proc
  <2>3. \A i \in DOMAIN adds : ~adds[i].done => adds[i].by # p
    BY <2>2 DEF AddsInv
  <2> QED
    BY <1>t, <2>1, <2>2, <2>3
<1>2. ASSUME NEW p \in Adder, CreateBucket(p) PROVE AddsGrow
  <2>1. UNCHANGED adds /\ p \in Proc /\ pc' = [pc EXCEPT ![p] = "append"]
    BY <1>2 DEF CreateBucket, Goto, Proc
  <2> QED
    BY <1>t, <2>1
<1>3. ASSUME NEW p \in Adder, AppendDuration(p) PROVE AddsGrow
  <2>1. p \in Proc /\ pc[p] = "append" /\ pc' = [pc EXCEPT ![p] = "idle"]
    BY <1>3 DEF AppendDuration, Goto, Proc
  <2>2. /\ DOMAIN adds' = DOMAIN adds
        /\ \A i \in DOMAIN adds :
                /\ i # Pending(p) => adds'[i] = adds[i]
                /\ adds'[i].by = adds[i].by /\ adds'[i].second = adds[i].second
                /\ adds'[i].begun = adds[i].begun /\ adds'[i].missed = adds[i].missed
        /\ adds'[Pending(p)].done = TRUE
    BY <1>3, EndsAdd
  <2>3. ~adds[Pending(p)].done
    BY <2>1, PendingAdd
  <2> QED
    BY <1>t, <2>1, <2>2, <2>3
<1>4. CASE AddsStill
  BY <1>4, <1>t DEF AddsStill
<1> QED
  BY <1>1, <1>2, <1>3, <1>4, StepsAdds

LEMMA StepBuckets == Types /\ AddsInv /\ BucketsInv /\ [Next]_vars => BucketsInv'
<1> SUFFICES ASSUME Types, AddsInv, BucketsInv, [Next]_vars PROVE BucketsInv'
  OBVIOUS
<1>t. /\ pc \in [Proc -> Location] /\ DOMAIN bucket = Proc /\ clock \in Nat
      /\ heap \in Seq(SUBSET Nat)
  BY DEF Types
<1>g. AddsGrow
  BY StepGrow
<1>m. \A k \in Nat :
        (\E i \in DOMAIN adds : adds[i].missed /\ adds[i].second = k /\ PastCreate(i))
          => \E i \in DOMAIN adds' : adds'[i].missed /\ adds'[i].second = k /\ PastCreate(i)'
  BY <1>g DEF AddsGrow
<1>d. \A i \in DOMAIN adds : adds[i].done => i \in DOMAIN adds' /\ adds'[i].done
  BY <1>g DEF AddsGrow
<1>1. ASSUME NEW p \in Adder, FindBucket(p) PROVE BucketsInv'
  <2>1. /\ UNCHANGED <<clock, Buckets, heap, CachedSortedDurations>>
        /\ \/ /\ pc' = [pc EXCEPT ![p] = "append"] /\ Unix(clock) \in DOMAIN Buckets
              /\ bucket' = [bucket EXCEPT ![p] = Buckets[Unix(clock)]]
           \/ /\ pc' = [pc EXCEPT ![p] = "create"] 
              /\ bucket' = [bucket EXCEPT ![p] = 0]
    BY <1>1 DEF FindBucket, Goto, shared
  <2> QED
    BY <1>t, <1>m, <1>d, <2>1 DEF BucketsInv
<1>2. ASSUME NEW p \in Adder, CreateBucket(p) PROVE BucketsInv'
  <2>0. PICK b : b = Len(heap) + 1
    OBVIOUS
  <2>1. /\ UNCHANGED <<clock, CachedSortedDurations, adds>> /\ p \in Proc
        /\ pc[p] = "create" /\ pc' = [pc EXCEPT ![p] = "append"]
        /\ bucket' = [bucket EXCEPT ![p] = b]
        /\ DOMAIN Buckets' = DOMAIN Buckets \cup {Unix(now[p])}
        /\ Buckets'[Unix(now[p])] = b
        /\ \A k \in DOMAIN Buckets : k # Unix(now[p]) => Buckets'[k] = Buckets[k]
    BY <1>2, <2>0 DEF CreateBucket, Goto, Proc
  <2>2. /\ DOMAIN heap' = DOMAIN heap \cup {b} /\ heap'[b] = {}
        /\ \A j \in DOMAIN heap : heap'[j] = heap[j]
    BY <1>2, <1>t, <2>0 DEF CreateBucket
  <2>3. now[p] \in Nat /\ now[p] <= clock
    BY <2>1 DEF Types, AddsInv
  <2>4. Unix(now[p]) \in Nat /\ Unix(now[p]) <= Unix(clock)
    BY <1>t, <2>3, UnixType, UnixMonotone
  <2>5. \E i \in DOMAIN adds' : adds'[i].missed /\ adds'[i].second = Unix(now[p]) /\ PastCreate(i)'
    <3>1. PICK i \in DOMAIN adds : adds[i].by = p /\ ~adds[i].done
      BY <2>1 DEF AddsInv
    <3>2. adds[i].missed /\ adds[i].second = Unix(now[p])
      BY <2>1, <3>1 DEF AddsInv
    <3>3. PastCreate(i)'
      BY <1>t, <2>1, <3>1 DEF PastCreate
    <3> QED
      BY <2>1, <3>2, <3>3
  <2> QED
    BY <1>t, <1>m, <2>1, <2>2, <2>4, <2>5 DEF BucketsInv
<1>3. ASSUME NEW p \in Adder, AppendDuration(p) PROVE BucketsInv'
  <2>1. /\ UNCHANGED <<clock, CachedSortedDurations, bucket>> /\ p \in Proc
        /\ pc[p] = "append" /\ pc' = [pc EXCEPT ![p] = "idle"]
        /\ DOMAIN Buckets' \subseteq DOMAIN Buckets
        /\ \A k \in DOMAIN Buckets' : Buckets'[k] = Buckets[k]
    BY <1>3 DEF AppendDuration, RemoveOldBuckets, Goto, local, Proc
  <2>2. bucket[p] \in DOMAIN heap /\ Pending(p) \in DOMAIN adds
    BY <2>1, PendingAdd DEF BucketsInv
  <2>3. /\ DOMAIN heap' = DOMAIN heap
        /\ \A j \in DOMAIN heap : heap'[j] \subseteq heap[j] \cup {Pending(p)}
    BY <1>3, <1>t, <2>2 DEF AppendDuration
  <2>4. Pending(p) \in DOMAIN adds' /\ adds'[Pending(p)].done
    BY <1>3, <2>2, EndsAdd
  <2> QED
    BY <1>t, <1>m, <1>d, <2>1, <2>3, <2>4 DEF BucketsInv
<1>4. ASSUME NEW p \in Viewer, Collect(p) PROVE BucketsInv'
  <2>1. /\ UNCHANGED <<clock, Buckets, heap, bucket, adds>>
        /\ pc' = [pc EXCEPT ![p] = "returned"] /\ pc[p] = "collect"
    BY <1>4 DEF Collect, Goto
  <2>2. \A i \in CachedSortedDurations' : \E k \in DOMAIN Buckets : i \in heap[Buckets[k]]
    BY <1>4 DEF Collect
  <2>3. \A i \in CachedSortedDurations' : i \in DOMAIN adds /\ adds[i].done
    BY <2>2 DEF BucketsInv
  <2> QED
    BY <1>t, <1>m, <1>d, <2>1, <2>3 DEF BucketsInv
<1>5. ASSUME NEW p \in Resetter, Reset(p) PROVE BucketsInv'
  BY <1>5, <1>d DEF Reset, BucketsInv, local
<1>6. CASE Tick
  <2>1. clock' \in Nat /\ Unix(clock) <= Unix(clock') /\ Unix(clock) \in Nat /\ Unix(clock') \in Nat
    BY <1>t, <1>6, UnixMonotone, UnixType DEF Tick
  <2> QED
    BY <1>6, <1>m, <1>d, <2>1 DEF Tick, BucketsInv, shared, local
<1>7. ASSUME NEW p \in Viewer, ReadCache(p) \/ Shown(p) PROVE BucketsInv'
  <2>1. /\ UNCHANGED <<clock, Buckets, heap, CachedSortedDurations, bucket>>
        /\ \A q \in Proc : pc'[q] = "append" => pc[q] = "append"
    BY <1>7, <1>t DEF ReadCache, Shown, Goto, shared
  <2> QED
    BY <1>m, <1>d, <2>1 DEF BucketsInv
<1>8. CASE Terminated \/ UNCHANGED vars
  <2>1. UNCHANGED <<clock, Buckets, heap, CachedSortedDurations, bucket, pc>>
    BY <1>8 DEF Terminated, vars, shared, local
  <2> QED
    BY <1>m, <1>d, <2>1 DEF BucketsInv
<1> QED
  BY <1>1, <1>2, <1>3, <1>4, <1>5, <1>6, <1>7, <1>8 DEF Next, Add, SortedDurations

\* The invariant that the properties rest on.
TimingInv == Types /\ AddsInv /\ BucketsInv

LEMMA InitTiming == Init => TimingInv
<1> SUFFICES ASSUME Init PROVE TimingInv
  OBVIOUS
<1>1. Types
  BY SecondAssumption DEF Init, Types, Location
<1>2. AddsInv
  BY SecondAssumption DEF Init, AddsInv
<1>3. BucketsInv
  BY DEF Init, BucketsInv
<1> QED
  BY <1>1, <1>2, <1>3 DEF TimingInv

LEMMA TimingKept == Spec => []TimingInv
<1>1. TimingInv /\ [Next]_vars => TimingInv'
  BY StepTypes, StepAdds, StepBuckets DEF TimingInv
<1> QED
  BY <1>1, InitTiming, PTL DEF Spec

----------------------------------------------------------------------------
(* Reset.                                                                  *)

\* What a viewer can reach was added since the last Reset.
Reachable == CachedSortedDurations \cup UNION {heap[Buckets[k]] : k \in DOMAIN Buckets}
SinceReset == \A i \in Reachable : adds[i].resets = resets

\* A step of anything but Add makes nothing reachable; Reset leaves nothing reachable.
LEMMA StepReset == TimingInv /\ SinceReset /\ [Next]_vars => SinceReset'
<1> SUFFICES ASSUME TimingInv, SinceReset, [Next]_vars, NEW i \in Reachable'
             PROVE  adds'[i].resets = resets'
  BY DEF SinceReset
<1> USE DEF TimingInv
<1>r. \A j \in Reachable : j \in DOMAIN adds /\ adds[j].done /\ adds[j].resets = resets
  BY DEF SinceReset, Reachable, BucketsInv
<1>g. \A j \in DOMAIN adds : adds[j].done => adds'[j] = adds[j]
  BY StepGrow DEF AddsGrow
<1>1. ASSUME resets' = resets, Reachable' \subseteq Reachable PROVE adds'[i].resets = resets'
  BY <1>1, <1>r, <1>g
<1>2. ASSUME NEW p \in Adder, CreateBucket(p) PROVE resets' = resets /\ Reachable' \subseteq Reachable
  <2>0. PICK b : b = Len(heap) + 1
    OBVIOUS
  <2>1. /\ UNCHANGED <<CachedSortedDurations, resets>>
        /\ DOMAIN Buckets' = DOMAIN Buckets \cup {Unix(now[p])}
        /\ Buckets'[Unix(now[p])] = b
        /\ \A k \in DOMAIN Buckets : k # Unix(now[p]) => Buckets'[k] = Buckets[k]
    BY <1>2, <2>0 DEF CreateBucket
  <2>2. heap'[b] = {} /\ \A j \in DOMAIN heap : heap'[j] = heap[j]
    BY <1>2, <2>0 DEF CreateBucket, Types
  <2>3. \A k \in DOMAIN Buckets : Buckets[k] \in DOMAIN heap
    BY DEF BucketsInv
  <2> QED
    BY <2>1, <2>2, <2>3 DEF Reachable
<1>3. ASSUME NEW p \in Adder, AppendDuration(p) PROVE adds'[i].resets = resets'
  <2>1. /\ UNCHANGED <<CachedSortedDurations, resets>> /\ p \in Proc /\ pc[p] = "append"
        /\ \A k \in DOMAIN Buckets' : k \in DOMAIN Buckets /\ Buckets'[k] = Buckets[k]
    BY <1>3 DEF AppendDuration, RemoveOldBuckets, Goto, Proc
  <2>2. \A j \in DOMAIN heap : heap'[j] \subseteq heap[j] \cup {Pending(p)}
    BY <1>3 DEF AppendDuration, Types
  <2>3. Reachable' \subseteq Reachable \cup {Pending(p)}
    BY <2>1, <2>2 DEF Reachable, BucketsInv
  <2>4. adds'[Pending(p)].resets = resets
    BY <1>3, EndsAdd
  <2> QED
    BY <1>r, <1>g, <2>1, <2>3, <2>4
<1>4. ASSUME NEW p \in Viewer, Collect(p) PROVE resets' = resets /\ Reachable' \subseteq Reachable
  <2>1. UNCHANGED <<Buckets, heap, resets>>
    BY <1>4 DEF Collect
  <2>2. CachedSortedDurations' \subseteq UNION {heap[Buckets[k]] : k \in DOMAIN Buckets}
    BY <1>4 DEF Collect
  <2> QED
    BY <2>1, <2>2 DEF Reachable
<1>5. ASSUME NEW p \in Resetter, Reset(p) PROVE FALSE
  <2>1. CachedSortedDurations' = {} /\ DOMAIN Buckets' = {}
    BY <1>5 DEF Reset
  <2> QED
    BY <2>1 DEF Reachable
<1>6. ASSUME UNCHANGED <<shared, resets>> PROVE resets' = resets /\ Reachable' \subseteq Reachable
  BY <1>6 DEF Reachable, shared
<1>7. ASSUME NEW p \in Proc, FindBucket(p) \/ ReadCache(p) \/ Shown(p) PROVE UNCHANGED <<shared, resets>>
  BY <1>7 DEF FindBucket, ReadCache, Shown
<1>8. ASSUME Tick \/ Terminated \/ UNCHANGED vars PROVE UNCHANGED <<shared, resets>>
  BY <1>8 DEF Tick, Terminated, vars
<1> QED
  BY <1>1, <1>2, <1>3, <1>4, <1>5, <1>6, <1>7, <1>8 DEF Next, Add, SortedDurations, Proc

\* No duration from before a Reset is in a bucket of the map or in the cache
\* (rolling_timing.go:150-157).
THEOREM ResetLeavesNothing == Spec => []ResetForgets
<1>1. Init => SinceReset
  BY DEF Init, SinceReset, Reachable
<1>2. SinceReset => ResetForgets
  BY DEF SinceReset, ResetForgets, Reachable
<1> QED
  BY <1>1, <1>2, TimingKept, StepReset, PTL DEF Spec

----------------------------------------------------------------------------
(* Growth of the map.                                                      *)

LEMMA StepGrowth == TimingInv /\ GrowthInv /\ [Next]_vars => GrowthInv'
<1> SUFFICES ASSUME TimingInv, GrowthInv, [Next]_vars PROVE GrowthInv'
  OBVIOUS
<1>t. /\ pc \in [Proc -> Location] /\ now \in [Proc -> Nat] /\ clock \in Nat
      /\ Unix(clock) \in Nat /\ Window \in Nat
  BY UnixType, WindowAssumption DEF TimingInv, Types
<1>w. PICK w \in 0..Unix(clock) :
        DOMAIN Buckets \subseteq ((w - Window + 1)..w) \cup {Unix(now[p]) : p \in Appending}
  BY DEF GrowthInv
<1>f. IsFiniteSet(Appending)
  BY DEF GrowthInv
<1>1. ASSUME NEW p \in Adder, FindBucket(p) PROVE GrowthInv'
  <2>1. /\ UNCHANGED <<clock, Buckets>> /\ p \in Proc /\ pc[p] = "idle"
        /\ now' = [now EXCEPT ![p] = clock]
        /\ \/ pc' = [pc EXCEPT ![p] = "append"]
           \/ pc' = [pc EXCEPT ![p] = "create"]
    BY <1>1 DEF FindBucket, Goto, Proc, shared
  <2>2. Appending \subseteq Appending' /\ \A q \in Appending : now'[q] = now[q]
    BY <1>t, <2>1 DEF Appending
  <2>3. Appending' = Appending \/ Appending' = Appending \cup {p}
    BY <1>t, <2>1 DEF Appending
  <2>4. IsFiniteSet(Appending')
    BY <1>f, <2>3, FS_AddElement
  <2> QED
    BY <1>w, <2>1, <2>2, <2>4 DEF GrowthInv
<1>2. ASSUME NEW p \in Adder, CreateBucket(p) PROVE GrowthInv'
  <2>1. /\ UNCHANGED <<clock, now>> /\ p \in Proc /\ pc' = [pc EXCEPT ![p] = "append"]
        /\ DOMAIN Buckets' = DOMAIN Buckets \cup {Unix(now[p])}
    BY <1>2 DEF CreateBucket, Goto, Proc
  <2>2. Appending' = Appending \cup {p}
    BY <1>t, <2>1 DEF Appending
  <2>3. IsFiniteSet(Appending')
    BY <1>f, <2>2, FS_AddElement
  <2> QED
    BY <1>w, <2>1, <2>2, <2>3 DEF GrowthInv
<1>3. ASSUME NEW p \in Adder, AppendDuration(p) PROVE GrowthInv'
  <2>1. /\ UNCHANGED clock /\ p \in Proc /\ pc' = [pc EXCEPT ![p] = "idle"]
        /\ DOMAIN Buckets' = {j \in DOMAIN Buckets : j > Unix(clock) - Window}
    BY <1>3 DEF AppendDuration, RemoveOldBuckets, Goto, Proc
  <2>2. Appending' \subseteq Appending
    BY <1>t, <2>1 DEF Appending
  <2>3. IsFiniteSet(Appending')
    BY <1>f, <2>2, FS_Subset
  <2>4. \A k \in DOMAIN Buckets : k \in Nat /\ k <= Unix(clock)
    BY DEF TimingInv, BucketsInv
  <2>5. DOMAIN Buckets' \subseteq (Unix(clock) - Window + 1)..Unix(clock)
    BY <1>t, <2>1, <2>4
  <2>6. Unix(clock) \in 0..Unix(clock)'
    BY <1>t, <2>1
  <2> QED
    BY <2>1, <2>3, <2>5, <2>6 DEF GrowthInv
<1>4. ASSUME NEW p \in Resetter, Reset(p) PROVE GrowthInv'
  <2>1. UNCHANGED <<clock, pc, now>> /\ DOMAIN Buckets' = {}
    BY <1>4 DEF Reset, local
  <2> QED
    BY <1>w, <1>f, <2>1 DEF GrowthInv, Appending
<1>5. ASSUME UNCHANGED Buckets, clock' \in Nat, clock <= clock',
             \A q \in Proc : /\ pc'[q] = "append" <=> pc[q] = "append"
                             /\ pc[q] = "append" => now'[q] = now[q]
      PROVE  GrowthInv'
  <2>1. Appending' = Appending /\ \A q \in Appending : now'[q] = now[q]
    BY <1>5 DEF Appending
  <2>2. w \in 0..Unix(clock)'
    <3>1. Unix(clock') \in Nat /\ Unix(clock) <= Unix(clock')
      BY <1>t, <1>5, UnixType, UnixMonotone
    <3> QED
      BY <1>t, <3>1
  <2> QED
    BY <1>w, <1>f, <1>5, <2>1, <2>2 DEF GrowthInv
<1> DEFINE Quiet == /\ UNCHANGED Buckets /\ clock' \in Nat /\ clock <= clock'
                    /\ \A q \in Proc : /\ pc'[q] = "append" <=> pc[q] = "append"
                                       /\ pc[q] = "append" => now'[q] = now[q]
<1>6. ASSUME NEW p \in Viewer, ReadCache(p) \/ Shown(p) PROVE Quiet
  BY <1>6, <1>t DEF ReadCache, Shown, Goto, shared
<1>7. ASSUME NEW p \in Viewer, Collect(p) PROVE Quiet
  <2>1. UNCHANGED <<Buckets, clock, now>> /\ pc[p] = "collect" /\ pc' = [pc EXCEPT ![p] = "returned"]
    BY <1>7 DEF Collect, Goto
  <2> QED
    BY <1>t, <2>1
<1>8. ASSUME Tick \/ Terminated \/ UNCHANGED vars PROVE Quiet
  BY <1>8, <1>t DEF Tick, Terminated, vars, shared, local
<1>9. ASSUME Quiet PROVE GrowthInv'
  BY <1>5, <1>9
<1> HIDE DEF Quiet
<1> QED
  BY <1>1, <1>2, <1>3, <1>4, <1>6, <1>7, <1>8, <1>9 DEF Next, Add, SortedDurations

\* At most Window seconds lie in a window, and the image of a set is no larger than the set.
LEMMA GrowthBounds == GrowthInv => BucketsBounded
<1> SUFFICES ASSUME GrowthInv PROVE BucketsBounded
  OBVIOUS
<1> DEFINE I == {Unix(now[p]) : p \in Appending}
<1>w. PICK w \in Int : DOMAIN Buckets \subseteq ((w - Window + 1)..w) \cup I
  BY DEF GrowthInv
<1>1. /\ IsFiniteSet((w - Window + 1)..w)
      /\ Cardinality((w - Window + 1)..w) = Window
  <2>1. w - Window + 1 \in Int /\ w - (w - Window + 1) + 1 = Window /\ w - Window + 1 <= w
    BY <1>w, WindowAssumption
  <2> QED
    BY <1>w, <2>1, FS_Interval
<1>2. IsFiniteSet(I) /\ Cardinality(I) <= Cardinality(Appending)
  <2> DEFINE f == [p \in Appending |-> Unix(now[p])]
  <2>1. f \in Surjection(Appending, I)
    BY DEF Surjection
  <2> QED
    BY <2>1, FS_Surjection DEF GrowthInv
<1> HIDE DEF I
<1>3. IsFiniteSet(((w - Window + 1)..w) \cup I)
  BY <1>1, <1>2, FS_Union
<1>4. Cardinality(((w - Window + 1)..w) \cup I) <= Window + Cardinality(I)
  <2>1. Cardinality(((w - Window + 1)..w) \cup I)
          = Cardinality((w - Window + 1)..w) + Cardinality(I) - Cardinality(((w - Window + 1)..w) \cap I)
    BY <1>1, <1>2, FS_Union
  <2>2. Cardinality(((w - Window + 1)..w) \cap I) \in Nat
    BY <1>1, FS_Intersection, FS_CardinalityType
  <2>3. Cardinality(I) \in Nat
    BY <1>2, FS_CardinalityType
  <2> QED
    BY <1>1, <2>1, <2>2, <2>3, WindowAssumption
<1>5. Cardinality(DOMAIN Buckets) <= Cardinality(((w - Window + 1)..w) \cup I)
  BY <1>w, <1>3, FS_Subset
<1>6. /\ Cardinality(DOMAIN Buckets) \in Nat /\ Cardinality(Appending) \in Nat
      /\ Cardinality(I) \in Nat /\ Cardinality(((w - Window + 1)..w) \cup I) \in Nat
  BY <1>w, <1>2, <1>3, FS_Subset, FS_CardinalityType DEF GrowthInv
<1>7. Cardinality(DOMAIN Buckets) <= Window + Cardinality(Appending)
  BY <1>2, <1>4, <1>5, <1>6, WindowAssumption
<1> QED
  BY <1>7 DEF BucketsBounded, Appending

\* The map does not grow with time (rolling_timing.go:92-101).
THEOREM MapBounded == Spec => []BucketsBounded
<1>1. Init => GrowthInv
  <2> SUFFICES ASSUME Init PROVE GrowthInv
    OBVIOUS
  <2>1. Appending = {} /\ DOMAIN Buckets = {} /\ clock \in Nat
    BY SecondAssumption DEF Init, Appending
  <2>2. 0 \in 0..Unix(clock)
    BY <2>1, UnixType
  <2> QED
    BY <2>1, <2>2, FS_EmptySet DEF GrowthInv
<1> QED
  BY <1>1, TimingKept, StepGrowth, GrowthBounds, PTL DEF Spec

----------------------------------------------------------------------------
(* Durations in their buckets.                                             *)

LEMMA RacedStays == ASSUME AddsGrow, NEW second, Raced(second) PROVE Raced(second)'
<1>1. PICK i, j \in DOMAIN adds : i # j /\ \A k \in {i, j} : adds[k].missed /\ adds[k].second = second
  BY DEF Raced
<1>2. /\ i \in DOMAIN adds' /\ j \in DOMAIN adds'
      /\ \A k \in {i, j} : adds'[k].missed /\ adds'[k].second = second
  BY <1>1 DEF AddsGrow
<1> QED
  BY <1>1, <1>2 DEF Raced

\* Whoever makes a bucket that is there already lost a race for it.
LEMMA SecondMaker ==
    ASSUME TimingInv, NEW p \in Proc, pc[p] = "create", Unix(now[p]) \in DOMAIN Buckets
    PROVE  Raced(Unix(now[p]))
<1>1. PICK i \in DOMAIN adds : adds[i].missed /\ adds[i].second = Unix(now[p]) /\ PastCreate(i)
  BY DEF TimingInv, BucketsInv
<1>2. PICK j \in DOMAIN adds : adds[j].by = p /\ ~adds[j].done
  BY DEF TimingInv, AddsInv
<1>3. adds[j].missed /\ adds[j].second = Unix(now[p]) /\ ~PastCreate(j)
  BY <1>2 DEF TimingInv, AddsInv, PastCreate
<1> QED
  BY <1>1, <1>3 DEF Raced

LEMMA StepKept == TimingInv /\ KeptInv /\ [Next]_vars => KeptInv'
<1> SUFFICES ASSUME TimingInv, KeptInv, [Next]_vars, NEW i \in DOMAIN adds',
                    adds'[i].begun = resets', PastCreate(i)'
             PROVE  (Expired(i) \/ Raced(adds[i].second) \/ HasBucket(i))'
  BY DEF KeptInv
<1> DEFINE Goal == (Expired(i) \/ Raced(adds[i].second) \/ HasBucket(i))'
<1>t. /\ pc \in [Proc -> Location] /\ DOMAIN bucket = Proc /\ clock \in Nat /\ Unix(clock) \in Nat
      /\ resets \in Nat /\ heap \in Seq(SUBSET Nat)
      /\ \A j \in DOMAIN adds : adds[j].by \in Proc /\ adds[j].second \in Nat
  BY UnixType, AddAt DEF TimingInv, Types, AddRecord, Proc
<1>g. AddsGrow
  BY StepGrow DEF TimingInv
<1>x. ASSUME i \in DOMAIN adds, PastCreate(i), resets' = resets, clock' \in Nat, clock <= clock'
      PROVE  Goal \/ HasBucket(i)
  <2>1. adds'[i].second = adds[i].second /\ adds[i].begun = resets
    BY <1>x, <1>g DEF AddsGrow
  <2>2. Expired(i) \/ Raced(adds[i].second) \/ HasBucket(i)
    BY <1>x, <2>1 DEF KeptInv
  <2>3. ASSUME Expired(i) PROVE Expired(i)'
    <3>1. Unix(clock) <= Unix(clock') /\ Unix(clock') \in Nat
      BY <1>t, <1>x, UnixMonotone, UnixType
    <3> QED
      BY <1>t, <1>x, <2>1, <2>3, <3>1, WindowAssumption DEF Expired
  <2>4. ASSUME Raced(adds[i].second) PROVE Raced(adds[i].second)'
    <3>1. PICK s : s = adds[i].second
      OBVIOUS
    <3>2. Raced(s)'
      BY <1>g, <2>4, <3>1, RacedStays
    <3> QED
      BY <2>1, <3>1, <3>2 DEF Raced
  <2> QED
    BY <2>2, <2>3, <2>4
<1>1. ASSUME NEW p \in Adder, FindBucket(p) PROVE Goal
  <2>0. PICK k : k = Len(adds) + 1
    OBVIOUS
  <2>1. /\ DOMAIN adds' = DOMAIN adds \cup {k} /\ \A j \in DOMAIN adds : adds'[j] = adds[j]
        /\ adds'[k].by = p /\ adds'[k].second = Unix(clock) /\ adds'[k].done = FALSE
    BY <1>1, <2>0, BeginsAdd DEF TimingInv
  <2>2. /\ UNCHANGED <<clock, Buckets, heap, resets>> /\ p \in Proc /\ pc[p] = "idle"
        /\ \/ /\ pc' = [pc EXCEPT ![p] = "append"] /\ Unix(clock) \in DOMAIN Buckets
              /\ bucket' = [bucket EXCEPT ![p] = Buckets[Unix(clock)]]
           \/ /\ pc' = [pc EXCEPT ![p] = "create"]
              /\ bucket' = [bucket EXCEPT ![p] = 0]
    BY <1>1 DEF FindBucket, Goto, shared, Proc
  <2>3. CASE i = k
    BY <1>t, <2>1, <2>2, <2>3 DEF HasBucket, PastCreate
  <2>4. CASE i \in DOMAIN adds
    <3>1. ~adds[i].done => adds[i].by # p
      BY <2>2, <2>4 DEF TimingInv, AddsInv
    <3>2. PastCreate(i)
      BY <1>t, <2>1, <2>2, <2>4, <3>1 DEF PastCreate
    <3>3. HasBucket(i) => HasBucket(i)'
      BY <1>t, <2>1, <2>2, <2>4, <3>1 DEF HasBucket
    <3> QED
      BY <1>t, <1>x, <2>2, <2>4, <3>2, <3>3
  <2> QED
    BY <2>1, <2>3, <2>4
<1>2. ASSUME NEW p \in Adder, CreateBucket(p) PROVE Goal
  <2>0. PICK b : b = Len(heap) + 1
    OBVIOUS
  <2>1. /\ UNCHANGED <<clock, resets, adds, now>> /\ p \in Proc
        /\ pc[p] = "create" /\ pc' = [pc EXCEPT ![p] = "append"]
        /\ bucket' = [bucket EXCEPT ![p] = b]
        /\ DOMAIN Buckets' = DOMAIN Buckets \cup {Unix(now[p])}
        /\ Buckets'[Unix(now[p])] = b
        /\ \A k \in DOMAIN Buckets : k # Unix(now[p]) => Buckets'[k] = Buckets[k]
    BY <1>2, <2>0 DEF CreateBucket, Goto, Proc
  <2>2. \A j \in DOMAIN heap : heap'[j] = heap[j]
    BY <1>2, <1>t, <2>0 DEF CreateBucket
  <2>3. CASE adds[i].by = p /\ ~adds[i].done
    <3>1. adds[i].second = Unix(now[p])
      BY <2>1, <2>3 DEF TimingInv, AddsInv
    <3> QED
      BY <1>t, <2>1, <2>3, <3>1 DEF HasBucket
  <2>4. CASE ~(adds[i].by = p /\ ~adds[i].done)
    <3>1. PastCreate(i)
      BY <1>t, <2>1, <2>4 DEF PastCreate
    <3>2. Goal \/ HasBucket(i)
      BY <1>t, <1>x, <2>1, <3>1
    <3>3. ASSUME HasBucket(i), adds[i].second = Unix(now[p]) PROVE Goal
      <4>1. Raced(Unix(now[p]))
        BY <2>1, <3>3, SecondMaker DEF HasBucket
      <4>2. PICK s : s = Unix(now[p])
        OBVIOUS
      <4>3. Raced(s)'
        BY <1>g, <4>1, <4>2, RacedStays
      <4> QED
        BY <2>1, <3>3, <4>2, <4>3 DEF Raced
    <3>4. ASSUME HasBucket(i), adds[i].second # Unix(now[p]) PROVE Goal
      BY <1>t, <2>1, <2>2, <2>4, <3>4 DEF HasBucket, TimingInv, BucketsInv
    <3> QED
      BY <3>2, <3>3, <3>4
  <2> QED
    BY <2>3, <2>4
<1>3. ASSUME NEW p \in Adder, AppendDuration(p) PROVE Goal
  <2>1. /\ UNCHANGED <<clock, bucket, resets>> /\ p \in Proc
        /\ pc[p] = "append" /\ pc' = [pc EXCEPT ![p] = "idle"]
        /\ DOMAIN Buckets' = {j \in DOMAIN Buckets : j > Unix(clock) - Window}
        /\ \A k \in DOMAIN Buckets' : Buckets'[k] = Buckets[k]
    BY <1>3 DEF AppendDuration, RemoveOldBuckets, Goto, local, Proc
  <2>2. /\ bucket[p] \in DOMAIN heap /\ Pending(p) \in DOMAIN adds /\ adds[Pending(p)].by = p
        /\ ~adds[Pending(p)].done
        /\ \A j \in DOMAIN adds : adds[j].by = p /\ ~adds[j].done => j = Pending(p)
    BY <2>1, PendingAdd DEF TimingInv, BucketsInv
  <2>3. /\ \A j \in DOMAIN heap : heap[j] \subseteq heap'[j]
        /\ Pending(p) \in heap'[bucket[p]]
    BY <1>3, <1>t, <2>2 DEF AppendDuration
  <2>4. /\ DOMAIN adds' = DOMAIN adds
        /\ \A j \in DOMAIN adds : j # Pending(p) => adds'[j] = adds[j]
        /\ adds'[i].second = adds[i].second /\ adds'[i].by = adds[i].by
        /\ adds'[Pending(p)].done = TRUE
    BY <1>3, EndsAdd DEF TimingInv
  <2>5. PastCreate(i)
    BY <1>t, <2>1, <2>2, <2>4 DEF PastCreate
  <2>6. Goal \/ HasBucket(i)
    BY <1>t, <1>x, <2>1, <2>4, <2>5
  <2>7. ASSUME HasBucket(i), adds[i].second \notin DOMAIN Buckets' PROVE Goal
    BY <1>t, <2>1, <2>4, <2>7, WindowAssumption DEF HasBucket, Expired
  <2>8. ASSUME HasBucket(i), adds[i].second \in DOMAIN Buckets' PROVE Goal
    <3>1. Buckets[adds[i].second] \in DOMAIN heap
      BY <2>8 DEF HasBucket, TimingInv, BucketsInv
    <3>2. CASE i = Pending(p)
      BY <2>1, <2>2, <2>3, <2>4, <2>8, <3>2 DEF HasBucket
    <3>3. CASE i # Pending(p)
      BY <2>1, <2>3, <2>4, <2>8, <3>1, <3>3 DEF HasBucket
    <3> QED
      BY <3>2, <3>3
  <2> QED
    BY <2>6, <2>7, <2>8
<1>4. ASSUME NEW p \in Resetter, Reset(p) PROVE FALSE
  BY <1>4, <1>t DEF Reset, TimingInv, AddsInv
<1>5. ASSUME AddsStill, UNCHANGED <<Buckets, heap, resets>>, clock' \in Nat, clock <= clock' PROVE Goal
  <2>1. i \in DOMAIN adds /\ PastCreate(i)
    BY <1>5, <1>t DEF AddsStill, PastCreate
  <2>2. HasBucket(i) => HasBucket(i)'
    BY <1>5 DEF AddsStill, HasBucket
  <2> QED
    BY <1>5, <1>x, <2>1, <2>2
<1>6. ASSUME NEW p \in Viewer, SortedDurations(p)
      PROVE  UNCHANGED <<Buckets, heap, resets>> /\ clock' \in Nat /\ clock <= clock'
  BY <1>6, <1>t DEF SortedDurations, ReadCache, Collect, Shown, shared
<1>7. ASSUME Tick \/ Terminated \/ UNCHANGED vars
      PROVE  UNCHANGED <<Buckets, heap, resets>> /\ clock' \in Nat /\ clock <= clock'
  BY <1>7, <1>t DEF Tick, Terminated, vars, shared
<1>8. AddsStill \/ \E p \in Adder : Add(p)
  BY StepsAdds DEF TimingInv, Add
<1> HIDE DEF Goal
<1>9. Goal
  BY <1>1, <1>2, <1>3, <1>4, <1>5, <1>6, <1>7, <1>8 DEF Next, Add
<1> QED
  BY <1>9 DEF Goal

LEMMA KeptSafe == TimingInv /\ KeptInv => KeptUnlessRaced
<1> SUFFICES ASSUME TimingInv, KeptInv, NEW i \in Recorded(clock)
             PROVE  Raced(adds[i].second) \/ Kept(i)
  BY DEF KeptUnlessRaced
<1>1. i \in DOMAIN adds /\ adds[i].done /\ adds[i].begun = resets /\ adds[i].second > Unix(clock) - Window
  BY DEF Recorded
<1>2. adds[i].second \in Nat /\ Unix(clock) \in Nat
  BY <1>1, AddAt, UnixType DEF TimingInv, Types, AddRecord
<1>3. ~Expired(i)
  BY <1>1, <1>2, WindowAssumption DEF Expired
<1> QED
  BY <1>1, <1>3 DEF KeptInv, PastCreate, HasBucket, Kept

LEMMA KeptInvariant == Spec => []KeptInv
<1>1. Init => KeptInv
  BY DEF Init, KeptInv
<1> QED
  BY <1>1, TimingKept, StepKept, PTL DEF Spec

\* A duration stays in the bucket of its second until the window has passed or Reset is
\* called, unless two Adds both had to make that bucket (rolling_timing.go:75-112).
THEOREM DurationsKept == Spec => []KeptUnlessRaced
BY TimingKept, KeptInvariant, KeptSafe, PTL

----------------------------------------------------------------------------
(* The cache.                                                              *)

\* A step ends one Add at most, at the present time; the others it leaves in Recorded it finds there.
LEMMA StepRecorded ==
    ASSUME TimingInv, [Next]_vars, NEW i \in Recorded(clock)'
    PROVE  /\ resets' = resets
           /\ \/ i \in Recorded(clock) /\ adds'[i] = adds[i]
              \/ /\ \E p \in Adder : AppendDuration(p)
                 /\ adds'[i].at = clock
<1>t. clock \in Nat /\ Unix(clock) \in Nat /\ \A j \in DOMAIN adds : adds[j] \in AddRecord
  BY AddAt, UnixType DEF TimingInv, Types
<1>i. /\ i \in DOMAIN adds' /\ adds'[i].done /\ adds'[i].begun = resets'
      /\ adds'[i].second > Unix(clock)' - Window
  BY DEF Recorded
<1>x. ASSUME i \in DOMAIN adds, adds'[i] = adds[i], clock' \in Nat, clock <= clock', resets' = resets
      PROVE  i \in Recorded(clock)
  <2>1. Unix(clock) <= Unix(clock') /\ Unix(clock') \in Nat /\ adds[i].second \in Nat
    BY <1>t, <1>x, UnixMonotone, UnixType DEF AddRecord
  <2> QED
    BY <1>t, <1>i, <1>x, <2>1, WindowAssumption DEF Recorded
<1>1. ASSUME NEW p \in Adder, FindBucket(p)
      PROVE  resets' = resets /\ i \in Recorded(clock) /\ adds'[i] = adds[i]
  <2>1. UNCHANGED <<clock, resets>>
    BY <1>1 DEF FindBucket
  <2>2. i \in DOMAIN adds /\ adds'[i] = adds[i]
    BY <1>1, <1>i, BeginsAdd DEF TimingInv
  <2> QED
    BY <1>t, <1>x, <2>1, <2>2
<1>2. ASSUME NEW p \in Adder, CreateBucket(p)
      PROVE  resets' = resets /\ i \in Recorded(clock) /\ adds'[i] = adds[i]
  BY <1>2, <1>i, <1>t, <1>x DEF CreateBucket
<1>3. ASSUME NEW p \in Adder, AppendDuration(p)
      PROVE  resets' = resets /\ ((i \in Recorded(clock) /\ adds'[i] = adds[i]) \/ adds'[i].at = clock)
  <2>1. UNCHANGED <<clock, resets>>
    BY <1>3 DEF AppendDuration
  <2>2. i \in DOMAIN adds /\ (i # Pending(p) => adds'[i] = adds[i]) /\ adds'[Pending(p)].at = clock
    BY <1>3, <1>i, EndsAdd DEF TimingInv
  <2> QED
    BY <1>t, <1>x, <2>1, <2>2
<1>4. ASSUME NEW p \in Resetter, Reset(p) PROVE FALSE
  <2>1. UNCHANGED adds /\ resets' = resets + 1 /\ resets \in Nat
    BY <1>4 DEF Reset, TimingInv, Types
  <2>2. adds[i].begun <= resets /\ adds[i].begun \in Nat
    BY <1>i, <1>t, <2>1 DEF TimingInv, AddsInv, AddRecord
  <2> QED
    BY <1>i, <2>1, <2>2
<1>5. ASSUME UNCHANGED <<adds, resets>>, clock' \in Nat, clock <= clock'
      PROVE  resets' = resets /\ i \in Recorded(clock) /\ adds'[i] = adds[i]
  BY <1>5, <1>i, <1>x
<1>6. ASSUME NEW p \in Viewer, SortedDurations(p)
      PROVE  UNCHANGED <<adds, resets>> /\ clock' \in Nat /\ clock <= clock'
  BY <1>6, <1>t DEF SortedDurations, ReadCache, Collect, Shown
<1>7. ASSUME Tick \/ Terminated \/ UNCHANGED vars
      PROVE  UNCHANGED <<adds, resets>> /\ clock' \in Nat /\ clock <= clock'
  BY <1>7, <1>t DEF Tick, Terminated, vars
<1> QED
  BY <1>1, <1>2, <1>3, <1>4, <1>5, <1>6, <1>7 DEF Next, Add

\* A duration that can still be missed after a step could be missed before it.
LEMMA RacedNow ==
    ASSUME TimingInv, [Next]_vars, NEW i \in DOMAIN adds, ~Raced(adds[i].second)'
    PROVE  ~Raced(adds[i].second)
<1>1. AddsGrow
  BY StepGrow DEF TimingInv
<1>2. PICK s : s = adds[i].second /\ s = adds'[i].second
  BY <1>1 DEF AddsGrow
<1>3. ~Raced(s)'
  BY <1>2 DEF Raced
<1>4. ~Raced(s)
  BY <1>1, <1>3, RacedStays
<1> QED
  BY <1>2, <1>4

\* A collection finds whatever is in the bucket of a second of the window.
LEMMA CollectsKept ==
    ASSUME TimingInv, KeptUnlessRaced, NEW p \in Proc, Collect(p),
           NEW i \in Recorded(clock), ~Raced(adds[i].second)
    PROVE  i \in CachedSortedDurations'
<1>1. PICK t \in now[p]..clock :
         CachedSortedDurations' =
            UNION {heap[Buckets[k]] : k \in {j \in DOMAIN Buckets : j >= Unix(t) - Window}}
  BY DEF Collect
<1>2. now[p] \in Nat /\ clock \in Nat
  BY DEF TimingInv, Types
<1>3. t \in Nat /\ t <= clock
  BY <1>1, <1>2
<1>4. Unix(t) <= Unix(clock) /\ Unix(t) \in Nat /\ Unix(clock) \in Nat
  BY <1>2, <1>3, UnixMonotone, UnixType
<1>5. /\ i \in DOMAIN adds /\ adds[i].second > Unix(clock) - Window
      /\ adds[i].second \in DOMAIN Buckets /\ i \in heap[Buckets[adds[i].second]]
  BY DEF KeptUnlessRaced, Kept, Recorded
<1>6. adds[i].second \in Nat
  BY <1>5, AddAt DEF TimingInv, AddRecord
<1>7. adds[i].second >= Unix(t) - Window
  BY <1>4, <1>5, <1>6, WindowAssumption
<1> QED
  BY <1>1, <1>5, <1>7

LEMMA StepCache == TimingInv /\ KeptUnlessRaced /\ CacheInv /\ [Next]_vars => CacheInv'
<1> SUFFICES ASSUME TimingInv, KeptUnlessRaced, CacheInv, [Next]_vars, NEW i \in Recorded(clock)',
                    adds'[i].at < LastCachedTime', ~Raced(adds[i].second)'
             PROVE  i \in CachedSortedDurations'
  BY DEF CacheInv
<1>t. clock \in Nat /\ LastCachedTime \in Nat /\ LastCachedTime <= clock
  BY DEF TimingInv, Types
<1>1. CASE i \in Recorded(clock) /\ adds'[i] = adds[i]
  <2>1. i \in DOMAIN adds /\ ~Raced(adds[i].second)
    BY <1>1, RacedNow DEF Recorded
  <2>2. ASSUME UNCHANGED <<CachedSortedDurations, LastCachedTime>> PROVE i \in CachedSortedDurations'
    BY <1>1, <2>1, <2>2 DEF CacheInv
  <2>3. ASSUME NEW p \in Viewer, Collect(p) PROVE i \in CachedSortedDurations'
    BY <1>1, <2>1, <2>3, CollectsKept DEF Proc
  <2>4. ASSUME NEW p \in Resetter, Reset(p) PROVE FALSE
    BY <2>4, StepRecorded DEF Reset, TimingInv, Types
  <2>5. ASSUME NEW p \in Adder, Add(p) PROVE UNCHANGED <<CachedSortedDurations, LastCachedTime>>
    BY <2>5 DEF Add, FindBucket, CreateBucket, AppendDuration, shared
  <2>6. ASSUME NEW p \in Viewer, ReadCache(p) \/ Shown(p)
        PROVE  UNCHANGED <<CachedSortedDurations, LastCachedTime>>
    BY <2>6 DEF ReadCache, Shown, shared
  <2>7. ASSUME Tick \/ Terminated \/ UNCHANGED vars
        PROVE  UNCHANGED <<CachedSortedDurations, LastCachedTime>>
    BY <2>7 DEF Tick, Terminated, vars, shared
  <2> QED
    BY <2>2, <2>3, <2>4, <2>5, <2>6, <2>7 DEF Next, SortedDurations
<1>2. CASE (\E p \in Adder : AppendDuration(p)) /\ adds'[i].at = clock
  BY <1>2, <1>t DEF AppendDuration
<1> QED
  BY <1>1, <1>2, StepRecorded

LEMMA StepRecent ==
    TimingInv /\ TimingInv' /\ KeptUnlessRaced /\ CacheInv /\ CacheRecent /\ [Next]_vars => CacheRecent'
<1> SUFFICES ASSUME TimingInv, TimingInv', KeptUnlessRaced, CacheInv, CacheRecent, [Next]_vars,
                    NEW v \in Proc, pc'[v] = "returned", NEW i \in Recorded(clock)',
                    adds'[i].at + Second <= now'[v], ~Raced(adds[i].second)'
             PROVE  i \in durations'[v]
  BY DEF CacheRecent
<1>t. /\ clock \in Nat /\ LastCachedTime \in Nat /\ pc \in [Proc -> Location] /\ now \in [Proc -> Nat]
      /\ DOMAIN durations = Proc
  BY DEF TimingInv, Types
<1>1. CASE i \in Recorded(clock) /\ adds'[i] = adds[i]
  <2>1. /\ i \in DOMAIN adds /\ ~Raced(adds[i].second) /\ adds[i].at \in Nat
        /\ adds[i].at + Second <= now'[v]
    BY <1>1, RacedNow, AddAt DEF Recorded, TimingInv, AddRecord
  <2>2. ASSUME pc[v] = "returned", now'[v] = now[v], durations'[v] = durations[v]
        PROVE  i \in durations'[v]
    BY <1>1, <2>1, <2>2 DEF CacheRecent
  <2> DEFINE Still == pc[v] = "returned" /\ now'[v] = now[v] /\ durations'[v] = durations[v]
  <2>3. ASSUME NEW p \in Viewer, ReadCache(p), p = v PROVE i \in durations'[v]
    <3>1. LastCachedTime + Second > clock /\ now'[v] = clock /\ durations'[v] = CachedSortedDurations
      BY <1>t, <2>3 DEF ReadCache, Goto, IsFresh
    <3>2. adds[i].at < LastCachedTime
      BY <1>t, <2>1, <3>1, SecondAssumption
    <3> QED
      BY <1>1, <2>1, <3>1, <3>2 DEF CacheInv
  <2>4. ASSUME NEW p \in Viewer, Collect(p), p = v PROVE i \in durations'[v]
    <3>1. durations'[v] = CachedSortedDurations'
      BY <1>t, <2>4 DEF Collect
    <3> QED
      BY <1>1, <2>1, <2>4, <3>1, CollectsKept
  <2>5. ASSUME NEW p \in Viewer, ReadCache(p), p # v PROVE Still
    BY <1>t, <2>5 DEF ReadCache, Goto, Proc
  <2>6. ASSUME NEW p \in Viewer, Collect(p), p # v PROVE Still
    BY <1>t, <2>6 DEF Collect, Goto, Proc
  <2>7. ASSUME NEW p \in Viewer, Shown(p) PROVE Still
    BY <1>t, <2>7 DEF Shown, Goto, Proc
  <2>8. ASSUME NEW p \in Adder, FindBucket(p) PROVE Still
    BY <1>t, <2>8 DEF FindBucket, Goto, Proc
  <2>9. ASSUME NEW p \in Adder, CreateBucket(p) \/ AppendDuration(p) PROVE Still
    BY <1>t, <2>9 DEF CreateBucket, AppendDuration, Goto, Proc, local
  <2>10. ASSUME (\E p \in Resetter : Reset(p)) \/ Tick \/ Terminated \/ UNCHANGED vars PROVE Still
    BY <2>10 DEF Reset, Tick, Terminated, vars, local
  <2>11. ASSUME Still PROVE i \in durations'[v]
    BY <2>2, <2>11
  <2> HIDE DEF Still
  <2> QED
    BY <2>3, <2>4, <2>5, <2>6, <2>7, <2>8, <2>9, <2>10, <2>11 DEF Next, Add, SortedDurations
<1>2. CASE (\E p \in Adder : AppendDuration(p)) /\ adds'[i].at = clock
  <2>1. UNCHANGED <<clock, now>>
    BY <1>2 DEF AppendDuration, local
  <2>2. now[v] <= clock /\ now[v] \in Nat
    BY <1>t DEF TimingInv, AddsInv
  <2> QED
    BY <1>2, <1>t, <2>1, <2>2, SecondAssumption
<1> QED
  BY <1>1, <1>2, StepRecorded

\* What SortedDurations returns has every duration of the window whose Add was over a second
\* before the call and that was not lost in a race for its bucket (rolling_timing.go:42-73).
THEOREM CacheServesRecent == Spec => []CacheRecent
<1>1. Init => CacheInv /\ CacheRecent
  BY DEF Init, CacheInv, CacheRecent, Recorded
<1>2. Spec => []KeptUnlessRaced
  BY DurationsKept
<1>3. Spec => []CacheInv
  BY <1>1, <1>2, TimingKept, StepCache, PTL DEF Spec
<1> QED
  BY <1>1, <1>2, <1>3, TimingKept, StepRecent, PTL DEF Spec

----------------------------------------------------------------------------
(* The array.                                                              *)

SortedInv ==
    /\ sorted \in Seq(Durations)
    /\ \A i, j \in DOMAIN sorted : i <= j => sorted[i] <= sorted[j]

LEMMA AlwaysSorted == StatsSpec => []SortedInv
<1>1. StatsInit => SortedInv
  BY DEF StatsInit, SortedInv
<1>2. SortedInv /\ [StatsNext]_sorted => SortedInv'
  <2> SUFFICES ASSUME SortedInv, [StatsNext]_sorted PROVE SortedInv'
    OBVIOUS
  <2>1. ASSUME NEW d \in Durations, Longer(d) PROVE SortedInv'
    <3>1. sorted' = Append(sorted, d) /\ sorted \in Seq(Durations) /\ (Len(sorted) > 0 => d >= sorted[Len(sorted)])
      BY <2>1 DEF Longer, Last, SortedInv
    <3>2. PICK n \in Nat : n = Len(sorted)
      BY <3>1
    <3>3. /\ sorted' \in Seq(Durations) /\ DOMAIN sorted' = 1..(n + 1) /\ DOMAIN sorted = 1..n
          /\ sorted'[n + 1] = d /\ \A i \in 1..n : sorted'[i] = sorted[i]
      BY <3>1, <3>2
    <3>4. \A i \in 1..n : sorted[i] \in Durations
      BY <3>1, <3>3
    <3>5. ASSUME NEW i \in 1..(n + 1), NEW j \in 1..(n + 1), i <= j PROVE sorted'[i] <= sorted'[j]
      <4>1. CASE j \in 1..n
        <5>1. i \in 1..n
          BY <3>5, <4>1
        <5> QED
          BY <3>3, <3>5, <4>1, <5>1 DEF SortedInv
      <4>2. CASE i = n + 1 /\ j = n + 1
        BY <3>3, <4>2, DurationsAssumption
      <4>3. CASE i \in 1..n /\ j = n + 1
        <5>1. sorted[i] <= sorted[n] /\ sorted[n] <= d
          BY <3>1, <3>2, <3>3, <4>3 DEF SortedInv
        <5>2. sorted[i] \in Nat /\ sorted[n] \in Nat /\ d \in Nat
          <6>1. n \in 1..n
            BY <4>3
          <6> QED
            BY <3>4, <4>3, <6>1, DurationsAssumption
        <5> QED
          BY <3>3, <4>3, <5>1, <5>2
      <4> QED
        BY <4>1, <4>2, <4>3
    <3> QED
      BY <3>3, <3>5 DEF SortedInv
  <2>2. ASSUME UNCHANGED sorted PROVE SortedInv'
    BY <2>2 DEF SortedInv
  <2> QED
    BY <2>1, <2>2 DEF StatsNext, Full
<1> QED
  BY <1>1, <1>2, PTL DEF StatsSpec

----------------------------------------------------------------------------
(* Percentile.                                                             *)

\* The ordinal is the least number of durations that are p of all of them, and at least 1.
LEMMA OrdinalLeast ==
    ASSUME NEW n \in Nat, n > 0, NEW p \in Percentages
    PROVE  \E o \in 1..n : o = Ordinal(n, p) /\ p * n <= 1000 * o /\ (o = 1 \/ 1000 * (o - 1) < p * n)
<1>1. CASE p = 0
  <2>1. 1 \in 1..n /\ 1 = Ordinal(n, p) /\ p * n <= 1000 * 1
    BY <1>1 DEF Ordinal
  <2> QED
    BY <2>1
<1>2. CASE p # 0
  <2>1. PICK o \in Int : o = (p * n + 999) \div 1000
    BY DEF Percentages
  <2>2. Ordinal(n, p) = o
    BY <1>2, <2>1 DEF Ordinal
  <2>3. PICK m \in Nat : m = p * n /\ m > 0 /\ m <= 1000 * n
    BY <1>2 DEF Percentages
  <2>4. 1000 * o <= m + 999 /\ m + 999 < 1000 * o + 1000
    BY <2>1, <2>3
  <2>5. o \in 1..n /\ m <= 1000 * o /\ 1000 * (o - 1) < m
    BY <2>3, <2>4
  <2>6. p * n <= 1000 * o /\ 1000 * (o - 1) < p * n
    BY <2>3, <2>5
  <2> QED
    BY <2>2, <2>5, <2>6
<1> QED
  BY <1>1, <1>2

LEMMA RankIsNearest ==
    ASSUME SortedInv, sorted # <<>>, NEW p \in Percentages
    PROVE  Ordinal(Len(sorted), p) \in DOMAIN sorted /\ NearestRank(p) = sorted[Ordinal(Len(sorted), p)]
<1>n. PICK n \in Nat : n = Len(sorted) /\ n > 0 /\ DOMAIN sorted = 1..n
  BY DEF SortedInv
<1>o. PICK o \in 1..n : o = Ordinal(n, p) /\ p * n <= 1000 * o /\ (o = 1 \/ 1000 * (o - 1) < p * n)
  <2>1. n > 0
    BY <1>n
  <2> QED
    BY ONLY <2>1, n \in Nat, p \in Percentages, OrdinalLeast
<1>s. \A i \in 1..n : sorted[i] \in Nat
  <2>1. \A i \in 1..n : sorted[i] \in Durations
    BY <1>n DEF SortedInv
  <2> QED
    BY <2>1, DurationsAssumption
<1>p. p \in Nat
  BY DEF Percentages
<1> DEFINE d == sorted[o]
           Enough(e) == 1000 * NotLonger(e) >= p * Len(sorted)
<1>c. ASSUME NEW e PROVE /\ IsFiniteSet({i \in DOMAIN sorted : sorted[i] <= e}) /\ NotLonger(e) \in Nat
  <2>1. IsFiniteSet(1..n)
    BY <1>n, FS_Interval
  <2>2. IsFiniteSet({i \in 1..n : sorted[i] <= e})
    BY <2>1, FS_Subset
  <2> QED
    BY <1>n, <2>2, FS_CardinalityType DEF NotLonger
<1>1. Enough(d)
  <2>1. 1..o \subseteq {i \in DOMAIN sorted : sorted[i] <= d}
    <3>1. ASSUME NEW i \in 1..o PROVE i \in 1..n /\ i <= o
      OBVIOUS
    <3> QED
      BY <1>n, <3>1 DEF SortedInv
  <2>2. Cardinality(1..o) = o
    BY FS_Interval
  <2>3. Cardinality(1..o) <= NotLonger(d)
    BY <1>c, <2>1, FS_Subset DEF NotLonger
  <2>4. o <= NotLonger(d) /\ NotLonger(d) \in Nat
    BY <1>c, <2>2, <2>3
  <2> HIDE DEF d
  <2>5. PICK m \in Int : m = p * n
    BY <1>p
  <2> QED
    BY <1>n, <1>o, <2>4, <2>5
<1>2. ASSUME NEW e \in Range(sorted), Enough(e) PROVE d <= e
  <2>1. PICK j \in 1..n : e = sorted[j]
    BY <1>n, <1>2 DEF Range
  <2>2. e \in Nat /\ d \in Nat
    BY <1>s, <2>1
  <2> SUFFICES ASSUME e < d PROVE FALSE
    BY <2>2
  <2>3. ASSUME NEW i \in 1..n, sorted[i] <= e PROVE i \in 1..(o - 1)
    <3>1. ~(o <= i)
      <4> SUFFICES ASSUME o <= i PROVE FALSE
        OBVIOUS
      <4>1. d <= sorted[i] /\ sorted[i] \in Nat
        BY <1>n, <1>s DEF SortedInv
      <4> QED
        BY <2>2, <2>3, <4>1
    <3> QED
      BY <3>1
  <2>4. {i \in DOMAIN sorted : sorted[i] <= e} \subseteq 1..(o - 1)
    BY <1>n, <2>3
  <2>5. IsFiniteSet(1..(o - 1)) /\ Cardinality(1..(o - 1)) = o - 1
    BY FS_Interval
  <2>6. NotLonger(e) <= o - 1
    BY <2>4, <2>5, FS_Subset DEF NotLonger
  <2>7. o # 1
    <3>1. j \in 1..(o - 1)
      BY <2>1, <2>2, <2>3
    <3> QED
      BY <3>1
  <2>8. 1000 * (o - 1) < p * n /\ 1000 * NotLonger(e) >= p * n /\ NotLonger(e) \in Nat
    <3>1. 1000 * (o - 1) < p * n
      BY <1>o, <2>7
    <3>2. 1000 * NotLonger(e) >= p * n
      BY <1>n, <1>2
    <3> QED
      BY <1>c, <3>1, <3>2
  <2>9. PICK m \in Int : m = p * n
    BY <1>p
  <2> QED
    BY <2>6, <2>8, <2>9
<1>3. d \in Range(sorted)
  BY <1>n DEF Range
<1>4. ASSUME NEW e \in Range(sorted), Enough(e), \A x \in Range(sorted) : Enough(x) => e <= x PROVE e = d
  <2>1. d <= e /\ e <= d
    BY <1>1, <1>2, <1>3, <1>4
  <2>2. e \in Nat /\ d \in Nat
    BY <1>n, <1>s DEF Range
  <2> QED
    BY <2>1, <2>2
<1>5. NearestRank(p) = CHOOSE e \in Range(sorted) : Enough(e) /\ \A x \in Range(sorted) : Enough(x) => e <= x
  BY DEF NearestRank
<1> HIDE DEF d, Enough
<1>6. NearestRank(p) = d
  BY <1>1, <1>2, <1>3, <1>4, <1>5
<1> QED
  BY <1>n, <1>o, <1>6 DEF d

LEMMA MillisFit ==
    ASSUME NEW d \in Nat PROVE d \div Milli \in Nat /\ d \div Milli <= d
<1>1. PICK m \in Nat : m = Milli /\ m > 0
  BY UnitsAssumption
<1>2. PICK q \in Int : q = d \div m
  BY <1>1
<1>3. m * q <= d /\ d < m * q + m
  BY <1>1, <1>2
<1>4. q >= 0
  BY <1>1, <1>3
<1>5. q <= m * q
  BY <1>1, <1>4
<1> QED
  BY <1>1, <1>2, <1>3, <1>4, <1>5

LEMMA MillisGrow ==
    ASSUME NEW d \in Nat, NEW e \in Nat, d <= e PROVE d \div Milli <= e \div Milli
<1>1. PICK m \in Nat : m = Milli /\ m > 0
  BY UnitsAssumption
<1>2. PICK q \in Int, r \in Int : q = d \div m /\ r = e \div m
  BY <1>1
<1>3. m * q <= d /\ e < m * r + m
  BY <1>1, <1>2
<1>4. m * q < m * (r + 1)
  BY <1>1, <1>3
<1>5. q < r + 1
  BY <1>1, <1>4
<1> QED
  BY <1>1, <1>2, <1>5

LEMMA WordFits == ASSUME NEW d \in Nat, d < Word PROVE d % Word = d
BY UnitsAssumption

\* No duration is as long as 2^32 milliseconds, which are 49 days.
Short == \A d \in Durations : d \div Milli < Word

LEMMA PercentileAt ==
    ASSUME SortedInv, Short, sorted # <<>>, NEW p \in Percentages
    PROVE  Percentile(p) = sorted[Ordinal(Len(sorted), p)] \div Milli
<1>1. PICK o : o = Ordinal(Len(sorted), p) /\ o \in DOMAIN sorted
  BY RankIsNearest
<1>2. sorted[o] \in Durations /\ Len(sorted) # 0
  BY <1>1 DEF SortedInv
<1>3. sorted[o] \in Nat
  BY <1>2, DurationsAssumption
<1>4. PICK q \in Nat : q = sorted[o] \div Milli /\ q < Word
  BY <1>2, <1>3, MillisFit DEF Short
<1>5. q % Word = q
  BY <1>4, WordFits
<1>6. Percentile(p) = (sorted[o] \div Milli) % Word
  BY <1>1, <1>2 DEF Percentile
<1> QED
  BY <1>1, <1>4, <1>5, <1>6

\* For every percentage on the dashboard Percentile indexes inside the array and is the nearest-rank
\* percentile in milliseconds (rolling_timing.go:115-132), unless a duration does not fit into a
\* uint32 of milliseconds.
THEOREM PercentileNearestRank == ASSUME Short PROVE StatsSpec => []PercentileIsNearestRank
<1>1. SortedInv => PercentileIsNearestRank
  BY RankIsNearest, PercentileAt DEF PercentileIsNearestRank
<1> QED
  BY <1>1, AlwaysSorted, PTL

----------------------------------------------------------------------------
(* Mean.                                                                   *)

LEMMA TotalIsFold ==
    ASSUME SortedInv
    PROVE  Folding(Plus, sorted, DOMAIN sorted) /\ Total = Fold(Plus, sorted, DOMAIN sorted)
<1>d. PICK f, S : f = sorted /\ S = DOMAIN sorted
  OBVIOUS
<1>s. /\ S \in SUBSET Int /\ IsFiniteSet(S) /\ \A x \in S : f[x] \in Nat
      /\ \A T \in SUBSET S : T # {} => Max(T) \in T
  <2>1. PICK n \in Nat : DOMAIN sorted = 1..n
    BY DEF SortedInv
  <2>2. IsFiniteSet(1..n) /\ 1..n \subseteq Int
    BY FS_Interval
  <2>3. \A x \in S : f[x] \in Durations
    BY <1>d DEF SortedInv
  <2>4. S \in SUBSET Int /\ IsFiniteSet(S)
    BY <1>d, <2>1, <2>2
  <2>5. ASSUME NEW T \in SUBSET S, T # {} PROVE Max(T) \in T
    BY <2>4, <2>5, FS_Subset, MaxOf
  <2> QED
    BY <2>3, <2>4, <2>5, DurationsAssumption
<1> DEFINE Solves(g) == g = [s \in SUBSET S |-> IF s = {} THEN 0 ELSE g[s \ {Max(s)}] + f[Max(s)]]
           iter == CHOOSE g : Solves(g)
<1>1. Total = iter[S]
  BY <1>d DEF Total, FoldLeft, MapThenFoldSet
<1>p. \A a, b \in Nat : Plus[a][b] = b + a
  BY DEF Plus
<1>2. Folding(Plus, f, S)
  BY <1>s, PlusFolds DEF Folding
<1>3. PICK g \in [SUBSET S -> Nat] : \A T \in SUBSET S : g[T] = Fold(Plus, f, T)
  <2>1. \E g \in [SUBSET S -> Nat] : IsFold(g, Plus, f, S) /\ \A T \in SUBSET S : g[T] = Fold(Plus, f, T)
    BY ONLY <1>2, FoldAt
  <2> QED
    BY ONLY <2>1
<1>4. Solves(g)
  <2>1. ASSUME NEW s \in SUBSET S
        PROVE  g[s] = IF s = {} THEN 0 ELSE g[s \ {Max(s)}] + f[Max(s)]
    <3>1. Folding(Plus, f, s)
      BY <1>2, FS_Subset DEF Folding
    <3>2. CASE s = {}
      BY <1>3, <3>1, <3>2, FoldEmpty
    <3>3. CASE s # {}
      <4>1. PICK m \in s : m = Max(s)
        BY <1>s, <3>3
      <4>2. Fold(Plus, f, s) = Plus[f[m]][Fold(Plus, f, s \ {m})]
        <5>1. Commutes(Plus) /\ Folding(Plus, f, s) /\ m \in s
          BY <3>1, PlusFolds
        <5> QED
          BY ONLY <5>1, FoldRemove
      <4>3. s \ {m} \in SUBSET S /\ f[m] \in Nat /\ g[s \ {m}] \in Nat
        BY <1>s, <1>3, <4>1
      <4>4. g[s] = Plus[f[m]][g[s \ {m}]]
        BY <1>3, <4>2, <4>3
      <4>5. g[s] = g[s \ {m}] + f[m]
        BY <1>p, <4>3, <4>4
      <4> QED
        BY <3>3, <4>1, <4>5
    <3> QED
      BY <3>2, <3>3
  <2> QED
    BY <1>3, <2>1
<1>5. Solves(iter)
  BY <1>4
<1> HIDE DEF iter
<1> DEFINE Good == {T \in SUBSET S : iter[T] = g[T]}
<1>6. ASSUME NEW T \in SUBSET S, \A U \in SUBSET T : U # T => U \in Good PROVE T \in Good
  <2>1. iter[T] = IF T = {} THEN 0 ELSE iter[T \ {Max(T)}] + f[Max(T)]
    BY <1>5
  <2>2. g[T] = IF T = {} THEN 0 ELSE g[T \ {Max(T)}] + f[Max(T)]
    BY <1>4
  <2>3. T # {} => iter[T \ {Max(T)}] = g[T \ {Max(T)}]
    BY <1>6, <1>s
  <2> QED
    BY <2>1, <2>2, <2>3
<1> HIDE DEF Good
<1>7. \A T \in SUBSET S : T \in Good
  BY <1>6, <1>s, SubsetInduction
<1>8. S \in SUBSET S /\ S \in Good
  BY <1>7
<1>9. iter[S] = Fold(Plus, f, S)
  BY <1>3, <1>8 DEF Good
<1> QED
  BY <1>1, <1>2, <1>9, <1>d

\* The sum of numbers from lo to hi.
LEMMA SumBetween ==
    ASSUME NEW S, NEW f, Folding(Plus, f, S), NEW lo \in Nat, NEW hi \in Nat, \A x \in S : lo <= f[x] /\ f[x] <= hi
    PROVE  Cardinality(S) * lo <= Fold(Plus, f, S) /\ Fold(Plus, f, S) <= Cardinality(S) * hi
<1> DEFINE In(T) == Cardinality(T) * lo <= Fold(Plus, f, T) /\ Fold(Plus, f, T) <= Cardinality(T) * hi
           Good == {T \in SUBSET S : In(T)}
<1>f. IsFiniteSet(S) /\ \A x \in S : f[x] \in Nat
  BY DEF Folding
<1>1. ASSUME NEW T \in SUBSET S, \A U \in SUBSET T : U # T => U \in Good PROVE T \in Good
  <2>1. Folding(Plus, f, T) /\ IsFiniteSet(T)
    BY FS_Subset DEF Folding
  <2>2. CASE T = {}
    <3>1. Fold(Plus, f, T) = 0
      BY <2>1, <2>2, FoldEmpty
    <3>2. Cardinality(T) = 0
      BY <2>2, FS_EmptySet
    <3>3. In(T)
      BY <3>1, <3>2
    <3> QED
      BY <3>3
  <2>3. CASE T # {}
    <3>1. PICK x \in T : TRUE
      BY <2>3
    <3>2. Fold(Plus, f, T) = Plus[f[x]][Fold(Plus, f, T \ {x})] /\ Folding(Plus, f, T \ {x})
      <4>1. Commutes(Plus) /\ Folding(Plus, f, T) /\ x \in T
        BY <2>1, PlusFolds
      <4> QED
        BY ONLY <4>1, FoldRemove
    <3>3. PICK s \in Nat, v \in Nat : s = Fold(Plus, f, T \ {x}) /\ v = f[x]
      BY <1>f, <3>2, FoldType
    <3>4. Fold(Plus, f, T) = v + s
      BY <3>2, <3>3 DEF Plus
    <3>5. T \ {x} \in Good
      BY <1>1, <3>1
    <3>6. IsFiniteSet(T \ {x}) /\ Cardinality(T) = Cardinality(T \ {x}) + 1
      <4>1. IsFiniteSet(T \ {x}) /\ Cardinality(T \ {x}) = Cardinality(T) - 1 /\ Cardinality(T) \in Nat
        BY <2>1, <3>1, FS_RemoveElement, FS_CardinalityType
      <4> QED
        BY <4>1
    <3>7. PICK c \in Nat : c = Cardinality(T \ {x}) /\ Cardinality(T) = c + 1
      BY <3>6, FS_CardinalityType
    <3>8. c * lo <= s /\ s <= c * hi /\ lo <= v /\ v <= hi
      BY <3>3, <3>5, <3>7
    <3>9. (c + 1) * lo = c * lo + lo /\ (c + 1) * hi = c * hi + hi /\ c * lo \in Nat /\ c * hi \in Nat
      OBVIOUS
    <3>10. (c + 1) * lo <= v + s /\ v + s <= (c + 1) * hi
      BY <3>8, <3>9
    <3>11. In(T)
      BY <3>4, <3>7, <3>10
    <3> QED
      BY <3>11
  <2> QED
    BY <2>2, <2>3
<1> HIDE DEF Good, In
<1>2. \A T \in SUBSET S : T \in Good
  BY <1>1, <1>f, SubsetInduction
<1>3. In(S)
  BY <1>2 DEF Good
<1> QED
  BY <1>3 DEF In

LEMMA DividedBetween ==
    ASSUME NEW n \in Nat, n > 0, NEW t \in Nat, NEW lo \in Nat, NEW hi \in Nat, n * lo <= t, t <= n * hi
    PROVE  t \div n \in Nat /\ lo <= t \div n /\ t \div n <= hi /\ \A w \in Nat : t < w * n => t \div n < w
<1>1. PICK q \in Int : q = t \div n
  OBVIOUS
<1>2. n * q <= t /\ t < n * q + n
  BY <1>1
<1>3. n * q + n = n * (q + 1)
  OBVIOUS
<1>4. n * lo < n * (q + 1) /\ n * q <= n * hi
  BY <1>2, <1>3
<1>5. lo < q + 1
  BY <1>4
<1>6. q <= hi
  BY <1>4
<1>7. ASSUME NEW w \in Nat, t < w * n PROVE q < w
  <2>1. n * q < n * w
    BY <1>2, <1>7
  <2> QED
    BY <2>1
<1> QED
  BY <1>1, <1>5, <1>6, <1>7

\* Rounding down twice is rounding down once.
LEMMA DividedTwice ==
    ASSUME NEW n \in Nat, n > 0, NEW m \in Nat, m > 0, NEW t \in Nat
    PROVE  (t \div n) \div m = t \div (m * n)
<1>1. PICK q \in Int, r \in Int : q = t \div n /\ r = q \div m
  OBVIOUS
<1>2. n * q <= t /\ t < n * q + n /\ m * r <= q /\ q < m * r + m
  BY <1>1
<1>3. PICK k \in Nat : k = m * n /\ k > 0 /\ k * r = n * (m * r) /\ k * (r + 1) = n * (m * r + m)
  <2>1. m * n \in Nat /\ m * n > 0
    OBVIOUS
  <2>2. (m * n) * r = n * (m * r) /\ (m * n) * (r + 1) = n * (m * r + m)
    OBVIOUS
  <2> QED
    BY <2>1, <2>2
<1>4. k * r <= t
  <2>1. n * (m * r) <= n * q
    BY <1>2
  <2> QED
    BY <1>2, <1>3, <2>1
<1>5. t < k * (r + 1)
  <2>1. n * (q + 1) <= n * (m * r + m)
    BY <1>2
  <2>2. n * (q + 1) = n * q + n
    OBVIOUS
  <2> QED
    BY <1>2, <1>3, <2>1, <2>2
<1>6. t \div k = r
  <2>1. PICK s \in Int : s = t \div k /\ k * s <= t /\ t < k * (s + 1)
    BY <1>3
  <2>2. k * s < k * (r + 1) /\ k * r < k * (s + 1)
    BY <1>3, <1>4, <1>5, <2>1
  <2>3. s < r + 1 /\ r < s + 1
    BY <1>3, <2>2
  <2> QED
    BY <2>1, <2>3
<1> QED
  BY <1>1, <1>3, <1>6

\* Mean is the average in milliseconds, and between the shortest and the longest duration, as long
\* as the average fits into a uint32 of nanoseconds (rolling_timing.go:135-148) and the longest
\* duration into a uint32 of milliseconds.
THEOREM MeansFit == ASSUME Short PROVE StatsSpec => []MeanFits
<1>1. SortedInv => MeanFits
  <2> SUFFICES ASSUME SortedInv, sorted # <<>>, Total < Word * Len(sorted)
               PROVE  /\ Mean = Total \div (Milli * Len(sorted))
                      /\ Percentile(0) <= Mean /\ Mean <= Percentile(1000)
    BY DEF MeanFits
  <2>n. PICK n \in Nat : n = Len(sorted) /\ n > 0 /\ DOMAIN sorted = 1..n
    BY DEF SortedInv
  <2>s. \A i \in 1..n : sorted[i] \in Nat
    <3>1. \A i \in 1..n : sorted[i] \in Durations
      BY <2>n DEF SortedInv
    <3> QED
      BY <3>1, DurationsAssumption
  <2>b. PICK lo \in Nat, hi \in Nat : lo = sorted[1] /\ hi = sorted[n]
    BY <2>n, <2>s
  <2>1. \A i \in 1..n : lo <= sorted[i] /\ sorted[i] <= hi
    <3>1. \A i \in 1..n : 1 \in 1..n /\ n \in 1..n /\ 1 <= i /\ i <= n
      OBVIOUS
    <3> QED
      BY <2>n, <2>b, <3>1 DEF SortedInv
  <2>2. Folding(Plus, sorted, DOMAIN sorted) /\ Total = Fold(Plus, sorted, DOMAIN sorted)
    BY TotalIsFold
  <2>3. Cardinality(DOMAIN sorted) = n
    <3>1. Cardinality(1..n) = n
      BY FS_Interval
    <3> QED
      BY <2>n, <3>1
  <2>t. PICK t \in Nat : t = Total
    BY <2>2, FoldType
  <2>4. n * lo <= t /\ t <= n * hi
    <3>1. PICK S, f : S = DOMAIN sorted /\ f = sorted
      OBVIOUS
    <3>2. Folding(Plus, f, S) /\ \A x \in S : lo <= f[x] /\ f[x] <= hi
      BY <2>n, <2>1, <2>2, <3>1
    <3>3. Cardinality(S) * lo <= Fold(Plus, f, S) /\ Fold(Plus, f, S) <= Cardinality(S) * hi
      BY <3>2, SumBetween
    <3> QED
      BY <2>2, <2>3, <2>t, <3>1, <3>3
  <2>w. Word \in Nat
    BY UnitsAssumption
  <2>5. PICK q \in Nat : q = t \div n /\ lo <= q /\ q <= hi /\ q < Word
    <3>1. t < Word * n
      BY <2>n, <2>t
    <3> QED
      BY <2>n, <2>4, <2>w, <3>1, DividedBetween
  <2>6. Mean = q \div Milli
    <3>1. Mean = ((t \div n) % Word) \div Milli
      BY <2>n, <2>t DEF Mean
    <3>2. q % Word = q
      BY <2>5, WordFits
    <3> QED
      BY <2>5, <3>1, <3>2
  <2>7. Percentile(0) = lo \div Milli /\ Percentile(1000) = hi \div Milli
    <3>1. Ordinal(n, 0) = 1 /\ Ordinal(n, 1000) = n
      BY <2>n DEF Ordinal
    <3>2. 0 \in Percentages /\ 1000 \in Percentages
      BY DEF Percentages
    <3> QED
      BY <2>n, <2>b, <3>1, <3>2, PercentileAt
  <2>8. lo \div Milli <= q \div Milli /\ q \div Milli <= hi \div Milli
    BY <2>5, MillisGrow
  <2>9. q \div Milli = Total \div (Milli * Len(sorted))
    <3>1. (t \div n) \div Milli = t \div (Milli * n)
      BY <2>n, UnitsAssumption, DividedTwice
    <3> QED
      BY <2>n, <2>t, <2>5, <3>1
  <2> QED
    BY <2>6, <2>7, <2>8, <2>9
<1> QED
  BY <1>1, AlwaysSorted, PTL
=============================================================================
