--------------------------- MODULE RollingTiming ---------------------------
(***************************************************************************)
(* rolling.Timing (hystrix/rolling/rolling_timing.go): the durations of    *)
(* the last minute in one bucket per second, under a read-write mutex, and *)
(* a sorted copy of them that is kept for a second.                        *)
(*                                                                         *)
(* Every access to the shared state is inside one Lock or RLock section,   *)
(* and each section is one step.  A duration is the number of the Add that *)
(* brought it, so that each can be told from the others; what is computed  *)
(* from their values is in module TimingStats.                             *)
(***************************************************************************)
EXTENDS Integers, Sequences, FiniteSets

CONSTANTS
    Adder,      \* goroutines that call Add
    Viewer,     \* goroutines that call SortedDurations, through Percentile or Mean
    Resetter,   \* goroutines that call Reset
    Window,     \* the 60 of rolling_timing.go:60 and :97
    Second,     \* ticks of the clock in a second
    Start,      \* the clock when the Timing is made
    MaxClock,   \* bound on the clock
    MaxAdds, MaxViews, MaxResets    \* bounds on the calls

ASSUME WindowAssumption == Window \in Nat \ {0}
ASSUME SecondAssumption == Second \in Nat \ {0} /\ Start \in Nat /\ Start > Second

Proc == Adder \cup Viewer \cup Resetter

VARIABLES
    clock,
    Buckets,                \* the map Buckets: second -> index in heap
    heap,                   \* the timingBuckets made so far, each with its Durations
    CachedSortedDurations,  \* as a set: a sort loses nothing
    LastCachedTime,
    pc, now, bucket,        \* the locals of each goroutine
    durations,              \* what SortedDurations returned to each
    views, resets,          \* calls so far
    adds                    \* history of the Adds: which bucket second, when begun and done

shared == <<Buckets, heap, CachedSortedDurations, LastCachedTime>>
local == <<now, bucket, durations>>
vars == <<clock, shared, pc, local, views, resets, adds>>

\* t.Unix()
Unix(t) == t \div Second

Goto(p, from, to) == pc[p] = from /\ pc' = [pc EXCEPT ![p] = to]

Init ==
    /\ clock = Start
    /\ Buckets = [k \in {} |-> 0]
    /\ heap = <<>>
    /\ CachedSortedDurations = {}
    /\ LastCachedTime = 0
    /\ pc = [p \in Proc |-> "idle"]
    /\ now = [p \in Proc |-> 0]
    /\ bucket = [p \in Proc |-> 0]
    /\ durations = [p \in Proc |-> {}]
    /\ views = 0
    /\ resets = 0
    /\ adds = <<>>

----------------------------------------------------------------------------
(* Add                                                                     *)

\* getCurrentBucket looks for the bucket of the current second.
FindBucket(p) ==
    /\ Len(adds) < MaxAdds
    /\ Goto(p, "idle", IF Unix(clock) \in DOMAIN Buckets THEN "append" ELSE "create")
    /\ now' = [now EXCEPT ![p] = clock]
    /\ bucket' = [bucket EXCEPT ![p] =
          IF Unix(clock) \in DOMAIN Buckets THEN Buckets[Unix(clock)] ELSE 0]
    /\ adds' = Append(adds, [by |-> p, second |-> Unix(clock), begun |-> resets,
                             missed |-> Unix(clock) \notin DOMAIN Buckets,
                             done |-> FALSE, at |-> clock, resets |-> resets])
    /\ UNCHANGED <<clock, shared, durations, views, resets>>

\* ... and, in a second section, makes it if it was not there.
CreateBucket(p) ==
    /\ Goto(p, "create", "append")
    /\ heap' = Append(heap, {})
    /\ Buckets' = [k \in DOMAIN Buckets \cup {Unix(now[p])} |->
          IF k = Unix(now[p]) THEN Len(heap) + 1 ELSE Buckets[k]]
    /\ bucket' = [bucket EXCEPT ![p] = Len(heap) + 1]
    /\ UNCHANGED <<clock, CachedSortedDurations, LastCachedTime, now, durations, views, resets, adds>>

\* Mutation: nothing is ever removed.
RemoveOldBuckets_Never == UNCHANGED Buckets

\* Mutation: the bucket of the oldest second of the window goes too.
RemoveOldBuckets_Early ==
    Buckets' = [k \in {j \in DOMAIN Buckets : j > Unix(clock) - Window + 1} |-> Buckets[k]]

\* removeOldBuckets
RemoveOldBuckets ==
    Buckets' = [k \in {j \in DOMAIN Buckets : j > Unix(clock) - Window} |-> Buckets[k]]

\* The Add that p is in the middle of.
Pending(p) == CHOOSE i \in DOMAIN adds : adds[i].by = p /\ ~adds[i].done

\* The rest of Add.
AppendDuration(p) ==
    /\ Goto(p, "append", "idle")
    /\ heap' = [heap EXCEPT ![bucket[p]] = @ \cup {Pending(p)}]
    /\ RemoveOldBuckets
    /\ adds' = [adds EXCEPT ![Pending(p)].done = TRUE, ![Pending(p)].at = clock,
                            ![Pending(p)].resets = resets]
    /\ UNCHANGED <<clock, CachedSortedDurations, LastCachedTime, local, views, resets>>

----------------------------------------------------------------------------
(* SortedDurations                                                         *)

\* Mutation: any cache will do, once there is one.
IsFresh_Always == LastCachedTime > 0

IsFresh == LastCachedTime + Second > clock

\* The cache is still fresh, and is returned ...
ReadCache(p) ==
    /\ views < MaxViews
    /\ views' = views + 1
    /\ Goto(p, "idle", IF IsFresh THEN "returned" ELSE "collect")
    /\ now' = [now EXCEPT ![p] = clock]
    /\ durations' = [durations EXCEPT ![p] = IF IsFresh THEN CachedSortedDurations ELSE {}]
    /\ UNCHANGED <<clock, shared, bucket, resets, adds>>

\* ... or is made again.  The time is read before the lock is taken, and once
\* more for LastCachedTime.
Collect(p) ==
    /\ Goto(p, "collect", "returned")
    /\ \E t \in now[p]..clock :
         CachedSortedDurations' =
            UNION {heap[Buckets[k]] : k \in {j \in DOMAIN Buckets : j >= Unix(t) - Window}}
    /\ LastCachedTime' = clock
    /\ durations' = [durations EXCEPT ![p] = CachedSortedDurations']
    /\ UNCHANGED <<clock, Buckets, heap, now, bucket, views, resets, adds>>

\* The viewer has used what it got.
Shown(p) ==
    /\ Goto(p, "returned", "idle")
    /\ durations' = [durations EXCEPT ![p] = {}]
    /\ UNCHANGED <<clock, shared, now, bucket, views, resets, adds>>

----------------------------------------------------------------------------
\* Mutation: the cache survives.
Reset_KeepsCache(p) ==
    /\ resets < MaxResets
    /\ pc[p] = "idle"
    /\ resets' = resets + 1
    /\ Buckets' = [k \in {} |-> 0]
    /\ UNCHANGED <<clock, heap, CachedSortedDurations, LastCachedTime, pc, local, views, adds>>

Reset(p) ==
    /\ resets < MaxResets
    /\ pc[p] = "idle"
    /\ resets' = resets + 1
    /\ Buckets' = [k \in {} |-> 0]
    /\ LastCachedTime' = 0
    /\ CachedSortedDurations' = {}
    /\ UNCHANGED <<clock, heap, pc, local, views, adds>>

Tick ==
    /\ clock < MaxClock
    /\ clock' = clock + 1
    /\ UNCHANGED <<shared, pc, local, views, resets, adds>>

Terminated ==
    /\ clock = MaxClock /\ Len(adds) = MaxAdds /\ views = MaxViews /\ resets = MaxResets
    /\ \A p \in Proc : pc[p] = "idle"
    /\ UNCHANGED vars

Add(p) == FindBucket(p) \/ CreateBucket(p) \/ AppendDuration(p)

SortedDurations(p) == ReadCache(p) \/ Collect(p) \/ Shown(p)

Next ==
    \/ \E p \in Adder : Add(p)
    \/ \E p \in Viewer : SortedDurations(p)
    \/ \E p \in Resetter : Reset(p)
    \/ Tick
    \/ Terminated

Spec == Init /\ [][Next]_vars
----------------------------------------------------------------------------
(* Properties                                                              *)

\* The Adds that are over, began after the last Reset, and whose second is still
\* in the window at time t.
Recorded(t) ==
    {i \in DOMAIN adds : adds[i].done /\ adds[i].begun = resets /\ adds[i].second > Unix(t) - Window}

\* The bucket of its second holds the duration of Add i.
Kept(i) ==
    /\ adds[i].second \in DOMAIN Buckets
    /\ i \in heap[Buckets[adds[i].second]]

\* Two Adds looked for the bucket of a second, and neither found it.
Raced(second) ==
    \E i, j \in DOMAIN adds :
        /\ i # j
        /\ \A k \in {i, j} : adds[k].missed /\ adds[k].second = second

\* A duration whose Add is over is in the bucket of its second until the window has
\* passed or Reset is called, unless two Adds both had to make that bucket: looking
\* for it and making it are two critical sections (rolling_timing.go:75-112).
KeptUnlessRaced ==
    \A i \in Recorded(clock) :
        Raced(adds[i].second) \/ Kept(i)

\* However late the cache is, what SortedDurations returns has every duration of
\* the window whose Add was over a second before the call and that was not lost
\* in such a race (rolling_timing.go:42-73).
CacheRecent ==
    \A p \in Proc : pc[p] = "returned" =>
        \A i \in Recorded(clock) :
            adds[i].at + Second <= now[p] /\ ~Raced(adds[i].second) => i \in durations[p]

\* No bucket, and no cache, brings back a duration from before a Reset to a
\* viewer that asks afterwards (rolling_timing.go:150-157).
ResetForgets ==
    \A i \in CachedSortedDurations \cup UNION {heap[Buckets[k]] : k \in DOMAIN Buckets} :
        adds[i].done => adds[i].resets = resets

\* The map does not grow with time: at most the buckets of the window and one
\* for each Add under way (rolling_timing.go:92-101).
BucketsBounded ==
    Cardinality(DOMAIN Buckets)
        <= Window + Cardinality({p \in Proc : pc[p] = "append"})
=============================================================================
