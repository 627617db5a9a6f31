--------------------------- MODULE RollingNumber ---------------------------
(***************************************************************************)
(* rolling.Number (hystrix/rolling/rolling.go): a ring of one-second       *)
(* buckets that goroutines update, read and reset without a lock.          *)
(*                                                                         *)
(* A slot of the ring points to a bucket in heap.  A bucket's key never    *)
(* changes; to reuse a slot for another second a new bucket is put there   *)
(* by CompareAndSwap, and whoever still holds the old one updates a bucket *)
(* that nobody will read.  One step is one atomic operation.               *)
(*                                                                         *)
(* A Number is either incremented and summed, or used for a maximum; kind  *)
(* says which, and Merge is + or max accordingly.                          *)
(***************************************************************************)
EXTENDS Integers, Sequences, FiniteSetsExt

CONSTANTS
    Proc,       \* goroutines
    Window,     \* the 10 of rolling.go:8, :75 and :89
    Amounts,    \* arguments of Increment ("sum") and UpdateMax ("max")
    Start,      \* the second in which the Number is made
    MaxClock,   \* bound on the clock
    MaxLag,     \* bound on the age of the time a writer passes, in seconds
    MaxOps,     \* bound on the operations started
    MaxResets   \* bound on the calls of Reset among them

ASSUME WindowAssumption == Window \in Nat \ {0}
ASSUME StartAssumption == Start \in Nat /\ Start > Window
ASSUME ClockAssumption == MaxClock \in Nat /\ MaxClock >= Start
ASSUME LagAssumption == MaxLag \in 0..Window
ASSUME AmountsAssumption == Amounts \in [{"sum", "max"} -> SUBSET (Nat \ {0})]

VARIABLES
    kind,       \* what the Number is used for, "sum" or "max"
    clock,      \* time.Now().Unix()
    buckets,    \* the ring: slot -> index in heap
    heap,       \* the buckets made so far
    pc,         \* where each goroutine is
    epoch,      \* the time, in seconds, that its operation was given
    arg,        \* the argument of its Increment or UpdateMax
    bucket,     \* the bucket it has loaded
    val,        \* the value updateMax has loaded; the result of Sum or Max so far
    slot,       \* the loop variable of Sum, Max and Reset
    ops, resets,            \* operations started, calls of Reset among them
    total, since, before    \* history: see below

ring == <<buckets, heap>>
local == <<epoch, arg, bucket, val, slot>>
history == <<total, since, before>>
vars == <<kind, clock, ring, pc, local, ops, resets, history>>

Time == 0..MaxClock

\* numberBucketSize
BucketSize == Window + 1

Slot == 0..(BucketSize - 1)

Merge(a, b) == IF kind = "sum" THEN a + b ELSE IF a > b THEN a ELSE b

\* The values of f at the seconds S, added up or their maximum.
MergeAll(f, S) == MapThenFoldSet(Merge, 0, LAMBDA k : f[k], LAMBDA T : CHOOSE k \in T : TRUE, S)

\* What the ring holds for second k.
Stored(k) == LET b == heap[buckets[k % BucketSize]] IN IF b.key = k THEN b.value ELSE 0

Goto(p, from, to) == pc[p] = from /\ pc' = [pc EXCEPT ![p] = to]

Zero == [k \in Time |-> 0]

\* NewNumber.  total[k] is what has been recorded for second k, since[k] the part
\* of it recorded after the last Reset began, before[p] is total as it was when
\* p's Sum or Max began.
Init ==
    /\ kind \in {"sum", "max"}
    /\ clock = Start
    /\ heap = [i \in 1..BucketSize |-> [key |-> 0, value |-> 0]]
    /\ buckets = [s \in Slot |-> s + 1]
    /\ pc = [p \in Proc |-> "idle"]
    /\ epoch = [p \in Proc |-> 0]
    /\ arg = [p \in Proc |-> 0]
    /\ bucket = [p \in Proc |-> 1]
    /\ val = [p \in Proc |-> 0]
    /\ slot = [p \in Proc |-> 0]
    /\ ops = 0
    /\ resets = 0
    /\ total = Zero
    /\ since = Zero
    /\ before = [p \in Proc |-> Zero]

Begin(p, to) ==
    /\ ops < MaxOps
    /\ ops' = ops + 1
    /\ Goto(p, "idle", to)

----------------------------------------------------------------------------
(* IncrementAt and UpdateMaxAt                                             *)

\* An increment by 0 returns at once; the others take the time and the bucket.
Update(p) ==
    /\ Begin(p, "load")
    /\ epoch' = [epoch EXCEPT ![p] = clock]
    /\ \E n \in Amounts[kind] : arg' = [arg EXCEPT ![p] = n]
    /\ UNCHANGED <<kind, clock, ring, bucket, val, slot, resets, history>>

\* getBucketAt: the bucket in the slot is the one for this second, or not.
LoadBucket(p) ==
    /\ Goto(p, "load", IF heap[buckets[epoch[p] % BucketSize]].key # epoch[p] THEN "swap"
                       ELSE IF kind = "sum" THEN "add" ELSE "loadMax")
    /\ bucket' = [bucket EXCEPT ![p] = buckets[epoch[p] % BucketSize]]
    /\ UNCHANGED <<kind, clock, ring, epoch, arg, val, slot, ops, resets, history>>

\* A new bucket, with value 0, comes into slot s.
Install(s, key) ==
    /\ heap' = Append(heap, [key |-> key, value |-> 0])
    /\ buckets' = [buckets EXCEPT ![s] = Len(heap) + 1]

\* Mutation: Store instead of CompareAndSwap.
SwapBucket_Store(p) ==
    /\ Goto(p, "swap", IF kind = "sum" THEN "add" ELSE "loadMax")
    /\ Install(epoch[p] % BucketSize, epoch[p])
    /\ bucket' = [bucket EXCEPT ![p] = Len(heap) + 1]
    /\ UNCHANGED <<kind, clock, epoch, arg, val, slot, ops, resets, history>>

\* The CompareAndSwap, won ...
SwapBucket(p) ==
    /\ Goto(p, "swap", IF kind = "sum" THEN "add" ELSE "loadMax")
    /\ buckets[epoch[p] % BucketSize] = bucket[p]
    /\ Install(epoch[p] % BucketSize, epoch[p])
    /\ bucket' = [bucket EXCEPT ![p] = Len(heap) + 1]
    /\ UNCHANGED <<kind, clock, epoch, arg, val, slot, ops, resets, history>>

\* ... or lost to another goroutine.
SwapLost(p) ==
    /\ Goto(p, "swap", "load")
    /\ buckets[epoch[p] % BucketSize] # bucket[p]
    /\ UNCHANGED <<kind, clock, ring, local, ops, resets, history>>

\* The argument has been recorded.
Recorded(p) ==
    /\ total' = [total EXCEPT ![epoch[p]] = Merge(@, arg[p])]
    /\ since' = [since EXCEPT ![epoch[p]] = Merge(@, arg[p])]
    /\ UNCHANGED before

Add(p) ==
    /\ Goto(p, "add", "idle")
    /\ heap' = [heap EXCEPT ![bucket[p]].value = @ + arg[p]]
    /\ Recorded(p)
    /\ UNCHANGED <<kind, clock, buckets, local, ops, resets>>

\* updateMax: nothing to do ...
NotGreater(p) ==
    /\ Goto(p, "loadMax", "idle")
    /\ arg[p] <= heap[bucket[p]].value
    /\ Recorded(p)
    /\ UNCHANGED <<kind, clock, ring, local, ops, resets>>

\* ... or a value to replace ...
LoadMax(p) ==
    /\ Goto(p, "loadMax", "swapMax")
    /\ arg[p] > heap[bucket[p]].value
    /\ val' = [val EXCEPT ![p] = heap[bucket[p]].value]
    /\ UNCHANGED <<kind, clock, ring, epoch, arg, bucket, slot, ops, resets, history>>

\* ... by CompareAndSwap, won ...
SwapMax(p) ==
    /\ Goto(p, "swapMax", "idle")
    /\ heap[bucket[p]].value = val[p]
    /\ heap' = [heap EXCEPT ![bucket[p]].value = arg[p]]
    /\ Recorded(p)
    /\ UNCHANGED <<kind, clock, buckets, local, ops, resets>>

\* ... or lost.
SwapMaxLost(p) ==
    /\ Goto(p, "swapMax", "loadMax")
    /\ heap[bucket[p]].value # val[p]
    /\ UNCHANGED <<kind, clock, ring, local, ops, resets, history>>

----------------------------------------------------------------------------
(* Sum and Max                                                             *)

Scan(p) ==
    /\ Begin(p, "scan")
    /\ epoch' = [epoch EXCEPT ![p] = clock]
    /\ slot' = [slot EXCEPT ![p] = 0]
    /\ val' = [val EXCEPT ![p] = 0]
    /\ before' = [before EXCEPT ![p] = total]
    /\ UNCHANGED <<kind, clock, ring, arg, bucket, resets, total, since>>

\* The next slot, or the end of the loop.
NextSlot(p, from) ==
    /\ Goto(p, from, IF slot[p] + 1 = BucketSize THEN "scanned" ELSE "scan")
    /\ slot' = [slot EXCEPT ![p] = @ + 1]

\* A bucket that is too old ...
SkipBucket(p) ==
    /\ NextSlot(p, "scan")
    /\ heap[buckets[slot[p]]].key < epoch[p] - Window
    /\ UNCHANGED <<kind, clock, ring, epoch, arg, bucket, val, ops, resets, history>>

\* Mutation: Sum takes any bucket.
TakeBucket_Any(p) ==
    /\ Goto(p, "scan", "value")
    /\ bucket' = [bucket EXCEPT ![p] = buckets[slot[p]]]
    /\ UNCHANGED <<kind, clock, ring, epoch, arg, val, slot, ops, resets, history>>

\* ... and one in the window, whose value is loaded afterwards.
TakeBucket(p) ==
    /\ Goto(p, "scan", "value")
    /\ heap[buckets[slot[p]]].key >= epoch[p] - Window
    /\ bucket' = [bucket EXCEPT ![p] = buckets[slot[p]]]
    /\ UNCHANGED <<kind, clock, ring, epoch, arg, val, slot, ops, resets, history>>

TakeValue(p) ==
    /\ NextSlot(p, "value")
    /\ val' = [val EXCEPT ![p] = Merge(@, heap[bucket[p]].value)]
    /\ UNCHANGED <<kind, clock, ring, epoch, arg, bucket, ops, resets, history>>

\* Sum or Max returns val[p].
Return(p) ==
    /\ Goto(p, "scanned", "idle")
    /\ before' = [before EXCEPT ![p] = Zero]
    /\ UNCHANGED <<kind, clock, ring, local, ops, resets, total, since>>

----------------------------------------------------------------------------
(* Reset                                                                   *)

Reset(p) ==
    /\ Begin(p, "reset")
    /\ resets < MaxResets
    /\ resets' = resets + 1
    /\ slot' = [slot EXCEPT ![p] = 0]
    /\ since' = Zero
    /\ UNCHANGED <<kind, clock, ring, epoch, arg, bucket, val, total, before>>

\* Mutation: the loop ends one slot early.
ResetSlot_Early(p) ==
    /\ Goto(p, "reset", IF slot[p] + 2 >= BucketSize THEN "idle" ELSE "reset")
    /\ Install(slot[p], 0)
    /\ slot' = [slot EXCEPT ![p] = @ + 1]
    /\ UNCHANGED <<kind, clock, epoch, arg, bucket, val, ops, resets, history>>

ResetSlot(p) ==
    /\ Goto(p, "reset", IF slot[p] + 1 = BucketSize THEN "idle" ELSE "reset")
    /\ Install(slot[p], 0)
    /\ slot' = [slot EXCEPT ![p] = @ + 1]
    /\ UNCHANGED <<kind, clock, epoch, arg, bucket, val, ops, resets, history>>

----------------------------------------------------------------------------
Writing(p) == pc[p] \in {"load", "swap", "add", "loadMax", "swapMax"}

\* A second passes; no writer is stalled for longer than MaxLag.
Tick ==
    /\ clock < MaxClock
    /\ \A p \in Proc : Writing(p) => clock + 1 - epoch[p] <= MaxLag
    /\ clock' = clock + 1
    /\ UNCHANGED <<kind, ring, pc, local, ops, resets, history>>

Terminated ==
    /\ ops = MaxOps /\ clock = MaxClock /\ \A p \in Proc : pc[p] = "idle"
    /\ UNCHANGED vars

GetBucketAt(p) == LoadBucket(p) \/ SwapBucket(p) \/ SwapLost(p)

UpdateMax(p) == NotGreater(p) \/ LoadMax(p) \/ SwapMax(p) \/ SwapMaxLost(p)

Sum(p) == SkipBucket(p) \/ TakeBucket(p) \/ TakeValue(p) \/ Return(p)

Next ==
    \/ \E p \in Proc : \/ Update(p) \/ GetBucketAt(p) \/ Add(p) \/ UpdateMax(p)
                       \/ Scan(p) \/ Sum(p)
                       \/ Reset(p) \/ ResetSlot(p)
    \/ Tick
    \/ Terminated

Spec == Init /\ [][Next]_vars
----------------------------------------------------------------------------
(* Properties                                                              *)

\* Nothing recorded for a second of the window is lost, although goroutines race
\* to replace the bucket that has the slot and record on what they have loaded
\* (rolling.go:32-60, :113-123), as long as no Reset runs and no writer is
\* stalled for longer than the window.
WindowExact ==
    resets = 0 => \A k \in (clock - Window)..clock : Stored(k) = total[k]

\* Reset forgets everything recorded before it began, also while others record
\* (rolling.go:107-111): what opened a circuit cannot count again after setClose.
ResetForgets ==
    (\A p \in Proc : pc[p] # "reset") => \A k \in Time : Stored(k) <= since[k]

\* A Sum or Max that races with writers and with the clock returns no more than
\* all that was recorded from its oldest second on, and no less than what was
\* recorded when it began for the seconds still in the window when it returns
\* (rolling.go:74-101).
ScanBounded ==
    \A p \in Proc : pc[p] = "scanned" =>
        /\ val[p] <= MergeAll(total, (epoch[p] - Window)..clock)
        /\ resets = 0 => val[p] >= MergeAll(before[p], (clock - Window)..clock)
=============================================================================
