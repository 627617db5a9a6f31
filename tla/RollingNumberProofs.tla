------------------------ MODULE RollingNumberProofs ------------------------
(***************************************************************************)
(* Proofs about module RollingNumber, for any goroutines, any window, any  *)
(* amounts and any number of operations.                                   *)
(***************************************************************************)
EXTENDS RollingNumber, FoldProofs, TLAPS

----------------------------------------------------------------------------
(* The strengthening that makes the properties inductive.                  *)

Location == {"idle", "load", "swap", "add", "loadMax", "swapMax", "scan", "value", "scanned", "reset"}

Bucket == [key : Nat, value : Nat]

Types ==
    /\ kind \in {"sum", "max"}
    /\ clock \in Nat /\ Start <= clock /\ clock <= MaxClock
    /\ heap \in Seq(Bucket)
    /\ buckets \in [Slot -> Nat] /\ \A s \in Slot : buckets[s] \in DOMAIN heap
    /\ pc \in [Proc -> Location]
    /\ epoch \in [Proc -> Nat] /\ arg \in [Proc -> Nat]
    /\ bucket \in [Proc -> Nat] /\ \A p \in Proc : bucket[p] \in DOMAIN heap
    /\ val \in [Proc -> Nat] /\ slot \in [Proc -> Nat]
    /\ resets \in Nat
    /\ total \in [Time -> Nat] /\ since \in [Time -> Nat]

\* The loop of Sum, Max and Reset is at a slot of the ring.
SlotInv ==
    \A p \in Proc : pc[p] \in {"scan", "value", "reset"} => slot[p] \in Slot

\* What a writer knows of the bucket it has loaded.
Writer(p) ==
    /\ epoch[p] <= clock
    /\ pc[p] = "add" => kind = "sum"
    /\ pc[p] \in {"loadMax", "swapMax"} => kind = "max"
    /\ pc[p] = "swap" => heap[bucket[p]].key # epoch[p]
    /\ pc[p] \in {"add", "loadMax", "swapMax"} => heap[bucket[p]].key = epoch[p]
    /\ pc[p] = "swapMax" => val[p] < arg[p]
WriterInv == \A p \in Proc : Writer(p)

\* Nothing is of the future.
PastInv ==
    /\ \A i \in DOMAIN heap : heap[i].key <= clock
    /\ \A k \in Time : k > clock => total[k] = 0

\* No writer is behind the window, and before the first Reset the bucket that a writer
\* records on is the one in the ring.
HeldInv ==
    /\ \A p \in Proc : Writing(p) => clock - epoch[p] <= MaxLag
    /\ \A p \in Proc : pc[p] = "reset" => resets > 0
    /\ resets = 0 => \A p \in Proc :
         pc[p] \in {"add", "loadMax", "swapMax"} => bucket[p] = buckets[epoch[p] % BucketSize]

\* The slots that every Reset under way has passed hold nothing from before the last of them.
ForgottenInv ==
    \A k \in Time :
        (\A p \in Proc : pc[p] = "reset" => slot[p] > k % BucketSize) => Stored(k) <= since[k]

----------------------------------------------------------------------------
(* The ring.                                                               *)

LEMMA SizeType == BucketSize \in Nat /\ BucketSize > 0 /\ BucketSize = Window + 1 /\ Slot = 0..Window
BY WindowAssumption DEF BucketSize, Slot

LEMMA SlotOf == ASSUME NEW k \in Nat PROVE k % BucketSize \in Slot
<1>1. k % BucketSize \in 0..(BucketSize - 1)
  BY SizeType
<1> QED
  BY <1>1 DEF Slot

LEMMA NextInRing == ASSUME NEW s \in Slot, s + 1 # BucketSize PROVE s + 1 \in Slot
BY SizeType, WindowAssumption

\* Two seconds of one window are in one slot only if they are the same.
LEMMA SlotApart ==
    ASSUME NEW m \in Nat, NEW n \in Nat, m % BucketSize = n % BucketSize,
           m - n < BucketSize, n - m < BucketSize
    PROVE  m = n
<1>b. PICK b \in Nat : b = BucketSize /\ b > 0
  BY SizeType
<1>0. PICK r \in Nat : r = m % b
  BY <1>b
<1>1. PICK x \in Int, y \in Int : m = b * x + r /\ n = b * y + r
  BY <1>0, <1>b
<1>2. PICK q \in Int : q = x - y
  OBVIOUS
<1>3. m - n = b * q
  BY <1>1, <1>2
<1>4. q < 1
  BY <1>3, <1>b, <1>2
<1>5. q > -1
  BY <1>3, <1>b, <1>2
<1>6. q = 0
  BY <1>4, <1>5, <1>2
<1> QED
  BY <1>3, <1>6, <1>b

LEMMA BucketAt ==
    ASSUME Types, NEW i \in DOMAIN heap PROVE heap[i].key \in Nat /\ heap[i].value \in Nat
<1>1. heap[i] \in Bucket
  BY DEF Types
<1> QED
  BY <1>1 DEF Bucket

LEMMA InstallBucket ==
    ASSUME Types, NEW s \in Slot, NEW key \in Nat, Install(s, key)
    PROVE  LET n == Len(heap) + 1 IN
           /\ heap' \in Seq(Bucket) /\ n \in Nat /\ n \notin DOMAIN heap
           /\ DOMAIN heap' = DOMAIN heap \cup {n}
           /\ \A i \in DOMAIN heap : heap'[i] = heap[i]
           /\ heap'[n].key = key /\ heap'[n].value = 0
           /\ buckets' \in [Slot -> Nat] /\ buckets'[s] = n
           /\ \A r \in Slot : r # s => buckets'[r] = buckets[r]
<1> DEFINE b == [key |-> key, value |-> 0]
<1>1. b \in Bucket /\ b.key = key /\ b.value = 0
  BY DEF Bucket
<1>2. heap' = Append(heap, b) /\ buckets' = [buckets EXCEPT ![s] = Len(heap) + 1]
  BY DEF Install
<1> HIDE DEF b
<1>3. heap \in Seq(Bucket) /\ buckets \in [Slot -> Nat]
  BY DEF Types
<1>4. /\ heap' \in Seq(Bucket) /\ Len(heap) + 1 \in Nat /\ Len(heap) + 1 \notin DOMAIN heap
      /\ DOMAIN heap' = DOMAIN heap \cup {Len(heap) + 1}
      /\ \A i \in DOMAIN heap : heap'[i] = heap[i]
      /\ heap'[Len(heap) + 1] = b
  BY <1>1, <1>2, <1>3
<1> QED
  BY <1>1, <1>2, <1>3, <1>4

LEMMA SetValue ==
    ASSUME Types, NEW i \in DOMAIN heap, NEW v \in Nat, heap' = [heap EXCEPT ![i].value = v]
    PROVE  /\ heap' \in Seq(Bucket) /\ DOMAIN heap' = DOMAIN heap
           /\ \A j \in DOMAIN heap : heap'[j].key = heap[j].key /\ (j # i => heap'[j] = heap[j])
           /\ heap'[i].value = v
<1> DEFINE b == [heap[i] EXCEPT !.value = v]
<1>1. heap \in Seq(Bucket) /\ heap[i] \in Bucket
  BY DEF Types
<1>2. b \in Bucket /\ b.key = heap[i].key /\ b.value = v
  BY <1>1 DEF Bucket
<1>3. heap' = [heap EXCEPT ![i] = b]
  BY <1>1
<1> HIDE DEF b
<1> QED
  BY <1>1, <1>2, <1>3

----------------------------------------------------------------------------
(* What has been recorded.                                                 *)

LEMMA MergeType ==
    ASSUME NEW a \in Nat, NEW b \in Nat PROVE Merge(a, b) \in Nat /\ Merge(a, b) >= a /\ Merge(a, b) >= b
BY DEF Merge

LEMMA RecordedAt ==
    ASSUME Types, WriterInv, NEW p \in Proc, Recorded(p)
    PROVE  /\ epoch[p] \in Time
           /\ total' \in [Time -> Nat] /\ since' \in [Time -> Nat]
           /\ total'[epoch[p]] = Merge(total[epoch[p]], arg[p])
           /\ since'[epoch[p]] = Merge(since[epoch[p]], arg[p])
           /\ \A k \in Time : k # epoch[p] => total'[k] = total[k] /\ since'[k] = since[k]
<1>1. epoch[p] \in Time /\ arg[p] \in Nat
  BY ClockAssumption DEF Types, WriterInv, Writer, Time
<1>2. PICK e \in Time : e = epoch[p]
  BY <1>1
<1>3. total \in [Time -> Nat] /\ since \in [Time -> Nat]
  BY DEF Types
<1>4. PICK x \in Nat, y \in Nat : x = Merge(total[e], arg[p]) /\ y = Merge(since[e], arg[p])
  BY <1>1, <1>3, MergeType
<1>5. total' = [total EXCEPT ![e] = x] /\ since' = [since EXCEPT ![e] = y]
  BY <1>2, <1>4 DEF Recorded
<1> QED
  BY <1>1, <1>2, <1>3, <1>4, <1>5

----------------------------------------------------------------------------
(* Types.                                                                  *)

\* The steps that leave the ring, the recorded amounts and the resets alone.
Reads(p) ==
    \/ Update(p) \/ LoadBucket(p) \/ SwapLost(p) \/ LoadMax(p) \/ SwapMaxLost(p)
    \/ Scan(p) \/ SkipBucket(p) \/ TakeBucket(p) \/ TakeValue(p) \/ Return(p)

LEMMA Steps ==
    ASSUME [Next]_vars
    PROVE  \/ \E p \in Proc : \/ Reads(p) \/ SwapBucket(p) \/ Add(p) \/ NotGreater(p) \/ SwapMax(p)
                              \/ Reset(p) \/ ResetSlot(p)
           \/ Tick \/ UNCHANGED vars
BY DEF Next, GetBucketAt, UpdateMax, Sum, Reads, Terminated

LEMMA StepTypes == Types /\ SlotInv /\ WriterInv /\ [Next]_vars => Types'
<1> SUFFICES ASSUME Types, SlotInv, WriterInv, [Next]_vars PROVE Types'
  OBVIOUS
<1>1. ASSUME NEW p \in Proc, Reads(p) PROVE Types'
  <2>1. /\ UNCHANGED <<kind, clock, heap, buckets, resets, total, since>>
    BY <1>1 DEF Reads, Update, LoadBucket, SwapLost, LoadMax, SwapMaxLost, Scan, SkipBucket, TakeBucket,
                TakeValue, Return, ring, history
  <2>2. CASE Update(p)
    <3>1. \A n \in Amounts[kind] : n \in Nat
      BY AmountsAssumption DEF Types
    <3> QED
      BY <2>1, <2>2, <3>1 DEF Update, Begin, Goto, Types, Location
  <2>3. CASE LoadBucket(p)
    <3>1. buckets[epoch[p] % BucketSize] \in DOMAIN heap /\ buckets[epoch[p] % BucketSize] \in Nat
      BY SlotOf DEF Types
    <3> QED
      BY <2>1, <2>3, <3>1 DEF LoadBucket, Goto, Types, Location
  <2>4. CASE SwapLost(p) \/ SwapMaxLost(p) \/ Return(p)
    BY <2>1, <2>4 DEF SwapLost, SwapMaxLost, Return, Goto, local, Types, Location
  <2>5. CASE LoadMax(p)
    <3>1. heap[bucket[p]].value \in Nat
      BY BucketAt DEF Types
    <3> QED
      BY <2>1, <2>5, <3>1 DEF LoadMax, Goto, Types, Location
  <2>6. CASE Scan(p)
    BY <2>1, <2>6 DEF Scan, Begin, Goto, Types, Location
  <2>7. CASE SkipBucket(p)
    <3>1. /\ pc' = [pc EXCEPT ![p] = IF slot[p] + 1 = BucketSize THEN "scanned" ELSE "scan"]
          /\ slot' = [slot EXCEPT ![p] = slot[p] + 1] /\ UNCHANGED <<epoch, arg, bucket, val>>
      BY <2>7 DEF SkipBucket, NextSlot, Goto
    <3>2. pc' \in [Proc -> Location] /\ slot' \in [Proc -> Nat]
      BY <3>1 DEF Types, Location
    <3> QED
      BY <2>1, <3>1, <3>2 DEF Types
  <2>8. CASE TakeBucket(p)
    <3>1. buckets[slot[p]] \in DOMAIN heap /\ buckets[slot[p]] \in Nat
      BY <2>8 DEF TakeBucket, Goto, SlotInv, Types
    <3> QED
      BY <2>1, <2>8, <3>1 DEF TakeBucket, Goto, Types, Location
  <2>9. CASE TakeValue(p)
    <3>1. Merge(val[p], heap[bucket[p]].value) \in Nat
      BY MergeType, BucketAt DEF Types
    <3> QED
      <4>1. /\ pc' = [pc EXCEPT ![p] = IF slot[p] + 1 = BucketSize THEN "scanned" ELSE "scan"]
            /\ slot' = [slot EXCEPT ![p] = slot[p] + 1] /\ UNCHANGED <<epoch, arg, bucket>>
            /\ val' = [val EXCEPT ![p] = Merge(val[p], heap[bucket[p]].value)]
        BY <2>9 DEF TakeValue, NextSlot, Goto
      <4>2. pc' \in [Proc -> Location] /\ slot' \in [Proc -> Nat] /\ val' \in [Proc -> Nat]
        BY <3>1, <4>1 DEF Types, Location
      <4> QED
        BY <2>1, <4>1, <4>2 DEF Types
  <2> QED
    BY <1>1, <2>2, <2>3, <2>4, <2>5, <2>6, <2>7, <2>8, <2>9 DEF Reads
<1>2. ASSUME NEW p \in Proc, SwapBucket(p) PROVE Types'
  <2>1. /\ UNCHANGED <<kind, clock, epoch, arg, val, slot, resets, total, since>>
        /\ Install(epoch[p] % BucketSize, epoch[p])
        /\ bucket' = [bucket EXCEPT ![p] = Len(heap) + 1]
        /\ pc' \in [Proc -> Location]
    BY <1>2 DEF SwapBucket, Goto, history, Types, Location
  <2>2. epoch[p] \in Nat /\ epoch[p] % BucketSize \in Slot
    BY SlotOf DEF Types
  <2> QED
    BY <2>1, <2>2, InstallBucket DEF Types
<1>3. ASSUME NEW p \in Proc, Add(p) \/ NotGreater(p) \/ SwapMax(p) PROVE Types'
  <2>1. /\ UNCHANGED <<kind, clock, buckets, local, resets>> /\ Recorded(p)
        /\ pc' \in [Proc -> Location]
    BY <1>3 DEF Add, NotGreater, SwapMax, Goto, Types, Location, ring
  <2>2. heap' \in Seq(Bucket) /\ DOMAIN heap' = DOMAIN heap
    <3>1. arg[p] \in Nat /\ bucket[p] \in DOMAIN heap /\ heap[bucket[p]].value + arg[p] \in Nat
      BY BucketAt DEF Types
    <3>2. CASE Add(p)
      <4>1. heap' = [heap EXCEPT ![bucket[p]].value = heap[bucket[p]].value + arg[p]]
        BY <3>1, <3>2 DEF Add
      <4> QED
        BY <3>1, <4>1, SetValue
    <3>3. CASE NotGreater(p)
      BY <3>3 DEF NotGreater, ring, Types
    <3>4. CASE SwapMax(p)
      BY <3>1, <3>4, SetValue DEF SwapMax
    <3> QED
      BY <1>3, <3>2, <3>3, <3>4
  <2>3. total' \in [Time -> Nat] /\ since' \in [Time -> Nat]
    BY <2>1, RecordedAt
  <2> QED
    BY <2>1, <2>2, <2>3 DEF Types, local
<1>4. ASSUME NEW p \in Proc, Reset(p) PROVE Types'
  <2>1. since' \in [Time -> Nat]
    BY <1>4 DEF Reset, Zero
  <2> QED
    BY <1>4, <2>1 DEF Reset, Begin, Goto, ring, Types, Location
<1>5. ASSUME NEW p \in Proc, ResetSlot(p) PROVE Types'
  <2>1. /\ UNCHANGED <<kind, clock, epoch, arg, bucket, val, resets, total, since>>
        /\ Install(slot[p], 0) /\ pc[p] = "reset"
        /\ slot' \in [Proc -> Nat]
        /\ pc' \in [Proc -> Location]
    BY <1>5 DEF ResetSlot, Goto, history, Types, Location
  <2>2. slot[p] \in Slot
    BY <2>1 DEF SlotInv
  <2> QED
    BY <2>1, <2>2, InstallBucket DEF Types
<1>6. ASSUME Tick PROVE Types'
  BY <1>6, ClockAssumption, StartAssumption DEF Tick, ring, local, history, Types
<1>7. ASSUME UNCHANGED vars PROVE Types'
  BY <1>7 DEF vars, ring, local, history, Types
<1> QED
  BY <1>1, <1>2, <1>3, <1>4, <1>5, <1>6, <1>7, Steps

\* Buckets stay where they are and keep their keys.
KeysKept ==
    /\ DOMAIN heap \subseteq DOMAIN heap'
    /\ \A i \in DOMAIN heap : heap'[i].key = heap[i].key

LEMMA StepKeys == ASSUME Types, SlotInv, WriterInv, [Next]_vars PROVE KeysKept
<1>1. ASSUME NEW p \in Proc, Reads(p) \/ NotGreater(p) \/ Reset(p) PROVE UNCHANGED heap
  BY <1>1 DEF Reads, Update, LoadBucket, SwapLost, LoadMax, SwapMaxLost, Scan, SkipBucket, TakeBucket,
              TakeValue, Return, NotGreater, Reset, ring
<1>2. ASSUME NEW p \in Proc, SwapBucket(p) PROVE KeysKept
  <2>1. epoch[p] \in Nat /\ epoch[p] % BucketSize \in Slot
    BY SlotOf DEF Types
  <2> QED
    BY <1>2, <2>1, InstallBucket DEF SwapBucket, KeysKept
<1>3. ASSUME NEW p \in Proc, Add(p) PROVE KeysKept
  <2>1. bucket[p] \in DOMAIN heap /\ heap[bucket[p]].value + arg[p] \in Nat
    BY BucketAt DEF Types
  <2>2. heap' = [heap EXCEPT ![bucket[p]].value = heap[bucket[p]].value + arg[p]]
    BY <1>3, <2>1 DEF Add
  <2> QED
    BY <2>1, <2>2, SetValue DEF KeysKept
<1>4. ASSUME NEW p \in Proc, SwapMax(p) PROVE KeysKept
  <2>1. arg[p] \in Nat /\ bucket[p] \in DOMAIN heap
    BY DEF Types
  <2> QED
    BY <1>4, <2>1, SetValue DEF SwapMax, KeysKept
<1>5. ASSUME NEW p \in Proc, ResetSlot(p) PROVE KeysKept
  <2>1. slot[p] \in Slot
    BY <1>5 DEF ResetSlot, Goto, SlotInv
  <2> QED
    BY <1>5, <2>1, InstallBucket DEF ResetSlot, KeysKept
<1>6. ASSUME Tick \/ UNCHANGED vars PROVE UNCHANGED heap
  BY <1>6 DEF Tick, vars, ring
<1>7. ASSUME UNCHANGED heap PROVE KeysKept
  BY <1>7 DEF KeysKept
<1> QED
  BY <1>1, <1>2, <1>3, <1>4, <1>5, <1>6, <1>7, Steps

----------------------------------------------------------------------------
(* Loops and writers.                                                      *)

StepOf(p) ==
    \/ Reads(p) \/ SwapBucket(p) \/ Add(p) \/ NotGreater(p) \/ SwapMax(p) \/ Reset(p) \/ ResetSlot(p)

Same(q) ==
    /\ pc'[q] = pc[q] /\ epoch'[q] = epoch[q] /\ arg'[q] = arg[q]
    /\ bucket'[q] = bucket[q] /\ val'[q] = val[q] /\ slot'[q] = slot[q]

\* A goroutine's step is its own.
LEMMA Others ==
    ASSUME Types, NEW p \in Proc, StepOf(p)
    PROVE  UNCHANGED <<kind, clock>> /\ \A q \in Proc : q # p => Same(q)
<1> USE DEF Same, Types, Goto, Begin, local
<1>1. ASSUME Update(p) \/ LoadBucket(p) \/ SwapLost(p) \/ LoadMax(p) \/ SwapMaxLost(p)
      PROVE  UNCHANGED <<kind, clock>> /\ \A q \in Proc : q # p => Same(q)
  BY <1>1 DEF Update, LoadBucket, SwapLost, LoadMax, SwapMaxLost
<1>2. ASSUME Scan(p) \/ SkipBucket(p) \/ TakeBucket(p) \/ TakeValue(p) \/ Return(p)
      PROVE  UNCHANGED <<kind, clock>> /\ \A q \in Proc : q # p => Same(q)
  BY <1>2 DEF Scan, SkipBucket, TakeBucket, TakeValue, Return, NextSlot
<1>3. ASSUME Add(p) \/ NotGreater(p) \/ SwapMax(p)
      PROVE  UNCHANGED <<kind, clock>> /\ \A q \in Proc : q # p => Same(q)
  BY <1>3 DEF Add, NotGreater, SwapMax
<1>4. ASSUME SwapBucket(p) \/ Reset(p) \/ ResetSlot(p)
      PROVE  UNCHANGED <<kind, clock>> /\ \A q \in Proc : q # p => Same(q)
  BY <1>4 DEF SwapBucket, Reset, ResetSlot
<1> QED
  BY <1>1, <1>2, <1>3, <1>4 DEF StepOf, Reads

LEMMA StillSame ==
    ASSUME Types, Tick \/ UNCHANGED vars
    PROVE  kind' = kind /\ clock' \in Nat /\ clock <= clock' /\ \A q \in Proc : Same(q)
BY DEF Same, Tick, vars, local, Types

LEMMA StepSlots == Types /\ SlotInv /\ [Next]_vars => SlotInv'
<1> SUFFICES ASSUME Types, SlotInv, [Next]_vars PROVE SlotInv'
  OBVIOUS
<1>1. ASSUME NEW p \in Proc, StepOf(p) PROVE SlotInv'
  <2>1. ASSUME NEW q \in Proc, q # p PROVE pc'[q] \in {"scan", "value", "reset"} => slot'[q] \in Slot
    BY <1>1, <2>1, Others DEF Same, SlotInv
  <2>2. pc'[p] \in {"scan", "value", "reset"} => slot'[p] \in Slot
    <3> USE SizeType DEF Types, Goto, Begin, local
    <3>1. CASE Update(p) \/ LoadBucket(p) \/ SwapLost(p) \/ LoadMax(p) \/ SwapMaxLost(p)
      BY <3>1 DEF Update, LoadBucket, SwapLost, LoadMax, SwapMaxLost
    <3>2. CASE Scan(p)
      BY <3>2, WindowAssumption DEF Scan
    <3>3. CASE SkipBucket(p) \/ TakeValue(p)
      <4>1. /\ pc[p] \in {"scan", "value"} /\ slot'[p] = slot[p] + 1
            /\ pc'[p] = IF slot[p] + 1 = BucketSize THEN "scanned" ELSE "scan"
        BY <3>3 DEF SkipBucket, TakeValue, NextSlot
      <4>2. slot[p] \in Slot
        BY <4>1 DEF SlotInv
      <4>3. CASE slot[p] + 1 = BucketSize
        BY <4>1, <4>3
      <4>4. CASE slot[p] + 1 # BucketSize
        <5>1. slot[p] + 1 \in Slot
          BY <4>2, <4>4, NextInRing
        <5> QED
          BY <4>1, <5>1
      <4> QED
        BY <4>3, <4>4
    <3>4. CASE TakeBucket(p) \/ Return(p)
      BY <3>4 DEF TakeBucket, Return, SlotInv
    <3>5. CASE Add(p) \/ NotGreater(p) \/ SwapMax(p) \/ SwapBucket(p)
      BY <3>5 DEF Add, NotGreater, SwapMax, SwapBucket
    <3>6. CASE Reset(p)
      BY <3>6, WindowAssumption DEF Reset
    <3>7. CASE ResetSlot(p)
      BY <3>7, WindowAssumption DEF ResetSlot, SlotInv
    <3> QED
      BY <1>1, <3>1, <3>2, <3>3, <3>4, <3>5, <3>6, <3>7 DEF StepOf, Reads
  <2> QED
    BY <2>1, <2>2 DEF SlotInv
<1>2. ASSUME Tick \/ UNCHANGED vars PROVE SlotInv'
  BY <1>2, StillSame DEF Same, SlotInv
<1> QED
  BY <1>1, <1>2, Steps DEF StepOf

LEMMA StepWriters == Types /\ SlotInv /\ WriterInv /\ [Next]_vars => WriterInv'
<1> SUFFICES ASSUME Types, SlotInv, WriterInv, [Next]_vars PROVE WriterInv'
  OBVIOUS
<1>k. KeysKept
  BY StepKeys
<1>t. /\ clock \in Nat /\ \A q \in Proc : bucket[q] \in DOMAIN heap /\ epoch[q] \in Nat
      /\ pc \in [Proc -> Location] /\ DOMAIN bucket = Proc /\ DOMAIN epoch = Proc /\ DOMAIN val = Proc
  BY DEF Types
<1>x. ASSUME NEW q \in Proc, Same(q), kind' = kind, clock' \in Nat, clock <= clock' PROVE Writer(q)'
  BY <1>k, <1>t, <1>x DEF Same, KeysKept, WriterInv, Writer
<1>1. ASSUME NEW p \in Proc, StepOf(p) PROVE WriterInv'
  <2>1. UNCHANGED <<kind, clock>> /\ \A q \in Proc : q # p => Writer(q)'
    BY <1>1, <1>t, <1>x, Others
  <2>w. Writer(p) /\ kind \in {"sum", "max"}
    BY DEF WriterInv, Types
  <2>2. Writer(p)'
    <3>1. CASE Update(p)
      BY <1>t, <2>1, <3>1 DEF Update, Begin, Goto, Writer
    <3>2. CASE LoadBucket(p)
      BY <1>t, <2>w, <2>1, <3>2 DEF LoadBucket, Goto, ring, Writer
    <3>3. CASE SwapLost(p) \/ Return(p)
      BY <1>t, <2>w, <2>1, <3>3 DEF SwapLost, Return, Goto, local, Writer
    <3>4. CASE LoadMax(p)
      <4>1. arg[p] \in Nat /\ heap[bucket[p]].value \in Nat
        BY BucketAt DEF Types
      <4> QED
        BY <1>t, <2>w, <2>1, <3>4, <4>1 DEF LoadMax, Goto, ring, Writer
    <3>5. CASE SwapMaxLost(p)
      BY <1>t, <2>w, <2>1, <3>5 DEF SwapMaxLost, Goto, local, ring, Writer
    <3>6. CASE Scan(p)
      BY <1>t, <2>1, <3>6 DEF Scan, Begin, Goto, Writer
    <3>7. CASE SkipBucket(p) \/ TakeBucket(p) \/ TakeValue(p)
      BY <1>t, <2>w, <2>1, <3>7 DEF SkipBucket, TakeBucket, TakeValue, NextSlot, Goto, Writer
    <3>8. CASE SwapBucket(p)
      <4>1. epoch[p] \in Nat /\ epoch[p] % BucketSize \in Slot
        BY SlotOf DEF Types
      <4>2. heap'[Len(heap) + 1].key = epoch[p]
        BY <3>8, <4>1, InstallBucket DEF SwapBucket
      <4>3. /\ UNCHANGED epoch /\ bucket'[p] = Len(heap) + 1
            /\ pc'[p] = IF kind = "sum" THEN "add" ELSE "loadMax"
        BY <1>t, <3>8 DEF SwapBucket, Goto
      <4> QED
        BY <2>w, <2>1, <4>2, <4>3 DEF Writer
    <3>9. CASE Add(p) \/ NotGreater(p) \/ SwapMax(p)
      <4>1. UNCHANGED epoch /\ pc'[p] = "idle"
        BY <1>t, <3>9 DEF Add, NotGreater, SwapMax, Goto, local
      <4> QED
        BY <2>w, <2>1, <4>1 DEF Writer
    <3>10. CASE Reset(p) \/ ResetSlot(p)
      <4>1. UNCHANGED epoch /\ pc'[p] \in {"idle", "reset"}
        BY <1>t, <3>10 DEF Reset, ResetSlot, Begin, Goto
      <4> QED
        BY <2>w, <2>1, <4>1 DEF Writer
    <3> QED
      BY <1>1, <3>1, <3>2, <3>3, <3>4, <3>5, <3>6, <3>7, <3>8, <3>9, <3>10 DEF StepOf, Reads
  <2> QED
    BY <2>1, <2>2 DEF WriterInv
<1>2. ASSUME Tick \/ UNCHANGED vars PROVE WriterInv'
  BY <1>2, <1>x, StillSame DEF WriterInv
<1> QED
  BY <1>1, <1>2, Steps DEF StepOf

----------------------------------------------------------------------------
\* The part of the invariant that both properties need.
NumberInv == Types /\ SlotInv /\ WriterInv

LEMMA InitNumber == Init => NumberInv
<1> SUFFICES ASSUME Init PROVE NumberInv
  OBVIOUS
<1>1. heap \in Seq(Bucket) /\ DOMAIN heap = 1..BucketSize
  <2> DEFINE b == [key |-> 0, value |-> 0]
  <2>1. b \in Bucket
    BY DEF Bucket
  <2>2. heap = [i \in 1..BucketSize |-> b]
    BY DEF Init
  <2> HIDE DEF b
  <2> QED
    BY <2>1, <2>2, SizeType
<1>2. buckets \in [Slot -> Nat] /\ \A s \in Slot : buckets[s] \in 1..BucketSize
  BY SizeType, WindowAssumption DEF Init
<1>3. Types
  BY <1>1, <1>2, SizeType, StartAssumption, ClockAssumption DEF Init, Types, Location, Zero
<1>4. SlotInv /\ WriterInv
  BY StartAssumption DEF Init, SlotInv, WriterInv, Writer
<1> QED
  BY <1>3, <1>4 DEF NumberInv

LEMMA NumberKept == Spec => []NumberInv
<1>1. NumberInv /\ [Next]_vars => NumberInv'
  BY StepTypes, StepSlots, StepWriters DEF NumberInv
<1> QED
  BY <1>1, InitNumber, PTL DEF Spec

----------------------------------------------------------------------------
(* Reset.                                                                  *)

\* The ring is as it was, and no more than before has to be forgotten.
LEMMA ForgottenStays ==
    ASSUME Types, ForgottenInv, UNCHANGED <<heap, buckets>>, since' \in [Time -> Nat],
           \A k \in Time : since[k] <= since'[k],
           \A q \in Proc : pc[q] = "reset" => pc'[q] = "reset" /\ slot'[q] = slot[q]
    PROVE  ForgottenInv'
<1> SUFFICES ASSUME NEW k \in Time, \A q \in Proc : pc'[q] = "reset" => slot'[q] > k % BucketSize
             PROVE  Stored(k)' <= since'[k]
  BY DEF ForgottenInv
<1>1. k \in Nat /\ k % BucketSize \in Slot
  BY SlotOf, ClockAssumption DEF Time
<1>2. Stored(k) \in Nat /\ Stored(k)' = Stored(k)
  BY <1>1, BucketAt DEF Stored, Types
<1>3. Stored(k) <= since[k]
  BY DEF ForgottenInv
<1>4. since[k] \in Nat /\ since'[k] \in Nat /\ since[k] <= since'[k]
  BY DEF Types
<1> QED
  BY <1>2, <1>3, <1>4

\* A new bucket, for whatever second, has nothing to forget.
LEMMA ForgottenInstalled ==
    ASSUME Types, ForgottenInv, UNCHANGED since, NEW s \in Slot, NEW key \in Nat, Install(s, key),
           \A k \in Time : k % BucketSize # s /\ (\A q \in Proc : pc'[q] = "reset" => slot'[q] > k % BucketSize)
               => \A q \in Proc : pc[q] = "reset" => slot[q] > k % BucketSize
    PROVE  ForgottenInv'
<1> SUFFICES ASSUME NEW k \in Time, \A q \in Proc : pc'[q] = "reset" => slot'[q] > k % BucketSize
             PROVE  Stored(k)' <= since'[k]
  BY DEF ForgottenInv
<1>1. k \in Nat /\ k % BucketSize \in Slot
  BY SlotOf, ClockAssumption DEF Time
<1>2. since'[k] = since[k] /\ since[k] \in Nat
  BY DEF Types
<1>n. PICK n : n = Len(heap) + 1
  OBVIOUS
<1>i. /\ \A i \in DOMAIN heap : heap'[i] = heap[i]
      /\ heap'[n].value = 0 /\ buckets'[s] = n
      /\ \A r \in Slot : r # s => buckets'[r] = buckets[r]
  BY <1>n, InstallBucket
<1>3. CASE k % BucketSize = s
  <2>1. Stored(k)' = 0
    BY <1>3, <1>i DEF Stored
  <2> QED
    BY <1>2, <2>1
<1>4. CASE k % BucketSize # s
  <2>1. buckets[k % BucketSize] \in DOMAIN heap
    BY <1>1 DEF Types
  <2>2. Stored(k)' = Stored(k)
    BY <1>1, <1>4, <1>i, <2>1 DEF Stored
  <2>3. Stored(k) <= since[k]
    BY <1>4 DEF ForgottenInv
  <2> QED
    BY <1>2, <2>2, <2>3
<1> QED
  BY <1>3, <1>4

\* What a writer adds to a bucket it adds to what has been recorded since the last Reset.
LEMMA ForgottenWritten ==
    ASSUME Types, WriterInv, ForgottenInv, NEW p \in Proc, Recorded(p), UNCHANGED <<buckets, slot>>,
           \A q \in Proc : pc'[q] = "reset" <=> pc[q] = "reset",
           heap[bucket[p]].key = epoch[p],
           NEW v \in Nat, heap' = [heap EXCEPT ![bucket[p]].value = v],
           heap[bucket[p]].value <= since[epoch[p]] => v <= since'[epoch[p]]
    PROVE  ForgottenInv'
<1> SUFFICES ASSUME NEW k \in Time, \A q \in Proc : pc'[q] = "reset" => slot'[q] > k % BucketSize
             PROVE  Stored(k)' <= since'[k]
  BY DEF ForgottenInv
<1>1. k \in Nat /\ k % BucketSize \in Slot
  BY SlotOf, ClockAssumption DEF Time
<1>2. \A q \in Proc : pc[q] = "reset" => slot[q] > k % BucketSize
  OBVIOUS
<1>3. Stored(k) <= since[k]
  BY <1>2 DEF ForgottenInv
<1>b. bucket[p] \in DOMAIN heap /\ buckets[k % BucketSize] \in DOMAIN heap
  BY <1>1 DEF Types
<1>4. /\ \A j \in DOMAIN heap : heap'[j].key = heap[j].key /\ (j # bucket[p] => heap'[j] = heap[j])
      /\ heap'[bucket[p]].value = v
  BY <1>b, SetValue
<1>5. CASE k = epoch[p] /\ buckets[k % BucketSize] = bucket[p]
  <2>1. Stored(k)' = v /\ Stored(k) = heap[bucket[p]].value
    BY <1>4, <1>5, <1>b DEF Stored
  <2> QED
    BY <1>3, <1>5, <2>1
<1>6. CASE ~(k = epoch[p] /\ buckets[k % BucketSize] = bucket[p])
  <2>1. Stored(k)' = Stored(k)
    BY <1>4, <1>6, <1>b DEF Stored
  <2>2. since[k] \in Nat /\ since'[k] \in Nat /\ since[k] <= since'[k]
    <3>1. epoch[p] \in Time /\ arg[p] \in Nat /\ since[epoch[p]] \in Nat /\ since[k] \in Nat
      BY RecordedAt DEF Types
    <3>2. since' \in [Time -> Nat] /\ since'[epoch[p]] >= since[epoch[p]]
      BY <3>1, RecordedAt, MergeType
    <3>3. k # epoch[p] => since'[k] = since[k]
      BY RecordedAt
    <3> QED
      BY <3>1, <3>2, <3>3
  <2>3. Stored(k) \in Nat
    BY <1>b, BucketAt DEF Stored
  <2> QED
    BY <1>3, <2>1, <2>2, <2>3
<1> QED
  BY <1>5, <1>6

LEMMA StepForgotten == NumberInv /\ ForgottenInv /\ [Next]_vars => ForgottenInv'
<1> SUFFICES ASSUME Types, SlotInv, WriterInv, ForgottenInv, [Next]_vars PROVE ForgottenInv'
  BY DEF NumberInv
<1>t. /\ pc \in [Proc -> Location] /\ slot \in [Proc -> Nat] /\ since \in [Time -> Nat]
      /\ \A q \in Proc : arg[q] \in Nat /\ epoch[q] \in Nat /\ bucket[q] \in DOMAIN heap
  BY DEF Types
<1>u. ASSUME UNCHANGED since PROVE since' \in [Time -> Nat] /\ \A k \in Time : since[k] <= since'[k]
  BY <1>t, <1>u
<1>1. ASSUME NEW p \in Proc, Reads(p) PROVE ForgottenInv'
  <2>1. UNCHANGED <<heap, buckets, since>>
    BY <1>1 DEF Reads, Update, LoadBucket, SwapLost, LoadMax, SwapMaxLost, Scan, SkipBucket, TakeBucket,
                TakeValue, Return, ring, history
  <2>2. pc[p] # "reset"
    BY <1>1 DEF Reads, Update, LoadBucket, SwapLost, LoadMax, SwapMaxLost, Scan, SkipBucket, TakeBucket,
                TakeValue, Return, NextSlot, Begin, Goto
  <2>3. \A q \in Proc : pc[q] = "reset" => pc'[q] = "reset" /\ slot'[q] = slot[q]
    BY <1>1, <2>2, Others DEF StepOf, Same
  <2> QED
    BY <1>u, <2>1, <2>3, ForgottenStays
<1>2. ASSUME NEW p \in Proc, SwapBucket(p) PROVE ForgottenInv'
  <2>1. /\ UNCHANGED <<since, slot>> /\ Install(epoch[p] % BucketSize, epoch[p])
        /\ \A q \in Proc : pc'[q] = "reset" <=> pc[q] = "reset"
    BY <1>t, <1>2 DEF SwapBucket, Goto, history
  <2>2. epoch[p] % BucketSize \in Slot /\ epoch[p] \in Nat
    BY <1>t, SlotOf
  <2> QED
    BY <2>1, <2>2, ForgottenInstalled
<1>3. ASSUME NEW p \in Proc, Add(p) PROVE ForgottenInv'
  <2>1. /\ Recorded(p) /\ UNCHANGED <<buckets, slot>>
        /\ \A q \in Proc : pc'[q] = "reset" <=> pc[q] = "reset"
    BY <1>t, <1>3 DEF Add, Goto, local
  <2>2. heap[bucket[p]].key = epoch[p] /\ kind = "sum"
    BY <1>3 DEF Add, Goto, WriterInv, Writer
  <2>3. PICK v \in Nat : v = heap[bucket[p]].value + arg[p]
    BY <1>t, BucketAt
  <2>4. heap' = [heap EXCEPT ![bucket[p]].value = v]
    BY <1>t, <1>3, <2>3 DEF Add
  <2>5. epoch[p] \in Time /\ since'[epoch[p]] = since[epoch[p]] + arg[p]
    BY <2>1, <2>2, RecordedAt DEF Merge
  <2>6. heap[bucket[p]].value <= since[epoch[p]] => v <= since'[epoch[p]]
    BY <1>t, <2>3, <2>5, BucketAt
  <2> QED
    BY <2>1, <2>2, <2>4, <2>6, ForgottenWritten
<1>4. ASSUME NEW p \in Proc, NotGreater(p) PROVE ForgottenInv'
  <2>1. /\ Recorded(p) /\ UNCHANGED <<heap, buckets, slot>>
        /\ \A q \in Proc : pc'[q] = "reset" <=> pc[q] = "reset"
    BY <1>t, <1>4 DEF NotGreater, Goto, local, ring
  <2>2. since' \in [Time -> Nat] /\ \A k \in Time : since[k] <= since'[k]
    <3>1. epoch[p] \in Time /\ arg[p] \in Nat /\ since[epoch[p]] \in Nat
      BY <1>t, <2>1, RecordedAt
    <3>2. since' \in [Time -> Nat] /\ since'[epoch[p]] >= since[epoch[p]]
      BY <2>1, <3>1, RecordedAt, MergeType
    <3>3. \A k \in Time : k # epoch[p] => since'[k] = since[k]
      BY <2>1, RecordedAt
    <3> QED
      BY <1>t, <3>1, <3>2, <3>3
  <2> QED
    BY <2>1, <2>2, ForgottenStays
<1>5. ASSUME NEW p \in Proc, SwapMax(p) PROVE ForgottenInv'
  <2>1. /\ Recorded(p) /\ UNCHANGED <<buckets, slot>>
        /\ \A q \in Proc : pc'[q] = "reset" <=> pc[q] = "reset"
    BY <1>t, <1>5 DEF SwapMax, Goto, local
  <2>2. heap[bucket[p]].key = epoch[p]
    BY <1>5 DEF SwapMax, Goto, WriterInv, Writer
  <2>3. PICK v \in Nat : v = arg[p]
    BY <1>t
  <2>4. heap' = [heap EXCEPT ![bucket[p]].value = v]
    BY <1>5, <2>3 DEF SwapMax
  <2>5. v <= since'[epoch[p]]
    <3>1. epoch[p] \in Time /\ since[epoch[p]] \in Nat
      BY <1>t, <2>1, RecordedAt
    <3> QED
      BY <1>t, <2>1, <2>3, <3>1, RecordedAt, MergeType
  <2> QED
    BY <2>1, <2>2, <2>4, <2>5, ForgottenWritten
<1>6. ASSUME NEW p \in Proc, Reset(p) PROVE ForgottenInv'
  <2>1. pc'[p] = "reset" /\ slot'[p] = 0
    BY <1>6, <1>t DEF Reset, Begin, Goto
  <2>2. \A k \in Time : k % BucketSize \in Nat
    BY SlotOf, SizeType, ClockAssumption, WindowAssumption DEF Time
  <2>3. \A k \in Time : ~(slot'[p] > k % BucketSize)
    BY <2>1, <2>2
  <2> QED
    BY <2>1, <2>3 DEF ForgottenInv
<1>7. ASSUME NEW p \in Proc, ResetSlot(p) PROVE ForgottenInv'
  <2>1. /\ UNCHANGED since /\ Install(slot[p], 0) /\ pc[p] = "reset" /\ slot'[p] = slot[p] + 1
        /\ pc'[p] = "reset" \/ slot[p] + 1 = BucketSize
        /\ \A q \in Proc : q # p => pc'[q] = pc[q] /\ slot'[q] = slot[q]
    BY <1>t, <1>7 DEF ResetSlot, Goto, history
  <2>2. slot[p] \in Slot
    BY <2>1 DEF SlotInv
  <2>3. ASSUME NEW k \in Time, k % BucketSize # slot[p],
               \A q \in Proc : pc'[q] = "reset" => slot'[q] > k % BucketSize
        PROVE  \A q \in Proc : pc[q] = "reset" => slot[q] > k % BucketSize
    <3>1. PICK r \in Slot : r = k % BucketSize
      BY SlotOf, ClockAssumption DEF Time
    <3>2. slot[p] > r
      BY <2>1, <2>2, <2>3, <3>1, SizeType, WindowAssumption
    <3> QED
      BY <2>1, <2>3, <3>1, <3>2
  <2> QED
    BY <2>1, <2>2, <2>3, ForgottenInstalled
<1>8. ASSUME Tick \/ UNCHANGED vars PROVE ForgottenInv'
  <2>1. UNCHANGED <<heap, buckets, since, pc, slot>>
    BY <1>8 DEF Tick, vars, ring, local, history
  <2> QED
    BY <1>u, <2>1, ForgottenStays
<1> QED
  BY <1>1, <1>2, <1>3, <1>4, <1>5, <1>6, <1>7, <1>8, Steps

\* Once no Reset is under way, nothing recorded before the last one began counts, although
\* writers raced with it (rolling.go:107-111).
THEOREM ResetLeavesNothing == Spec => []ResetForgets
<1>1. Init => ForgottenInv
  <2> SUFFICES ASSUME Init, NEW k \in Time PROVE Stored(k) <= since[k]
    BY DEF ForgottenInv
  <2>1. buckets[k % BucketSize] \in 1..BucketSize
    BY SlotOf, SizeType, ClockAssumption, WindowAssumption DEF Init, Time
  <2>2. heap[buckets[k % BucketSize]].value = 0
    BY <2>1 DEF Init
  <2> QED
    BY <2>2 DEF Init, Stored, Zero
<1>2. ForgottenInv => ResetForgets
  BY DEF ForgottenInv, ResetForgets
<1> QED
  BY <1>1, <1>2, NumberKept, StepForgotten, PTL DEF Spec

----------------------------------------------------------------------------
(* The window.                                                             *)

\* A step of p, if it makes a bucket, makes it for a second that is not of the future.
LEMMA StepPast == NumberInv /\ PastInv /\ [Next]_vars => PastInv'
<1> SUFFICES ASSUME Types, SlotInv, WriterInv, PastInv, [Next]_vars PROVE PastInv'
  BY DEF NumberInv
<1>t. /\ clock \in Nat /\ \A q \in Proc : epoch[q] \in Nat /\ epoch[q] <= clock
      /\ \A i \in DOMAIN heap : heap[i].key \in Nat
  BY BucketAt DEF Types, WriterInv, Writer
<1>k. KeysKept
  BY StepKeys
<1>x. ASSUME DOMAIN heap' = DOMAIN heap, UNCHANGED total, clock' \in Nat, clock <= clock' PROVE PastInv'
  <2>1. \A i \in DOMAIN heap' : heap'[i].key <= clock'
    BY <1>t, <1>k, <1>x DEF PastInv, KeysKept
  <2>2. \A k \in Time : k > clock' => total'[k] = 0
    BY <1>t, <1>x, ClockAssumption DEF PastInv, Time
  <2> QED
    BY <2>1, <2>2 DEF PastInv
<1>y. ASSUME NEW s \in Slot, NEW key \in Nat, key <= clock, Install(s, key), UNCHANGED <<total, clock>>
      PROVE  PastInv'
  BY <1>k, <1>t, <1>y, InstallBucket DEF PastInv, KeysKept
<1>1. ASSUME NEW p \in Proc, Reads(p) \/ Reset(p) PROVE PastInv'
  <2>1. UNCHANGED <<heap, total, clock>>
    BY <1>1 DEF Reads, Update, LoadBucket, SwapLost, LoadMax, SwapMaxLost, Scan, SkipBucket, TakeBucket,
                TakeValue, Return, Reset, ring, history
  <2> QED
    BY <1>t, <1>x, <2>1
<1>2. ASSUME NEW p \in Proc, SwapBucket(p) PROVE PastInv'
  <2>1. epoch[p] % BucketSize \in Slot
    BY <1>t, SlotOf
  <2> QED
    BY <1>2, <1>t, <1>y, <2>1 DEF SwapBucket, history
<1>3. ASSUME NEW p \in Proc, ResetSlot(p) PROVE PastInv'
  <2>1. slot[p] \in Slot
    BY <1>3 DEF ResetSlot, Goto, SlotInv
  <2> QED
    BY <1>3, <1>t, <1>y, <2>1 DEF ResetSlot, history
<1>4. ASSUME NEW p \in Proc, Add(p) \/ NotGreater(p) \/ SwapMax(p) PROVE PastInv'
  <2>1. Recorded(p) /\ UNCHANGED clock /\ DOMAIN heap' = DOMAIN heap
    BY <1>4 DEF Add, NotGreater, SwapMax, ring
  <2>2. \A k \in Time : k > clock => k # epoch[p] /\ total'[k] = total[k]
    BY <1>t, <2>1, RecordedAt, ClockAssumption DEF Time
  <2> QED
    BY <1>k, <2>1, <2>2 DEF PastInv, KeysKept
<1>5. ASSUME Tick \/ UNCHANGED vars PROVE PastInv'
  <2>1. UNCHANGED <<heap, total>> /\ clock' \in Nat /\ clock <= clock'
    BY <1>5, <1>t DEF Tick, vars, ring, history
  <2> QED
    BY <1>x, <2>1
<1> QED
  BY <1>1, <1>2, <1>3, <1>4, <1>5, Steps

\* The argument is merged into the value of the bucket that the writer has loaded.
LEMMA Written ==
    ASSUME Types, WriterInv, NEW p \in Proc, Add(p) \/ NotGreater(p) \/ SwapMax(p)
    PROVE  /\ Recorded(p) /\ pc[p] \in {"add", "loadMax", "swapMax"}
           /\ UNCHANGED <<kind, clock, buckets, local, resets, before>>
           /\ bucket[p] \in DOMAIN heap /\ heap[bucket[p]].key = epoch[p]
           /\ DOMAIN heap' = DOMAIN heap
           /\ \A j \in DOMAIN heap : heap'[j].key = heap[j].key /\ (j # bucket[p] => heap'[j] = heap[j])
           /\ heap'[bucket[p]].value = Merge(heap[bucket[p]].value, arg[p])
<1>1. /\ Recorded(p) /\ pc[p] \in {"add", "loadMax", "swapMax"}
      /\ UNCHANGED <<kind, clock, buckets, local, resets, before>>
  BY DEF Add, NotGreater, SwapMax, Goto, Recorded, ring
<1>2. /\ bucket[p] \in DOMAIN heap /\ heap[bucket[p]].key = epoch[p]
      /\ arg[p] \in Nat /\ val[p] \in Nat /\ heap[bucket[p]].value \in Nat
  BY <1>1, BucketAt DEF Types, WriterInv, Writer
<1>3. PICK v \in Nat : v = Merge(heap[bucket[p]].value, arg[p])
  BY <1>2, MergeType
<1>4. CASE NotGreater(p)
  <2>1. UNCHANGED heap /\ arg[p] <= heap[bucket[p]].value /\ pc[p] = "loadMax"
    BY <1>4 DEF NotGreater, ring, Goto
  <2>2. v = heap[bucket[p]].value
    BY <1>2, <1>3, <2>1 DEF Merge, WriterInv, Writer
  <2> QED
    BY <1>1, <1>2, <1>3, <2>1, <2>2
<1>5. ASSUME heap' = [heap EXCEPT ![bucket[p]].value = v]
      PROVE  /\ DOMAIN heap' = DOMAIN heap
             /\ \A j \in DOMAIN heap : heap'[j].key = heap[j].key /\ (j # bucket[p] => heap'[j] = heap[j])
             /\ heap'[bucket[p]].value = v
  BY <1>2, <1>5, SetValue
<1>6. CASE Add(p)
  <2>1. pc[p] = "add" /\ heap' = [heap EXCEPT ![bucket[p]].value = heap[bucket[p]].value + arg[p]]
    BY <1>2, <1>6 DEF Add, Goto
  <2>2. v = heap[bucket[p]].value + arg[p]
    BY <1>3, <2>1 DEF Merge, WriterInv, Writer
  <2> QED
    BY <1>1, <1>2, <1>3, <1>5, <2>1, <2>2
<1>7. CASE SwapMax(p)
  <2>1. /\ pc[p] = "swapMax" /\ heap[bucket[p]].value = val[p]
        /\ heap' = [heap EXCEPT ![bucket[p]].value = arg[p]]
    BY <1>7 DEF SwapMax, Goto
  <2>2. v = arg[p]
    BY <1>2, <1>3, <2>1 DEF Merge, WriterInv, Writer
  <2> QED
    BY <1>1, <1>2, <1>3, <1>5, <2>1, <2>2
<1> QED
  BY <1>4, <1>6, <1>7

LEMMA WriterInWindow ==
    ASSUME Types, WriterInv, HeldInv, NEW p \in Proc, Writing(p)
    PROVE  epoch[p] \in Nat /\ epoch[p] >= clock - Window /\ epoch[p] <= clock
BY LagAssumption, WindowAssumption DEF Types, WriterInv, Writer, HeldInv

\* Nobody takes a bucket out of the ring that a writer records on.
LEMMA SwapsApart ==
    ASSUME Types, WriterInv, HeldInv, NEW p \in Proc, pc[p] = "swap",
           buckets[epoch[p] % BucketSize] = bucket[p],
           NEW k \in Nat, k >= clock - Window, k <= clock, k % BucketSize = epoch[p] % BucketSize
    PROVE  k = epoch[p] /\ heap[buckets[k % BucketSize]].key # k
<1>1. epoch[p] \in Nat /\ epoch[p] >= clock - Window /\ epoch[p] <= clock /\ clock \in Nat
  BY WriterInWindow DEF Writing, Types
<1>2. \A a, b \in Nat : a <= clock /\ b >= clock - Window => a - b < BucketSize
  BY <1>1, SizeType, WindowAssumption
<1>3. k = epoch[p]
  BY <1>1, <1>2, SlotApart
<1> QED
  BY <1>3 DEF WriterInv, Writer

LEMMA StepHeld == NumberInv /\ HeldInv /\ [Next]_vars => HeldInv'
<1> SUFFICES ASSUME Types, SlotInv, WriterInv, HeldInv, [Next]_vars PROVE HeldInv'
  BY DEF NumberInv
<1> DEFINE Recording(q) == pc[q] \in {"add", "loadMax", "swapMax"}
           Lag(q) == Writing(q) => clock - epoch[q] <= MaxLag
           Counted(q) == pc[q] = "reset" => resets > 0
           Held(q) == resets = 0 /\ Recording(q) => bucket[q] = buckets[epoch[q] % BucketSize]
<1>h. \A q \in Proc : Lag(q) /\ Counted(q) /\ Held(q)
  BY DEF HeldInv
<1>g. ASSUME \A q \in Proc : (Lag(q) /\ Counted(q) /\ Held(q))' PROVE HeldInv'
  BY <1>g DEF HeldInv
<1>t. /\ clock \in Nat /\ resets \in Nat /\ MaxLag \in Nat
      /\ pc \in [Proc -> Location] /\ epoch \in [Proc -> Nat] /\ bucket \in [Proc -> Nat]
  BY LagAssumption, WindowAssumption DEF Types
<1>1. ASSUME NEW p \in Proc, StepOf(p) PROVE HeldInv'
  <2>1. UNCHANGED clock /\ \A q \in Proc : q # p => Same(q)
    BY <1>1, Others
  <2>2. resets' \in Nat /\ resets <= resets'
    BY <1>1, <1>t DEF StepOf, Reads, Update, LoadBucket, SwapLost, LoadMax, SwapMaxLost, Scan, SkipBucket,
                      TakeBucket, TakeValue, Return, SwapBucket, Add, NotGreater, SwapMax, Reset, ResetSlot
  <2>3. ASSUME NEW q \in Proc, q # p PROVE (Lag(q) /\ Counted(q))'
    BY <1>h, <1>t, <2>1, <2>2, <2>3 DEF Same, Writing
  <2>4. ASSUME NEW q \in Proc, q # p, resets' = 0, Recording(q)' PROVE bucket'[q] = buckets'[epoch[q] % BucketSize]
    <3>1. resets = 0 /\ Recording(q) /\ bucket[q] = buckets[epoch[q] % BucketSize] /\ bucket'[q] = bucket[q]
      BY <1>h, <1>t, <2>1, <2>2, <2>4 DEF Same
    <3>2. epoch[q] \in Nat /\ epoch[q] % BucketSize \in Slot
      BY <1>t, SlotOf
    <3>3. CASE SwapBucket(p)
      <4>1. pc[p] = "swap" /\ buckets[epoch[p] % BucketSize] = bucket[p] /\ Install(epoch[p] % BucketSize, epoch[p])
        BY <3>3 DEF SwapBucket, Goto
      <4>2. epoch[q] >= clock - Window /\ epoch[q] <= clock /\ heap[bucket[q]].key = epoch[q]
        BY <3>1, WriterInWindow DEF Writing, WriterInv, Writer
      <4>3. epoch[q] % BucketSize # epoch[p] % BucketSize
        BY <3>1, <3>2, <4>1, <4>2, SwapsApart
      <4>4. epoch[p] \in Nat /\ epoch[p] % BucketSize \in Slot
        BY <1>t, SlotOf
      <4> QED
        BY <3>1, <3>2, <4>1, <4>3, <4>4, InstallBucket
    <3>4. CASE Reset(p) \/ ResetSlot(p)
      BY <1>h, <1>t, <2>2, <2>4, <3>1, <3>4 DEF Reset, ResetSlot, Goto
    <3>5. CASE ~(SwapBucket(p) \/ Reset(p) \/ ResetSlot(p))
      <4>1. UNCHANGED buckets
        BY <1>1, <3>5 DEF StepOf, Reads, Update, LoadBucket, SwapLost, LoadMax, SwapMaxLost, Scan, SkipBucket,
                      TakeBucket, TakeValue, Return, Add, NotGreater, SwapMax, ring
      <4> QED
        BY <3>1, <4>1
    <3> QED
      BY <3>3, <3>4, <3>5
  <2>5. \A q \in Proc : q # p => Held(q)'
    BY <2>1, <2>4 DEF Same
  <2>6. (Lag(p) /\ Counted(p) /\ Held(p))'
    <3>1. CASE Update(p)
      BY <1>t, <2>1, <3>1 DEF Update, Begin, Goto, Writing
    <3>2. CASE LoadBucket(p)
      BY <1>t, <1>h, <2>1, <3>2 DEF LoadBucket, Goto, Writing, ring
    <3>3. CASE SwapLost(p)
      BY <1>t, <1>h, <2>1, <3>3 DEF SwapLost, Goto, Writing, local
    <3>4. CASE LoadMax(p) \/ SwapMaxLost(p)
      BY <1>t, <1>h, <2>1, <3>4 DEF LoadMax, SwapMaxLost, Goto, Writing, local, ring
    <3>5. CASE Scan(p) \/ SkipBucket(p) \/ TakeBucket(p) \/ TakeValue(p) \/ Return(p)
      <4>1. pc'[p] \in {"scan", "value", "scanned", "idle"}
        BY <1>t, <3>5 DEF Scan, SkipBucket, TakeBucket, TakeValue, Return, NextSlot, Begin, Goto
      <4> QED
        BY <4>1 DEF Writing
    <3>6. CASE Add(p) \/ NotGreater(p) \/ SwapMax(p)
      <4>1. pc'[p] = "idle"
        BY <1>t, <3>6 DEF Add, NotGreater, SwapMax, Goto
      <4> QED
        BY <4>1 DEF Writing
    <3>7. CASE SwapBucket(p)
      <4>1. /\ pc[p] = "swap" /\ pc'[p] \in {"add", "loadMax"} /\ UNCHANGED epoch
            /\ Install(epoch[p] % BucketSize, epoch[p]) /\ bucket'[p] = Len(heap) + 1
        BY <1>t, <3>7 DEF SwapBucket, Goto
      <4>2. epoch[p] \in Nat /\ epoch[p] % BucketSize \in Slot
        BY <1>t, SlotOf
      <4>3. buckets'[epoch[p] % BucketSize] = Len(heap) + 1
        BY <4>1, <4>2, InstallBucket
      <4> QED
        BY <1>h, <2>1, <4>1, <4>3 DEF Writing
    <3>8. CASE Reset(p) \/ ResetSlot(p)
      <4>1. pc'[p] \in {"reset", "idle"} /\ resets' > 0
        BY <1>t, <1>h, <3>8 DEF Reset, ResetSlot, Begin, Goto
      <4> QED
        BY <4>1 DEF Writing
    <3> QED
      BY <1>1, <3>1, <3>2, <3>3, <3>4, <3>5, <3>6, <3>7, <3>8 DEF StepOf, Reads
  <2> HIDE DEF Lag, Counted, Held
  <2>7. \A q \in Proc : (Lag(q) /\ Counted(q) /\ Held(q))'
    BY <2>3, <2>5, <2>6
  <2> QED
    BY <1>g, <2>7
<1>2. ASSUME Tick PROVE HeldInv'
  <2>1. /\ UNCHANGED <<buckets, bucket, epoch, pc, resets>> /\ clock' = clock + 1
        /\ \A q \in Proc : Writing(q) => clock + 1 - epoch[q] <= MaxLag
    BY <1>2 DEF Tick, ring, local
  <2>2. ASSUME NEW q \in Proc PROVE Lag(q)'
    BY <1>t, <2>1 DEF Writing
  <2>3. ASSUME NEW q \in Proc PROVE (Counted(q) /\ Held(q))'
    BY <1>h, <2>1
  <2> QED
    BY <1>g, <2>2, <2>3
<1>3. ASSUME UNCHANGED vars PROVE HeldInv'
  BY <1>3, <1>h, <1>g DEF vars, ring, local, Writing
<1> QED
  BY <1>1, <1>2, <1>3, Steps DEF StepOf

\* What a writer records on the bucket of its second is what the ring holds for that second.
LEMMA WrittenExact ==
    ASSUME Types, WriterInv, HeldInv, WindowExact, resets = 0,
           NEW p \in Proc, pc[p] \in {"add", "loadMax", "swapMax"}, Recorded(p), UNCHANGED <<buckets, clock>>,
           \A j \in DOMAIN heap : heap'[j].key = heap[j].key /\ (j # bucket[p] => heap'[j] = heap[j]),
           heap'[bucket[p]].value = Merge(heap[bucket[p]].value, arg[p]),
           NEW k \in Nat, k >= clock - Window, k <= clock
    PROVE  Stored(k)' = total'[k]
<1>t. clock \in Nat /\ clock <= MaxClock
  BY DEF Types
<1>1. k \in Time /\ k % BucketSize \in Slot /\ k \in (clock - Window)..clock
  <2>1. k \in Time
    BY <1>t, ClockAssumption DEF Time
  <2>2. k \in (clock - Window)..clock
    BY <1>t, WindowAssumption
  <2> QED
    BY <2>1, <2>2, SlotOf
<1>2. Stored(k) = total[k]
  BY <1>1 DEF WindowExact
<1>b. bucket[p] \in DOMAIN heap /\ buckets[k % BucketSize] \in DOMAIN heap
  BY <1>1 DEF Types
<1>3. heap[bucket[p]].key = epoch[p] /\ bucket[p] = buckets[epoch[p] % BucketSize]
  BY DEF WriterInv, Writer, HeldInv
<1>4. CASE k = epoch[p]
  <2>1. Stored(k)' = Merge(heap[bucket[p]].value, arg[p]) /\ Stored(k) = heap[bucket[p]].value
    BY <1>3, <1>4, <1>b DEF Stored
  <2> QED
    BY <1>2, <1>4, <2>1, RecordedAt
<1>5. CASE k # epoch[p]
  <2>1. Stored(k)' = Stored(k)
    BY <1>3, <1>5, <1>b DEF Stored
  <2> QED
    BY <1>1, <1>2, <1>5, <2>1, RecordedAt
<1> QED
  BY <1>4, <1>5

LEMMA StepExact == NumberInv /\ PastInv /\ HeldInv /\ WindowExact /\ [Next]_vars => WindowExact'
<1> SUFFICES ASSUME Types, SlotInv, WriterInv, PastInv, HeldInv, WindowExact, [Next]_vars, resets' = 0,
                    NEW k \in (clock' - Window)..clock'
             PROVE  Stored(k)' = total'[k]
  BY DEF WindowExact, NumberInv
<1>t. clock \in Nat /\ Start <= clock /\ resets \in Nat /\ clock' \in Nat /\ clock <= clock'
  <2>1. clock \in Nat /\ Start <= clock /\ resets \in Nat
    BY DEF Types
  <2> QED
    BY <2>1, Steps, Others, StillSame DEF StepOf
<1>k. k \in Nat /\ k >= clock - Window /\ k <= clock' /\ k % BucketSize \in Slot
  <2>w. Window \in Nat /\ Start \in Nat /\ Start > Window
    BY WindowAssumption, StartAssumption
  <2>1. PICK c \in Nat : c = clock'
    BY <1>t
  <2>2. k \in (c - Window)..c /\ clock <= c
    BY <1>t, <2>1
  <2>3. k \in Int /\ k >= c - Window /\ k <= c
    BY <2>w, <2>2
  <2> QED
    <3>1. k \in Nat /\ k >= clock - Window /\ k <= c
      BY <1>t, <2>w, <2>2, <2>3
    <3> QED
      BY <2>1, <3>1, SlotOf
<1>b. buckets[k % BucketSize] \in DOMAIN heap
  BY <1>k DEF Types
<1>x. ASSUME UNCHANGED <<heap, buckets, total, resets>>, k <= clock PROVE Stored(k)' = total'[k]
  <2>1. k \in (clock - Window)..clock
    BY <1>t, <1>k, <1>x, WindowAssumption
  <2>2. Stored(k) = total[k]
    BY <1>x, <2>1 DEF WindowExact
  <2> QED
    BY <1>x, <2>2 DEF Stored
<1>1. ASSUME NEW p \in Proc, Reads(p) PROVE Stored(k)' = total'[k]
  <2>1. UNCHANGED <<heap, buckets, total, resets, clock>>
    BY <1>1 DEF Reads, Update, LoadBucket, SwapLost, LoadMax, SwapMaxLost, Scan, SkipBucket, TakeBucket,
                TakeValue, Return, ring, history
  <2> QED
    BY <1>k, <1>x, <2>1
<1>2. ASSUME NEW p \in Proc, SwapBucket(p) PROVE Stored(k)' = total'[k]
  <2>1. /\ UNCHANGED <<clock, total, resets>> /\ pc[p] = "swap" /\ buckets[epoch[p] % BucketSize] = bucket[p]
        /\ Install(epoch[p] % BucketSize, epoch[p])
    BY <1>2 DEF SwapBucket, Goto, history
  <2>2. epoch[p] \in Nat /\ epoch[p] % BucketSize \in Slot
    BY SlotOf DEF Types
  <2>3. Stored(k) = total[k]
    <3>1. k \in (clock - Window)..clock
      BY <1>t, <1>k, <2>1, WindowAssumption
    <3> QED
      BY <2>1, <3>1 DEF WindowExact
  <2>n. PICK n : n = Len(heap) + 1
    OBVIOUS
  <2>4. /\ \A i \in DOMAIN heap : heap'[i] = heap[i]
        /\ heap'[n].value = 0 /\ buckets'[epoch[p] % BucketSize] = n
        /\ \A r \in Slot : r # epoch[p] % BucketSize => buckets'[r] = buckets[r]
    BY <2>n, <2>1, <2>2, InstallBucket
  <2>5. CASE k % BucketSize = epoch[p] % BucketSize
    <3>1. heap[buckets[k % BucketSize]].key # k
      BY <1>k, <2>1, <2>5, SwapsApart
    <3>2. Stored(k) = 0
      BY <3>1 DEF Stored
    <3>3. Stored(k)' = 0
      BY <2>4, <2>5 DEF Stored
    <3> QED
      BY <2>1, <2>3, <3>2, <3>3
  <2>6. CASE k % BucketSize # epoch[p] % BucketSize
    <3>1. Stored(k)' = Stored(k)
      BY <1>k, <1>b, <2>4, <2>6 DEF Stored
    <3> QED
      BY <2>1, <2>3, <3>1
  <2> QED
    BY <2>5, <2>6
<1>3. ASSUME NEW p \in Proc, Add(p) \/ NotGreater(p) \/ SwapMax(p) PROVE Stored(k)' = total'[k]
  <2>1. UNCHANGED <<buckets, clock, resets>>
    BY <1>3, Written
  <2> QED
    BY <1>3, <1>k, <2>1, Written, WrittenExact
<1>4. ASSUME NEW p \in Proc, Reset(p) \/ ResetSlot(p) PROVE FALSE
  BY <1>4, <1>t DEF Reset, ResetSlot, Goto, HeldInv
<1>5. ASSUME Tick PROVE Stored(k)' = total'[k]
  <2>1. UNCHANGED <<heap, buckets, total, resets>> /\ clock' = clock + 1 /\ clock' <= MaxClock
    BY <1>5, <1>t, ClockAssumption DEF Tick, ring, history
  <2>2. CASE k = clock + 1
    <3>1. heap[buckets[k % BucketSize]].key <= clock /\ heap[buckets[k % BucketSize]].key \in Nat
      BY <1>b, BucketAt DEF PastInv
    <3>2. Stored(k)' = 0
      BY <1>t, <2>1, <2>2, <3>1 DEF Stored
    <3>3. total[k] = 0
      BY <1>k, <1>t, <2>1, <2>2, ClockAssumption DEF PastInv, Time
    <3> QED
      BY <2>1, <3>2, <3>3
  <2>3. CASE k # clock + 1
    BY <1>t, <1>k, <1>x, <2>1, <2>3
  <2> QED
    BY <2>2, <2>3
<1>6. ASSUME UNCHANGED vars PROVE Stored(k)' = total'[k]
  BY <1>6, <1>k, <1>x DEF vars, ring, history
<1> QED
  BY <1>1, <1>2, <1>3, <1>4, <1>5, <1>6, Steps

LEMMA InitWindow == Init => PastInv /\ HeldInv /\ WindowExact
<1> SUFFICES ASSUME Init PROVE PastInv /\ HeldInv /\ WindowExact
  OBVIOUS
<1>1. PastInv
  BY StartAssumption DEF Init, PastInv, Zero
<1>2. HeldInv
  BY DEF Init, HeldInv, Writing
<1>3. ASSUME NEW k \in (clock - Window)..clock PROVE Stored(k) = total[k]
  <2>1. k \in Time /\ k \in Nat
    BY <1>3, StartAssumption, ClockAssumption, WindowAssumption DEF Init, Time
  <2>2. buckets[k % BucketSize] \in 1..BucketSize
    BY <2>1, SlotOf, SizeType, WindowAssumption DEF Init
  <2>3. heap[buckets[k % BucketSize]].value = 0
    BY <2>2 DEF Init
  <2> QED
    BY <2>1, <2>3 DEF Init, Stored, Zero
<1> QED
  BY <1>1, <1>2, <1>3 DEF WindowExact

\* Before the first Reset, and if no writer is stalled for longer than the window, the ring holds
\* for every second of the window exactly what was recorded for it (rolling.go:32-60, :113-123).
THEOREM NothingLost == Spec => []WindowExact
BY InitWindow, NumberKept, StepPast, StepHeld, StepExact, PTL DEF Spec

----------------------------------------------------------------------------
(* Sum and Max.                                                            *)

\* What MergeAll folds with, and what it computes.
Op == IF kind = "sum" THEN Plus ELSE Larger
Merged(f, S) == Fold(Op, f, S)

\* A bucket holds no more than was recorded for its second, and is in the slot of that second.
ValueInv ==
    /\ \A i \in DOMAIN heap : heap[i].value <= total[heap[i].key]
    /\ \A s \in Slot : heap[buckets[s]].key = 0 \/ heap[buckets[s]].key % BucketSize = s

\* The seconds of S whose slots the loop has passed when it is at slot s.
Passed(S, s) == {k \in S : k % BucketSize < s}

Scanning(p) == pc[p] \in {"scan", "value", "scanned"}

\* The seconds from the oldest that p counts on, and the window now.
Counts(p) == (epoch[p] - Window)..clock
Now == (clock - Window)..clock

\* The loop has no more than was recorded for the slots it has passed.
Upper(p) ==
    /\ epoch[p] >= Start
    /\ slot[p] <= BucketSize /\ (pc[p] = "scanned" => slot[p] = BucketSize)
    /\ val[p] <= Merged(total, Passed(Counts(p), slot[p]))
    /\ pc[p] = "value" => /\ heap[bucket[p]].key >= epoch[p] - Window
                          /\ heap[bucket[p]].key % BucketSize = slot[p]
UpperInv == \A p \in Proc : Scanning(p) => Upper(p)

\* The loop has no less than had been recorded, when it began, for the slots it has passed; the
\* bucket whose value it will take next holds no less either.
Lower(p) ==
    /\ val[p] >= Merged(before[p], Passed(Now, slot[p]))
    /\ pc[p] = "value" => \A k \in Now : k % BucketSize = slot[p] => before[p][k] <= heap[bucket[p]].value
BeforeInv ==
    /\ before \in [Proc -> [Time -> Nat]]
    /\ \A p \in Proc, k \in Time : before[p][k] <= total[k]
LowerInv == resets = 0 => \A p \in Proc : Scanning(p) => Lower(p)

LEMMA OpFolds ==
    ASSUME Types
    PROVE  /\ Op \in [Nat -> [Nat -> Nat]] /\ Commutes(Op) /\ Monotone(Op)
           /\ \A a, b \in Nat : Op[a][b] = Merge(a, b)
           /\ \A b \in Nat : Op[0][b] = b
<1>1. CASE kind = "sum"
  <2>1. Op = Plus
    BY <1>1 DEF Op
  <2>2. \A a, b \in Nat : Op[a][b] = a + b
    BY <2>1 DEF Plus
  <2> QED
    <3>1. \A b \in Nat : Op[0][b] = b
      BY <2>2
    <3>2. \A a, b \in Nat : Op[a][b] = Merge(a, b)
      BY <1>1, <2>2 DEF Merge
    <3> QED
      BY <2>1, <3>1, <3>2, PlusFolds
<1>2. CASE kind = "max"
  <2>1. Op = Larger
    BY <1>2 DEF Op
  <2>2. \A a, b \in Nat : Op[a][b] = IF a > b THEN a ELSE b
    BY <2>1 DEF Larger
  <2> QED
    <3>1. \A b \in Nat : Op[0][b] = b
      BY <2>2
    <3>2. \A a, b \in Nat : Op[a][b] = Merge(a, b)
      BY <1>2, <2>2 DEF Merge
    <3> QED
      BY <2>1, <3>1, <3>2, LargerFolds
<1> QED
  BY <1>1, <1>2 DEF Types

LEMMA MergeIsFold ==
    ASSUME Types, NEW S, IsFiniteSet(S), NEW f, \A x \in S : f[x] \in Nat
    PROVE  MergeAll(f, S) = Merged(f, S)
<1> DEFINE Solves(g) == g = [s \in SUBSET S |-> IF s = {} THEN 0 ELSE Merge(f[Pick(s)], g[s \ {Pick(s)}])]
           iter == CHOOSE g : Solves(g)
<1>1. MergeAll(f, S) = iter[S]
  BY DEF MergeAll, MapThenFoldSet, Pick
<1>2. Folding(Op, f, S)
  BY OpFolds DEF Folding
<1>3. PICK g \in [SUBSET S -> Nat] : IsFold(g, Op, f, S) /\ \A T \in SUBSET S : g[T] = Merged(f, T)
  BY <1>2, FoldAt DEF Merged
<1>4. Solves(g)
  <2>1. ASSUME NEW s \in SUBSET S
        PROVE  g[s] = IF s = {} THEN 0 ELSE Merge(f[Pick(s)], g[s \ {Pick(s)}])
    <3>1. s # {} => f[Pick(s)] \in Nat /\ g[s \ {Pick(s)}] \in Nat
      BY <1>3, Picked
    <3>2. g[s] = IF s = {} THEN 0 ELSE Op[f[Pick(s)]][g[s \ {Pick(s)}]]
      BY <1>3 DEF IsFold
    <3> QED
      BY <3>1, <3>2, OpFolds
  <2> QED
    BY <1>3, <2>1
<1>5. Solves(iter)
  BY <1>4
<1> HIDE DEF iter
<1> DEFINE Good == {T \in SUBSET S : iter[T] = g[T]}
<1>6. ASSUME NEW T \in SUBSET S, \A U \in SUBSET T : U # T => U \in Good PROVE T \in Good
  <2>1. iter[T] = IF T = {} THEN 0 ELSE Merge(f[Pick(T)], iter[T \ {Pick(T)}])
    BY <1>5
  <2>2. g[T] = IF T = {} THEN 0 ELSE Merge(f[Pick(T)], g[T \ {Pick(T)}])
    BY <1>4
  <2>3. T # {} => iter[T \ {Pick(T)}] = g[T \ {Pick(T)}]
    BY <1>6, Picked
  <2> QED
    BY <2>1, <2>2, <2>3
<1> HIDE DEF Good
<1>7. \A T \in SUBSET S : T \in Good
  BY <1>6, SubsetInduction
<1>8. S \in SUBSET S /\ S \in Good
  BY <1>7
<1> QED
  BY <1>1, <1>3, <1>8 DEF Good

\* The seconds that a loop has passed are finitely many.
LEMMA PassedFinite ==
    ASSUME NEW a \in Int, NEW b \in Int, NEW s
    PROVE  IsFiniteSet(a..b) /\ Passed(a..b, s) \subseteq a..b /\ IsFiniteSet(Passed(a..b, s))
<1>1. IsFiniteSet(a..b)
  BY FS_Interval
<1>2. Passed(a..b, s) \subseteq a..b
  BY DEF Passed
<1> QED
  BY <1>1, <1>2, FS_Subset

----------------------------------------------------------------------------
(* What a step does to the buckets.                                        *)

\* Values and recorded amounts only grow.
Grown ==
    /\ total' \in [Time -> Nat] /\ \A k \in Time : total[k] <= total'[k]
    /\ \A i \in DOMAIN heap : i \in DOMAIN heap' /\ heap[i].value <= heap'[i].value

LEMMA StepGrows == ASSUME Types, SlotInv, WriterInv, [Next]_vars PROVE Grown
<1>t. /\ total \in [Time -> Nat] /\ \A i \in DOMAIN heap : heap[i].value \in Nat
      /\ \A q \in Proc : arg[q] \in Nat
  BY BucketAt DEF Types
<1>x. ASSUME UNCHANGED <<heap, total>> PROVE Grown
  BY <1>t, <1>x DEF Grown
<1>y. ASSUME NEW s \in Slot, NEW key \in Nat, Install(s, key), UNCHANGED total PROVE Grown
  BY <1>t, <1>y, InstallBucket DEF Grown
<1>1. ASSUME NEW p \in Proc, Reads(p) \/ Reset(p) PROVE UNCHANGED <<heap, total>>
  BY <1>1 DEF Reads, Update, LoadBucket, SwapLost, LoadMax, SwapMaxLost, Scan, SkipBucket, TakeBucket,
              TakeValue, Return, Reset, ring, history
<1>2. ASSUME NEW p \in Proc, SwapBucket(p) PROVE Grown
  <2>1. epoch[p] \in Nat /\ epoch[p] % BucketSize \in Slot
    BY SlotOf DEF Types
  <2> QED
    BY <1>2, <1>y, <2>1 DEF SwapBucket, history
<1>3. ASSUME NEW p \in Proc, ResetSlot(p) PROVE Grown
  <2>1. slot[p] \in Slot
    BY <1>3 DEF ResetSlot, Goto, SlotInv
  <2> QED
    BY <1>3, <1>y, <2>1 DEF ResetSlot, history
<1>4. ASSUME NEW p \in Proc, Add(p) \/ NotGreater(p) \/ SwapMax(p) PROVE Grown
  <2>1. /\ Recorded(p) /\ bucket[p] \in DOMAIN heap /\ DOMAIN heap' = DOMAIN heap
        /\ \A j \in DOMAIN heap : j # bucket[p] => heap'[j] = heap[j]
        /\ heap'[bucket[p]].value = Merge(heap[bucket[p]].value, arg[p])
    BY <1>4, Written
  <2>2. \A i \in DOMAIN heap : heap[i].value <= heap'[i].value
    BY <1>t, <2>1, MergeType
  <2>3. total' \in [Time -> Nat] /\ \A k \in Time : total[k] <= total'[k]
    <3>1. total' \in [Time -> Nat] /\ \A k \in Time : k # epoch[p] => total'[k] = total[k]
      BY <2>1, RecordedAt
    <3>2. epoch[p] \in Time /\ total'[epoch[p]] = Merge(total[epoch[p]], arg[p])
      BY <2>1, RecordedAt
    <3>3. total[epoch[p]] <= total'[epoch[p]]
      BY <1>t, <3>2, MergeType
    <3> QED
      BY <1>t, <3>1, <3>3
  <2> QED
    BY <2>1, <2>2, <2>3 DEF Grown
<1>5. ASSUME Tick \/ UNCHANGED vars PROVE UNCHANGED <<heap, total>>
  BY <1>5 DEF Tick, vars, ring, history
<1> QED
  BY <1>x, <1>1, <1>2, <1>3, <1>4, <1>5, Steps

LEMMA StepValues == NumberInv /\ PastInv /\ ValueInv /\ [Next]_vars => ValueInv'
<1> SUFFICES ASSUME Types, SlotInv, WriterInv, PastInv, ValueInv, [Next]_vars PROVE ValueInv'
  BY DEF NumberInv
<1>g. Grown /\ KeysKept
  BY StepGrows, StepKeys
<1>t. /\ total \in [Time -> Nat] /\ total' \in [Time -> Nat]
      /\ \A i \in DOMAIN heap : heap[i].value \in Nat /\ heap[i].key \in Time
      /\ \A q \in Proc : arg[q] \in Nat
      /\ \A s \in Slot : buckets[s] \in DOMAIN heap
  <2>1. ASSUME NEW i \in DOMAIN heap PROVE heap[i].value \in Nat /\ heap[i].key \in Time
    <3>1. heap[i].value \in Nat /\ heap[i].key \in Nat /\ heap[i].key <= clock
      BY BucketAt DEF PastInv
    <3>2. clock \in Nat /\ clock <= MaxClock /\ MaxClock \in Nat
      BY ClockAssumption DEF Types
    <3> QED
      BY <3>1, <3>2 DEF Time
  <2> QED
    BY <1>g, <2>1 DEF Types, Grown
<1>v. ASSUME NEW i \in DOMAIN heap, heap'[i].value = heap[i].value PROVE heap'[i].value <= total'[heap'[i].key]
  BY <1>g, <1>t, <1>v DEF ValueInv, Grown, KeysKept
<1>x. ASSUME UNCHANGED <<heap, buckets>> PROVE ValueInv'
  <2>1. \A i \in DOMAIN heap' : heap'[i].value <= total'[heap'[i].key]
    BY <1>v, <1>x
  <2> QED
    BY <1>x, <2>1 DEF ValueInv
<1>y. ASSUME NEW s \in Slot, NEW key \in Time, key = 0 \/ key % BucketSize = s, Install(s, key), UNCHANGED total
      PROVE  ValueInv'
  <2>n. PICK n : n = Len(heap) + 1
    OBVIOUS
  <2>k. key \in Nat
    BY ClockAssumption DEF Time
  <2>1. /\ DOMAIN heap' = DOMAIN heap \cup {n} /\ n \notin DOMAIN heap
        /\ \A i \in DOMAIN heap : heap'[i] = heap[i]
        /\ heap'[n].key = key /\ heap'[n].value = 0 /\ buckets'[s] = n
        /\ \A r \in Slot : r # s => buckets'[r] = buckets[r]
    BY <1>y, <2>n, <2>k, InstallBucket
  <2>2. \A i \in DOMAIN heap' : heap'[i].value <= total'[heap'[i].key]
    <3>1. heap'[n].value <= total'[heap'[n].key]
      BY <1>t, <2>1
    <3> QED
      BY <1>v, <2>1, <3>1
  <2>3. ASSUME NEW r \in Slot PROVE heap'[buckets'[r]].key = 0 \/ heap'[buckets'[r]].key % BucketSize = r
    BY <1>t, <1>y, <2>1 DEF ValueInv
  <2> QED
    BY <2>2, <2>3 DEF ValueInv
<1>1. ASSUME NEW p \in Proc, Reads(p) \/ Reset(p) PROVE UNCHANGED <<heap, buckets>>
  BY <1>1 DEF Reads, Update, LoadBucket, SwapLost, LoadMax, SwapMaxLost, Scan, SkipBucket, TakeBucket,
              TakeValue, Return, Reset, ring, history
<1>2. ASSUME NEW p \in Proc, SwapBucket(p) PROVE ValueInv'
  <2>1. epoch[p] \in Time /\ epoch[p] % BucketSize \in Slot
    BY SlotOf, ClockAssumption DEF Types, WriterInv, Writer, Time
  <2> QED
    BY <1>2, <1>y, <2>1 DEF SwapBucket, history
<1>3. ASSUME NEW p \in Proc, ResetSlot(p) PROVE ValueInv'
  <2>1. slot[p] \in Slot /\ 0 \in Time
    BY <1>3, ClockAssumption DEF ResetSlot, Goto, SlotInv, Time
  <2> QED
    BY <1>3, <1>y, <2>1 DEF ResetSlot, history
<1>4. ASSUME NEW p \in Proc, Add(p) \/ NotGreater(p) \/ SwapMax(p) PROVE ValueInv'
  <2>1. /\ Recorded(p) /\ bucket[p] \in DOMAIN heap /\ DOMAIN heap' = DOMAIN heap /\ UNCHANGED buckets
        /\ heap[bucket[p]].key = epoch[p]
        /\ \A j \in DOMAIN heap : heap'[j].key = heap[j].key /\ (j # bucket[p] => heap'[j] = heap[j])
        /\ heap'[bucket[p]].value = Merge(heap[bucket[p]].value, arg[p])
    BY <1>4, Written
  <2>2. epoch[p] \in Time /\ total'[epoch[p]] = Merge(total[epoch[p]], arg[p])
    BY <2>1, RecordedAt
  <2>3. heap[bucket[p]].value <= total[epoch[p]]
    BY <2>1 DEF ValueInv
  <2>4. \A a, b, c \in Nat : a <= b => Merge(a, c) <= Merge(b, c)
    BY DEF Merge
  <2>5. heap'[bucket[p]].value <= total'[epoch[p]]
    BY <1>t, <2>1, <2>2, <2>3, <2>4
  <2>6. \A i \in DOMAIN heap' : heap'[i].value <= total'[heap'[i].key]
    BY <1>v, <2>1, <2>5
  <2>7. \A s \in Slot : heap'[buckets'[s]].key = heap[buckets[s]].key
    BY <1>t, <2>1
  <2> QED
    BY <2>6, <2>7 DEF ValueInv
<1>5. ASSUME Tick \/ UNCHANGED vars PROVE UNCHANGED <<heap, buckets>>
  BY <1>5 DEF Tick, vars, ring
<1> QED
  BY <1>x, <1>1, <1>2, <1>3, <1>4, <1>5, Steps

----------------------------------------------------------------------------
(* One turn of the loop.                                                   *)

LEMMA PassedNone == ASSUME NEW S \in SUBSET Nat PROVE Passed(S, 0) = {}
<1>1. ASSUME NEW k \in Nat PROVE ~(k % BucketSize < 0)
  BY SlotOf DEF Slot
<1> QED
  BY <1>1 DEF Passed

LEMMA PassedAll == ASSUME NEW S \in SUBSET Nat PROVE Passed(S, BucketSize) = S
<1>1. ASSUME NEW k \in Nat PROVE k % BucketSize < BucketSize
  BY SlotOf, SizeType, WindowAssumption
<1> QED
  BY <1>1 DEF Passed

LEMMA PassedOne ==
    ASSUME NEW S \in SUBSET Nat, NEW s \in Slot
    PROVE  Passed(S, s + 1) = Passed(S, s) \cup {k \in S : k % BucketSize = s}
<1>1. ASSUME NEW k \in Nat PROVE k % BucketSize < s + 1 <=> k % BucketSize < s \/ k % BucketSize = s
  <2>1. k % BucketSize \in Int /\ s \in Int
    BY SlotOf, SizeType, WindowAssumption
  <2> QED
    BY <2>1
<1> QED
  BY <1>1 DEF Passed

\* An operation that MergeAll can fold with.
Operation(op) ==
    op \in [Nat -> [Nat -> Nat]] /\ Commutes(op) /\ Monotone(op) /\ \A b \in Nat : op[0][b] = b

\* At most one second of a window is in the slot: what is taken for it is no less than what f has.
LEMMA SlotLower ==
    ASSUME NEW op, Operation(op), NEW a \in Nat, NEW b \in Nat, b - a < BucketSize, NEW s \in Slot,
           NEW f, \A k \in a..b : f[k] \in Nat,
           NEW n \in Nat, Fold(op, f, Passed(a..b, s)) <= n,
           NEW v \in Nat, \A k \in a..b : k % BucketSize = s => f[k] <= v
    PROVE  Fold(op, f, Passed(a..b, s + 1)) <= op[v][n]
<1>s. a..b \in SUBSET Nat /\ s \in Nat
  BY SizeType, WindowAssumption
<1> DEFINE S == Passed(a..b, s)
           T == Passed(a..b, s + 1)
           K == {k \in a..b : k % BucketSize = s}
<1>1. T = S \cup K
  BY <1>s, PassedOne
<1>2. IsFiniteSet(S) /\ S \subseteq a..b /\ IsFiniteSet(T) /\ T \subseteq a..b
  BY PassedFinite
<1>3. Folding(op, f, S) /\ Folding(op, f, T) /\ Commutes(op) /\ Monotone(op) /\ op \in [Nat -> [Nat -> Nat]]
  BY <1>2 DEF Folding, Operation
<1>4. Fold(op, f, S) \in Nat
  BY <1>3, FoldType
<1>5. CASE K = {}
  <2>1. T = S
    BY <1>1, <1>5
  <2>2. op[v][n] >= n /\ op[v][n] \in Nat
    BY <1>3 DEF Monotone
  <2> QED
    BY <1>4, <2>1, <2>2
<1>6. CASE K # {}
  <2>1. PICK k \in K : TRUE
    BY <1>6
  <2>2. ASSUME NEW j \in K PROVE j = k
    <3>1. j \in Nat /\ k \in Nat /\ j % BucketSize = k % BucketSize /\ j - k < BucketSize /\ k - j < BucketSize
      BY <2>1, <2>2, SizeType
    <3> QED
      BY <3>1, SlotApart
  <2>3. k \notin S
    <3>1. k \in Nat /\ k % BucketSize = s /\ ~(s < s)
      BY <1>s, <2>1
    <3> QED
      BY <3>1 DEF Passed
  <2> HIDE DEF S, T
  <2>4. k \in T /\ T \ {k} = S
    BY <1>1, <2>1, <2>2, <2>3
  <2>5. Fold(op, f, T) = op[f[k]][Fold(op, f, S)]
    <3>1. PICK U : U = T
      OBVIOUS
    <3>2. Commutes(op) /\ Folding(op, f, U) /\ k \in U
      BY <1>3, <2>4, <3>1
    <3>3. Fold(op, f, U) = op[f[k]][Fold(op, f, U \ {k})]
      BY ONLY <3>2, FoldRemove
    <3> QED
      BY <2>4, <3>1, <3>3
  <2>6. f[k] \in Nat /\ f[k] <= v
    BY <2>1
  <2>7. Fold(op, f, S) <= n
    BY DEF S
  <2>8. Fold(op, f, T) <= op[v][n]
    BY <1>3, <1>4, <2>5, <2>6, <2>7 DEF Monotone
  <2> QED
    BY <2>8 DEF T
<1> QED
  BY <1>5, <1>6

\* What is taken for a second of the slot is no more than what f has.
LEMMA SlotUpper ==
    ASSUME NEW op, Operation(op), NEW a \in Nat, NEW b \in Nat, NEW s \in Slot,
           NEW f, \A k \in a..b : f[k] \in Nat,
           NEW n \in Nat, n <= Fold(op, f, Passed(a..b, s)),
           NEW k \in a..b, k % BucketSize = s, NEW v \in Nat, v <= f[k]
    PROVE  op[v][n] <= Fold(op, f, Passed(a..b, s + 1))
<1>s. a..b \in SUBSET Nat /\ s \in Nat
  BY SizeType, WindowAssumption
<1> DEFINE S == Passed(a..b, s)
           T == Passed(a..b, s + 1)
<1>1. S \subseteq T /\ k \in T
  BY <1>s, PassedOne
<1>2. IsFiniteSet(S) /\ S \subseteq a..b /\ IsFiniteSet(T) /\ T \subseteq a..b
  BY PassedFinite
<1>3. Folding(op, f, S) /\ Folding(op, f, T) /\ Commutes(op) /\ Monotone(op) /\ op \in [Nat -> [Nat -> Nat]]
  BY <1>2 DEF Folding, Operation
<1>4. k \notin S
  <2>1. ~(s < s)
    BY <1>s
  <2> QED
    BY <2>1 DEF Passed
<1>n. n <= Fold(op, f, S)
  OBVIOUS
<1> HIDE DEF S, T
<1>5. Fold(op, f, T) = op[f[k]][Fold(op, f, T \ {k})] /\ Folding(op, f, T \ {k})
  <2>1. Commutes(op) /\ Folding(op, f, T)
    BY <1>3
  <2>2. PICK U : U = T
    OBVIOUS
  <2>3. Commutes(op) /\ Folding(op, f, U) /\ k \in U
    BY <1>1, <2>1, <2>2
  <2>4. Fold(op, f, U) = op[f[k]][Fold(op, f, U \ {k})] /\ Folding(op, f, U \ {k})
    BY ONLY <2>3, FoldRemove
  <2> QED
    BY <2>2, <2>4
<1>6. Fold(op, f, S) <= Fold(op, f, T \ {k})
  <2>1. S \in SUBSET (T \ {k}) /\ \A x \in S : f[x] \in Nat /\ f[x] <= f[x]
    BY <1>1, <1>2, <1>4
  <2>2. PICK U : U = T \ {k}
    OBVIOUS
  <2> QED
    BY <1>3, <1>5, <2>1, <2>2, FoldMonotone
<1>7. Fold(op, f, S) \in Nat /\ Fold(op, f, T \ {k}) \in Nat /\ f[k] \in Nat
  BY <1>3, <1>5, FoldType
<1>8. n <= Fold(op, f, T \ {k})
  BY <1>6, <1>7, <1>n
<1>9. op[v][n] <= Fold(op, f, T)
  BY <1>3, <1>5, <1>7, <1>8 DEF Monotone
<1> QED
  BY <1>9 DEF T

\* Later, or with more recorded, there is no less.
LEMMA UpperGrows ==
    ASSUME NEW op, Operation(op), NEW a \in Nat, NEW b \in Nat, NEW c \in Nat, b <= c, NEW s \in Nat, NEW r \in Nat, s <= r,
           NEW f, NEW g, \A k \in a..c : f[k] \in Nat /\ g[k] \in Nat /\ f[k] <= g[k]
    PROVE  Fold(op, f, Passed(a..b, s)) <= Fold(op, g, Passed(a..c, r))
<1> DEFINE S == Passed(a..b, s)
           T == Passed(a..c, r)
<1>1. IsFiniteSet(T) /\ T \subseteq a..c
  BY PassedFinite
<1>2. S \subseteq T
  <2>1. ASSUME NEW k \in a..b, k % BucketSize < s PROVE k \in a..c /\ k % BucketSize < r
    <3>1. k % BucketSize \in Int
      BY SizeType
    <3> QED
      BY <2>1, <3>1
  <2> QED
    BY <2>1 DEF Passed
<1>3. Folding(op, g, T) /\ \A k \in S : f[k] \in Nat /\ f[k] <= g[k]
  BY <1>1, <1>2 DEF Folding, Operation
<1> HIDE DEF S, T
<1>4. Fold(op, f, S) <= Fold(op, g, T)
  BY <1>2, <1>3, FoldMonotone DEF Operation
<1> QED
  BY <1>4 DEF S, T

\* A new second for which f has nothing adds nothing.
LEMMA LowerShrinks ==
    ASSUME NEW op, Operation(op), NEW a \in Nat, NEW b \in Nat, NEW s,
           NEW f, \A k \in a..(b + 1) : f[k] \in Nat, f[b + 1] = 0
    PROVE  Fold(op, f, Passed((a + 1)..(b + 1), s)) <= Fold(op, f, Passed(a..b, s))
<1> DEFINE S == Passed(a..b, s)
           T == Passed((a + 1)..(b + 1), s)
           x == b + 1
<1>1. IsFiniteSet(S) /\ S \subseteq a..b /\ IsFiniteSet(T) /\ T \subseteq (a + 1)..(b + 1)
  BY PassedFinite
<1>2. T \ {x} \subseteq S
  <2>1. ASSUME NEW k \in (a + 1)..(b + 1), k # b + 1 PROVE k \in a..b
    BY <2>1
  <2> QED
    BY <2>1 DEF Passed
<1>3. \A k \in S \cup T : f[k] \in Nat /\ f[k] <= f[k]
  <2>1. \A k \in S \cup T : k \in a..(b + 1)
    BY <1>1
  <2> QED
    BY <2>1
<1>4. Folding(op, f, S) /\ Folding(op, f, T) /\ Folding(op, f, T \ {x}) /\ Commutes(op) /\ Monotone(op)
  BY <1>1, <1>3, FS_Subset DEF Folding, Operation
<1> HIDE DEF S, T
<1>5. Fold(op, f, T \ {x}) <= Fold(op, f, S)
  BY <1>2, <1>3, <1>4, FoldMonotone
<1>6. Fold(op, f, T) = Fold(op, f, T \ {x})
  <2>1. CASE x \in T
    <3>1. Fold(op, f, T) = op[f[x]][Fold(op, f, T \ {x})]
      BY <1>4, <2>1, FoldRemove
    <3>2. Fold(op, f, T \ {x}) \in Nat
      BY <1>4, FoldType
    <3> QED
      BY <3>1, <3>2 DEF Operation
  <2>2. CASE x \notin T
    <3>1. T \ {x} = T
      BY <2>2
    <3> QED
      BY <3>1
  <2> QED
    BY <2>1, <2>2
<1>7. Fold(op, f, T) <= Fold(op, f, S)
  BY <1>5, <1>6
<1> QED
  BY <1>7 DEF S, T

----------------------------------------------------------------------------
(* The loop against everybody else.                                        *)

LEMMA OpOperation == ASSUME Types PROVE Operation(Op)
BY OpFolds DEF Operation

LEMMA OpSame == ASSUME kind' = kind PROVE Op' = Op
BY DEF Op

\* The windows are of seconds that the Number has known.
LEMMA WindowTimes ==
    ASSUME Types, NEW e \in Nat, e >= Start, e <= clock
    PROVE  /\ clock \in Nat /\ e - Window \in Nat
           /\ (e - Window)..clock \subseteq Time /\ (e - Window)..clock \in SUBSET Nat
<1>1. Window \in Nat /\ Start \in Nat /\ Start > Window /\ MaxClock \in Nat /\ clock \in Nat /\ clock <= MaxClock
  BY WindowAssumption, StartAssumption, ClockAssumption DEF Types
<1>2. e - Window \in Nat
  BY <1>1
<1> QED
  BY <1>1, <1>2 DEF Time

LEMMA UpperStays ==
    ASSUME Types, Types', Grown, KeysKept, kind' = kind, clock <= clock',
           NEW q \in Proc, Same(q), WriterInv, Scanning(q), Upper(q)
    PROVE  Upper(q)'
<1>1. PICK e \in Nat, c \in Nat, d \in Nat, s \in Nat : e = epoch[q] /\ c = clock /\ d = clock' /\ s = slot[q]
  BY DEF Types
<1>2. e >= Start /\ e <= c /\ c <= d
  BY <1>1 DEF Upper, WriterInv, Writer
<1>3. e - Window \in Nat /\ \A k \in (e - Window)..d : k \in Time
  <2>1. Window \in Nat /\ Start \in Nat /\ Start > Window /\ MaxClock \in Nat /\ d <= MaxClock
    BY <1>1, WindowAssumption, StartAssumption, ClockAssumption DEF Types
  <2>2. e - Window \in Nat
    BY <1>2, <2>1
  <2> QED
    BY <2>1, <2>2 DEF Time
<1>4. PICK op : op = Op /\ op = Op' /\ Operation(op)
  BY OpOperation, OpSame
<1>5. PICK f, g : f = total /\ g = total'
  OBVIOUS
<1>6. \A k \in Time : f[k] \in Nat /\ g[k] \in Nat /\ f[k] <= g[k]
  BY <1>5 DEF Types, Grown
<1> DEFINE m == Fold(op, f, Passed((e - Window)..c, s))
           n == Fold(op, g, Passed((e - Window)..d, s))
<1>7. m <= n
  BY <1>2, <1>3, <1>4, <1>6, UpperGrows
<1>8. val[q] <= m /\ val[q] \in Nat
  BY <1>1, <1>4, <1>5 DEF Upper, Merged, Counts, Types
<1>9. m \in Nat /\ n \in Nat
  <2>1. ASSUME NEW h, NEW b \in Nat, b <= d, \A k \in Time : h[k] \in Nat
        PROVE  Fold(op, h, Passed((e - Window)..b, s)) \in Nat
    <3>1. IsFiniteSet(Passed((e - Window)..b, s)) /\ Passed((e - Window)..b, s) \subseteq (e - Window)..b
      BY <1>3, PassedFinite
    <3>2. (e - Window)..b \subseteq (e - Window)..d
      BY <1>3, <2>1
    <3> QED
      BY <1>3, <1>4, <2>1, <3>1, <3>2, FoldType DEF Folding, Operation
  <2> QED
    BY <1>2, <1>6, <2>1
<1>10. val[q] <= n
  <2> HIDE DEF m, n
  <2> QED
    BY <1>7, <1>8, <1>9
<1>11. (Merged(total, Passed(Counts(q), slot[q])))' = n
  BY <1>1, <1>4, <1>5 DEF Merged, Counts, Same
<1>12. val'[q] <= (Merged(total, Passed(Counts(q), slot[q])))'
  BY <1>10, <1>11 DEF Same
<1>13. bucket[q] \in DOMAIN heap
  BY DEF Types
<1> HIDE DEF m, n
<1> QED
  BY <1>12, <1>13 DEF Upper, Same, KeysKept

LEMMA StepUpper ==
    NumberInv /\ NumberInv' /\ PastInv /\ ValueInv /\ UpperInv /\ [Next]_vars => UpperInv'
<1> SUFFICES ASSUME Types, SlotInv, WriterInv, Types', PastInv, ValueInv, UpperInv, [Next]_vars PROVE UpperInv'
  BY DEF NumberInv
<1>g. Grown /\ KeysKept
  BY StepGrows, StepKeys
<1>x. ASSUME NEW q \in Proc, Same(q), kind' = kind, clock <= clock' PROVE (Scanning(q) => Upper(q))'
  <2>1. Scanning(q)' => Scanning(q)
    BY <1>x DEF Same, Scanning
  <2> QED
    BY <1>g, <1>x, <2>1, UpperStays DEF UpperInv
<1>1. ASSUME NEW p \in Proc, StepOf(p) PROVE UpperInv'
  <2>1. UNCHANGED <<kind, clock>> /\ clock \in Nat /\ \A q \in Proc : q # p => Same(q)
    BY <1>1, Others DEF Types
  <2>2. \A q \in Proc : q # p => (Scanning(q) => Upper(q))'
    BY <1>x, <2>1
  <2>c. pc \in [Proc -> Location] /\ epoch \in [Proc -> Nat] /\ slot \in [Proc -> Nat] /\ val \in [Proc -> Nat]
    BY DEF Types
  <2>p. PICK op : op = Op /\ op = Op' /\ Operation(op)
    BY <2>1, OpOperation, OpSame
  <2>s. ASSUME SkipBucket(p) \/ TakeBucket(p) \/ TakeValue(p)
        PROVE  /\ Scanning(p) /\ Upper(p) /\ slot[p] \in Slot /\ UNCHANGED <<epoch, total, heap, buckets>>
               /\ epoch[p] \in Nat /\ epoch[p] >= Start /\ epoch[p] <= clock
    <3>1. pc[p] \in {"scan", "value"} /\ UNCHANGED <<epoch, total, heap, buckets>>
      BY <2>s DEF SkipBucket, TakeBucket, TakeValue, NextSlot, Goto, ring, history
    <3>2. Scanning(p) /\ Upper(p) /\ slot[p] \in Slot
      BY <3>1 DEF Scanning, UpperInv, SlotInv
    <3> QED
      BY <2>c, <3>1, <3>2 DEF Upper, WriterInv, Writer
  <2>n. ASSUME NextSlot(p, "scan") \/ NextSlot(p, "value"), slot[p] \in Slot
        PROVE  /\ slot'[p] = slot[p] + 1 /\ slot'[p] <= BucketSize
               /\ pc'[p] = "scanned" => slot'[p] = BucketSize
               /\ pc'[p] # "value"
    BY <2>c, <2>n, SizeType, WindowAssumption DEF NextSlot, Goto
  <2>3. CASE Scan(p)
    <3>1. pc'[p] = "scan" /\ epoch'[p] = clock /\ slot'[p] = 0 /\ val'[p] = 0 /\ UNCHANGED total
      BY <2>3, <2>c DEF Scan, Begin, Goto
    <3>2. clock - Window \in Nat /\ (clock - Window)..clock \in SUBSET Nat /\ clock >= Start
      <4>1. PICK c \in Nat : c = clock /\ c >= Start /\ c <= clock
        BY DEF Types
      <4>2. c - Window \in Nat /\ (c - Window)..clock \in SUBSET Nat
        BY <4>1, WindowTimes
      <4> QED
        BY <4>1, <4>2
    <3>3. Passed((clock - Window)..clock, 0) = {}
      BY <3>2, PassedNone
    <3>4. Folding(op, total, {})
      BY <2>p, FS_EmptySet DEF Folding, Operation
    <3>5. Fold(op, total, {}) = 0
      BY <3>4, FoldEmpty
    <3>6. (Merged(total, Passed(Counts(p), slot[p])))' = 0
      BY <2>1, <2>p, <3>1, <3>3, <3>5 DEF Merged, Counts
    <3>7. Upper(p)'
      BY <2>1, <3>1, <3>2, <3>6, SizeType DEF Upper
    <3> QED
      BY <2>2, <3>7 DEF UpperInv
  <2>4. CASE SkipBucket(p)
    <3>0. NextSlot(p, "scan") /\ UNCHANGED val
      BY <2>4 DEF SkipBucket
    <3>1. /\ slot'[p] = slot[p] + 1 /\ slot'[p] <= BucketSize /\ pc'[p] # "value"
          /\ pc'[p] = "scanned" => slot'[p] = BucketSize
      BY <2>4, <2>n, <2>s, <3>0
    <3>e. PICK e \in Nat, c \in Nat, s \in Slot : e = epoch[p] /\ c = clock /\ s = slot[p] /\ e >= Start /\ e <= c
      BY <2>1, <2>4, <2>s
    <3>f. PICK f : f = total /\ f \in [Time -> Nat]
      BY DEF Types
    <3>2. e - Window \in Nat /\ (e - Window)..c \subseteq Time
      BY <3>e, WindowTimes
    <3> DEFINE m == Fold(op, f, Passed((e - Window)..c, s))
               n == Fold(op, f, Passed((e - Window)..c, s + 1))
    <3>3. m <= n /\ m \in Nat /\ n \in Nat
      <4>1. s \in Nat /\ s + 1 \in Nat /\ s <= s + 1
        BY SizeType, WindowAssumption
      <4>2. \A k \in (e - Window)..c : f[k] \in Nat /\ f[k] <= f[k]
        BY <3>2, <3>f
      <4>3. m <= n
        BY <2>p, <3>2, <4>1, <4>2, UpperGrows
      <4>4. ASSUME NEW r PROVE Fold(op, f, Passed((e - Window)..c, r)) \in Nat
        <5>1. /\ IsFiniteSet(Passed((e - Window)..c, r))
              /\ Passed((e - Window)..c, r) \subseteq (e - Window)..c
          BY <3>2, PassedFinite
        <5> QED
          BY <2>p, <4>2, <5>1, FoldType DEF Folding, Operation
      <4> QED
        BY <4>3, <4>4
    <3>4. val[p] <= m /\ val[p] \in Nat
      BY <2>4, <2>c, <2>p, <2>s, <3>e, <3>f DEF Upper, Merged, Counts
    <3>5. (Merged(total, Passed(Counts(p), slot[p])))' = n
      BY <2>1, <2>4, <2>p, <2>s, <3>e, <3>f, <3>1 DEF Merged, Counts
    <3> HIDE DEF m, n
    <3>6. val'[p] <= (Merged(total, Passed(Counts(p), slot[p])))'
      BY <3>0, <3>3, <3>4, <3>5
    <3>7. Upper(p)'
      BY <2>4, <2>s, <3>1, <3>6 DEF Upper
    <3> QED
      BY <2>2, <3>7 DEF UpperInv
  <2>5. CASE TakeBucket(p)
    <3>1. /\ pc'[p] = "value" /\ bucket'[p] = buckets[slot[p]] /\ UNCHANGED <<val, slot>>
          /\ heap[buckets[slot[p]]].key >= epoch[p] - Window
      BY <2>5, <2>c DEF TakeBucket, Goto, Types
    <3>2. Upper(p) /\ slot[p] \in Slot /\ UNCHANGED <<epoch, total, heap>> /\ epoch[p] \in Nat /\ epoch[p] >= Start
      BY <2>5, <2>s
    <3>3. heap[buckets[slot[p]]].key % BucketSize = slot[p]
      <4>1. heap[buckets[slot[p]]].key # 0
        BY <3>1, <3>2, WindowAssumption, StartAssumption
      <4> QED
        BY <3>2, <4>1 DEF ValueInv
    <3>4. (Merged(total, Passed(Counts(p), slot[p])))' = Merged(total, Passed(Counts(p), slot[p]))
      BY <2>1, <2>p, <3>1, <3>2 DEF Merged, Counts
    <3>5. Upper(p)'
      BY <3>1, <3>2, <3>3, <3>4 DEF Upper
    <3> QED
      BY <2>2, <3>5 DEF UpperInv
  <2>6. CASE TakeValue(p)
    <3>0. NextSlot(p, "value") /\ pc[p] = "value" /\ val'[p] = Merge(val[p], heap[bucket[p]].value)
      BY <2>6, <2>c DEF TakeValue, NextSlot, Goto
    <3>1. /\ slot'[p] = slot[p] + 1 /\ slot'[p] <= BucketSize /\ pc'[p] # "value"
          /\ pc'[p] = "scanned" => slot'[p] = BucketSize
      BY <2>6, <2>n, <2>s, <3>0
    <3>e. PICK e \in Nat, c \in Nat, s \in Slot : e = epoch[p] /\ c = clock /\ s = slot[p] /\ e >= Start /\ e <= c
      BY <2>1, <2>6, <2>s
    <3>f. PICK f : f = total /\ f \in [Time -> Nat]
      BY DEF Types
    <3>2. e - Window \in Nat /\ (e - Window)..c \subseteq Time
      BY <3>e, WindowTimes
    <3>k. PICK k \in Nat, v \in Nat : k = heap[bucket[p]].key /\ v = heap[bucket[p]].value
      BY BucketAt DEF Types
    <3>3. k \in (e - Window)..c /\ k % BucketSize = s /\ v <= f[k]
      <4>1. k >= e - Window /\ k % BucketSize = s
        BY <2>6, <2>s, <3>0, <3>e, <3>k DEF Upper
      <4>2. k <= c /\ v <= f[k]
        BY <3>e, <3>f, <3>k DEF PastInv, ValueInv, Types
      <4> QED
        BY <3>2, <4>1, <4>2
    <3>4. PICK n \in Nat : n = val[p]
      BY <2>c
    <3>5. n <= Fold(op, f, Passed((e - Window)..c, s))
      BY <2>6, <2>p, <2>s, <3>e, <3>f, <3>4 DEF Upper, Merged, Counts
    <3>6. \A j \in (e - Window)..c : f[j] \in Nat
      BY <3>2, <3>f
    <3>7. op[v][n] <= Fold(op, f, Passed((e - Window)..c, s + 1))
      BY <2>p, <3>2, <3>3, <3>5, <3>6, SlotUpper
    <3>8. val'[p] = op[v][n]
      <4>1. Merge(n, v) = Merge(v, n)
        BY DEF Merge
      <4>2. Op[v][n] = Merge(v, n)
        BY OpFolds
      <4> QED
        BY <2>p, <3>0, <3>k, <3>4, <4>1, <4>2
    <3>9. (Merged(total, Passed(Counts(p), slot[p])))' = Fold(op, f, Passed((e - Window)..c, s + 1))
      BY <2>1, <2>6, <2>p, <2>s, <3>e, <3>f, <3>1 DEF Merged, Counts
    <3>10. Upper(p)'
      BY <2>6, <2>s, <3>1, <3>7, <3>8, <3>9 DEF Upper
    <3> QED
      BY <2>2, <3>10 DEF UpperInv
  <2>7. CASE ~(Scan(p) \/ SkipBucket(p) \/ TakeBucket(p) \/ TakeValue(p))
    <3>1. ~Scanning(p)'
      BY <1>1, <2>7, <2>c DEF StepOf, Reads, Update, LoadBucket, SwapLost, LoadMax, SwapMaxLost, Return, SwapBucket,
              Add, NotGreater, SwapMax, Reset, ResetSlot, Begin, Goto, Scanning
    <3> QED
      BY <2>2, <3>1 DEF UpperInv
  <2> QED
    BY <2>3, <2>4, <2>5, <2>6, <2>7
<1>2. ASSUME Tick \/ UNCHANGED vars PROVE UpperInv'
  BY <1>2, <1>x, StillSame DEF UpperInv
<1> QED
  BY <1>1, <1>2, Steps DEF StepOf

LEMMA StepBefore == NumberInv /\ BeforeInv /\ [Next]_vars => BeforeInv'
<1> SUFFICES ASSUME Types, SlotInv, WriterInv, BeforeInv, [Next]_vars PROVE BeforeInv'
  BY DEF NumberInv
<1>g. Grown
  BY StepGrows
<1>t. total \in [Time -> Nat] /\ total' \in [Time -> Nat] /\ \A k \in Time : total[k] <= total'[k]
  BY <1>g DEF Types, Grown
<1>b. before \in [Proc -> [Time -> Nat]] /\ \A p \in Proc, k \in Time : before[p][k] <= total[k]
  BY DEF BeforeInv
<1>x. ASSUME before' = before PROVE BeforeInv'
  BY <1>b, <1>t, <1>x DEF BeforeInv
<1>y. ASSUME NEW p \in Proc, NEW f \in [Time -> Nat], \A k \in Time : f[k] <= total'[k],
             before' = [before EXCEPT ![p] = f]
      PROVE  BeforeInv'
  <2>1. before' \in [Proc -> [Time -> Nat]]
    BY <1>b, <1>y
  <2>2. ASSUME NEW q \in Proc, NEW k \in Time PROVE before'[q][k] <= total'[k]
    BY <1>b, <1>t, <1>y
  <2> QED
    BY <2>1, <2>2 DEF BeforeInv
<1>1. ASSUME NEW p \in Proc, StepOf(p) PROVE BeforeInv'
  <2>1. CASE Scan(p)
    BY <1>t, <1>y, <2>1 DEF Scan
  <2>2. CASE Return(p)
    <3>1. Zero \in [Time -> Nat] /\ \A k \in Time : Zero[k] <= total'[k]
      BY <1>t DEF Zero
    <3> QED
      BY <1>y, <2>2, <3>1 DEF Return
  <2>3. CASE ~(Scan(p) \/ Return(p))
    <3>1. before' = before
      BY <1>1, <2>3 DEF StepOf, Reads, Update, LoadBucket, SwapLost, LoadMax, SwapMaxLost, SkipBucket, TakeBucket,
            TakeValue, SwapBucket, Add, NotGreater, SwapMax, Recorded, Reset, ResetSlot, history
    <3> QED
      BY <1>x, <3>1
  <2> QED
    BY <2>1, <2>2, <2>3
<1>2. ASSUME Tick \/ UNCHANGED vars PROVE BeforeInv'
  BY <1>2, <1>x DEF Tick, vars, history
<1> QED
  BY <1>1, <1>2, Steps DEF StepOf

\* Neither the clock nor a writer makes less of what the loop has.
LEMMA LowerStays ==
    ASSUME Types, Types', PastInv, BeforeInv, Grown, kind' = kind, clock' = clock \/ clock' = clock + 1,
           NEW q \in Proc, Same(q), before'[q] = before[q], Lower(q)
    PROVE  Lower(q)'
<1>1. PICK c \in Nat, d \in Nat, s \in Nat, f \in [Time -> Nat] :
         c = clock /\ d = clock' /\ s = slot[q] /\ f = before[q]
  BY DEF Types, BeforeInv
<1>2. (d = c \/ d = c + 1) /\ c >= Start
  BY <1>1 DEF Types
<1>3. /\ Window \in Nat /\ c - Window \in Nat /\ (d - Window)..d \subseteq Time /\ (c - Window)..c \subseteq Time
      /\ (c - Window)..d \subseteq Time
  <2>1. Window \in Nat /\ Start \in Nat /\ Start > Window /\ MaxClock \in Nat /\ d <= MaxClock /\ c <= MaxClock
    BY <1>1, WindowAssumption, StartAssumption, ClockAssumption DEF Types
  <2> QED
    BY <1>2, <2>1 DEF Time
<1>4. PICK op : op = Op /\ op = Op' /\ Operation(op)
  BY OpOperation, OpSame
<1>5. d = c + 1 => d \in Time /\ f[d] = 0
  <2> SUFFICES ASSUME d = c + 1 PROVE d \in Time /\ f[d] = 0
    OBVIOUS
  <2>1. d \in Time
    BY <1>1, ClockAssumption DEF Types, Time
  <2>2. total[d] = 0
    BY <1>1, <2>1 DEF PastInv
  <2>3. f[d] <= total[d] /\ f[d] \in Nat
    BY <1>1, <2>1 DEF BeforeInv
  <2> QED
    BY <2>1, <2>2, <2>3
<1> DEFINE m == Fold(op, f, Passed((c - Window)..c, s))
           n == Fold(op, f, Passed((d - Window)..d, s))
<1>6. n <= m /\ n \in Nat /\ m \in Nat
  <2>1. ASSUME NEW a \in Int, NEW b \in Int, a..b \subseteq Time PROVE Fold(op, f, Passed(a..b, s)) \in Nat
    <3>1. IsFiniteSet(Passed(a..b, s)) /\ Passed(a..b, s) \subseteq a..b
      BY PassedFinite
    <3> QED
      BY <1>4, <2>1, <3>1, FoldType DEF Folding, Operation
  <2>2. n \in Nat /\ m \in Nat
    BY <1>3, <2>1
  <2>3. CASE d = c
    BY <2>2, <2>3
  <2>4. CASE d = c + 1
    <3>1. PICK a \in Nat : a = c - Window /\ a + 1 = d - Window
      BY <1>3, <2>4
    <3>2. \A k \in a..(c + 1) : f[k] \in Nat
      BY <1>3, <2>4, <3>1
    <3>3. Fold(op, f, Passed((a + 1)..(c + 1), s)) <= Fold(op, f, Passed(a..c, s))
      BY <1>4, <1>5, <2>4, <3>2, LowerShrinks
    <3> QED
      BY <2>2, <2>4, <3>1, <3>3
  <2> QED
    BY <1>2, <2>3, <2>4
<1>7. m <= val[q] /\ val[q] \in Nat
  BY <1>1, <1>4 DEF Lower, Merged, Now, Types
<1>8. (Merged(before[q], Passed(Now, slot[q])))' = n
  BY <1>1, <1>4 DEF Merged, Now, Same
<1>9. val'[q] >= (Merged(before[q], Passed(Now, slot[q])))'
  <2> HIDE DEF m, n
  <2> QED
    BY <1>6, <1>7, <1>8 DEF Same
<1>10. ASSUME pc'[q] = "value", NEW k \in (d - Window)..d, k % BucketSize = s PROVE f[k] <= heap'[bucket[q]].value
  <2>1. /\ bucket[q] \in DOMAIN heap /\ heap[bucket[q]].value \in Nat
        /\ heap'[bucket[q]].value \in Nat /\ heap[bucket[q]].value <= heap'[bucket[q]].value
    <3>1. bucket[q] \in DOMAIN heap
      BY DEF Types
    <3>2. bucket[q] \in DOMAIN heap' /\ heap[bucket[q]].value <= heap'[bucket[q]].value
      BY <3>1 DEF Grown
    <3>3. heap'[bucket[q]] \in Bucket
      <4>1. PICK h, i : h = heap' /\ i = bucket[q]
        OBVIOUS
      <4>2. h \in Seq(Bucket) /\ i \in DOMAIN h
        BY <3>2, <4>1 DEF Types
      <4>3. h[i] \in Bucket
        BY <4>2
      <4> QED
        BY <4>1, <4>3
    <3> QED
      BY <3>1, <3>2, <3>3, BucketAt DEF Bucket
  <2>2. CASE k = c + 1 /\ d = c + 1
    BY <1>5, <2>1, <2>2
  <2>3. CASE ~(k = c + 1 /\ d = c + 1)
    <3>1. k \in (c - Window)..c
      BY <1>2, <1>3, <2>3
    <3>2. f[k] <= heap[bucket[q]].value
      BY <1>1, <1>10, <3>1 DEF Lower, Now, Same
    <3>3. f[k] \in Nat
      BY <1>3, <3>1
    <3> QED
      BY <2>1, <3>2, <3>3
  <2> QED
    BY <2>2, <2>3
<1>11. pc'[q] = "value" => \A k \in Now' : k % BucketSize = slot'[q] => before'[q][k] <= heap'[bucket'[q]].value
  BY <1>1, <1>10 DEF Now, Same
<1> HIDE DEF m, n
<1> QED
  BY <1>9, <1>11 DEF Lower

\* What the ring has in a slot is all that was recorded for the second of the window there.
LEMMA SlotExact ==
    ASSUME Types, BeforeInv, WindowExact, resets = 0, NEW p \in Proc, NEW s \in Slot,
           NEW k \in Now, k % BucketSize = s, k \in Time
    PROVE  IF heap[buckets[s]].key = k THEN before[p][k] <= heap[buckets[s]].value ELSE before[p][k] = 0
<1>1. Stored(k) = total[k]
  BY DEF WindowExact, Now
<1>2. before[p][k] <= total[k] /\ before[p][k] \in Nat
  BY DEF BeforeInv
<1>3. heap[buckets[s]].key = k => total[k] = heap[buckets[s]].value
  BY <1>1 DEF Stored
<1>4. heap[buckets[s]].key # k => total[k] = 0
  BY <1>1 DEF Stored
<1> QED
  BY <1>2, <1>3, <1>4

LEMMA StepLower ==
    NumberInv /\ NumberInv' /\ PastInv /\ UpperInv /\ BeforeInv /\ HeldInv /\ WindowExact /\ LowerInv /\ [Next]_vars
    => LowerInv'
<1> SUFFICES ASSUME Types, SlotInv, WriterInv, Types', PastInv, UpperInv, BeforeInv, HeldInv, WindowExact, LowerInv,
                    [Next]_vars, resets' = 0
             PROVE  \A q \in Proc : (Scanning(q) => Lower(q))'
  BY DEF NumberInv, LowerInv
<1>g. Grown
  BY StepGrows
<1>x. ASSUME NEW q \in Proc, Same(q), kind' = kind, clock' = clock \/ clock' = clock + 1, before'[q] = before[q],
             resets = 0
      PROVE  (Scanning(q) => Lower(q))'
  <2>1. Scanning(q)' => Scanning(q)
    BY <1>x DEF Same, Scanning
  <2> QED
    BY <1>g, <1>x, <2>1, LowerStays DEF LowerInv
<1>c. /\ pc \in [Proc -> Location] /\ epoch \in [Proc -> Nat] /\ slot \in [Proc -> Nat] /\ val \in [Proc -> Nat]
      /\ clock \in Nat /\ resets \in Nat
  BY DEF Types
<1>b. before \in [Proc -> [Time -> Nat]]
  BY DEF BeforeInv
<1>1. ASSUME NEW p \in Proc, StepOf(p) PROVE \A q \in Proc : (Scanning(q) => Lower(q))'
  <2>1. UNCHANGED <<kind, clock>> /\ \A q \in Proc : q # p => Same(q)
    BY <1>1, Others
  <2>r. resets = 0
    BY <1>1, <1>c DEF StepOf, Reads, Update, LoadBucket, SwapLost, LoadMax, SwapMaxLost, Scan, SkipBucket,
                      TakeBucket, TakeValue, Return, SwapBucket, Add, NotGreater, SwapMax, Reset, ResetSlot
  <2>b. \A q \in Proc : q # p => before'[q] = before[q]
    BY <1>1, <1>b DEF StepOf, Reads, Update, LoadBucket, SwapLost, LoadMax, SwapMaxLost, Scan, SkipBucket, TakeBucket,
          TakeValue, Return, SwapBucket, Add, NotGreater, SwapMax, Recorded, Reset, ResetSlot, history
  <2>2. \A q \in Proc : q # p => (Scanning(q) => Lower(q))'
    BY <1>x, <2>1, <2>b, <2>r
  <2>p. PICK op : op = Op /\ op = Op' /\ Operation(op)
    BY <2>1, OpOperation, OpSame
  <2>w. PICK c \in Nat : c = clock /\ c - Window \in Nat /\ (c - Window)..c \subseteq Time
                         /\ (c - Window)..c \in SUBSET Nat /\ Now = (c - Window)..c /\ Now' = (c - Window)..c
    <3>1. PICK c \in Nat : c = clock /\ c >= Start
      BY DEF Types
    <3>2. c - Window \in Nat /\ (c - Window)..c \subseteq Time /\ (c - Window)..c \in SUBSET Nat
      BY <3>1, WindowTimes
    <3> QED
      BY <2>1, <3>1, <3>2 DEF Now
  <2>s. ASSUME SkipBucket(p) \/ TakeBucket(p) \/ TakeValue(p)
        PROVE  /\ Scanning(p) /\ Lower(p) /\ slot[p] \in Slot /\ UNCHANGED <<before, heap, buckets>>
               /\ Upper(p) /\ epoch[p] \in Nat /\ epoch[p] <= clock
    <3>1. pc[p] \in {"scan", "value"} /\ UNCHANGED <<before, heap, buckets>>
      BY <2>s DEF SkipBucket, TakeBucket, TakeValue, NextSlot, Goto, ring, history
    <3>2. Scanning(p) /\ Lower(p) /\ Upper(p) /\ slot[p] \in Slot
      BY <2>r, <3>1 DEF Scanning, UpperInv, LowerInv, SlotInv
    <3> QED
      BY <1>c, <3>1, <3>2 DEF WriterInv, Writer
  \* The slot is passed, and v taken for it.
  <2>n. ASSUME NEW v \in Nat, NextSlot(p, "scan") \/ NextSlot(p, "value"), Lower(p), slot[p] \in Slot,
               UNCHANGED before, val'[p] = op[v][val[p]],
               \A k \in Now : k % BucketSize = slot[p] => before[p][k] <= v
        PROVE  Lower(p)'
    <3>1. slot'[p] = slot[p] + 1 /\ pc'[p] # "value"
      BY <1>c, <2>n DEF NextSlot, Goto
    <3>2. PICK s \in Slot, f \in [Time -> Nat], n \in Nat : s = slot[p] /\ f = before[p] /\ n = val[p]
      BY <1>b, <1>c, <2>n
    <3>3. Fold(op, f, Passed((c - Window)..c, s)) <= n
      BY <2>n, <2>p, <2>w, <3>2 DEF Lower, Merged
    <3>4. \A k \in (c - Window)..c : f[k] \in Nat
      BY <2>w
    <3>5. \A k \in (c - Window)..c : k % BucketSize = s => f[k] <= v
      BY <2>n, <2>w, <3>2
    <3>6. PICK a \in Nat : a = c - Window /\ c - a < BucketSize
      BY <2>w, SizeType, WindowAssumption
    <3>7. Fold(op, f, Passed((c - Window)..c, s + 1)) <= op[v][n]
      BY <2>p, <3>3, <3>4, <3>5, <3>6, SlotLower
    <3>8. (Merged(before[p], Passed(Now, slot[p])))' = Fold(op, f, Passed((c - Window)..c, s + 1))
      BY <2>n, <2>p, <2>w, <3>1, <3>2 DEF Merged
    <3>9. op[v][n] \in Nat /\ Fold(op, f, Passed((c - Window)..c, s + 1)) \in Nat
      <4>1. IsFiniteSet(Passed((c - Window)..c, s + 1)) /\ Passed((c - Window)..c, s + 1) \subseteq (c - Window)..c
        BY <2>w, PassedFinite
      <4>2. Folding(op, f, Passed((c - Window)..c, s + 1))
        BY <2>p, <3>4, <4>1 DEF Folding, Operation
      <4> QED
        BY <2>p, <4>2, FoldType DEF Operation
    <3>10. val'[p] >= (Merged(before[p], Passed(Now, slot[p])))'
      BY <2>n, <3>2, <3>7, <3>8, <3>9
    <3> QED
      BY <3>1, <3>10 DEF Lower
  <2>3. CASE Scan(p)
    <3>1. pc'[p] = "scan" /\ slot'[p] = 0 /\ val'[p] = 0
      BY <2>3, <1>c DEF Scan, Begin, Goto
    <3>2. Passed((c - Window)..c, 0) = {}
      BY <2>w, PassedNone
    <3>3. PICK f : f = before'[p]
      OBVIOUS
    <3>4. Folding(op, f, {})
      BY <2>p, FS_EmptySet DEF Folding, Operation
    <3>5. Fold(op, f, {}) = 0
      BY <3>4, FoldEmpty
    <3>6. (Merged(before[p], Passed(Now, slot[p])))' = 0
      BY <2>p, <2>w, <3>1, <3>2, <3>3, <3>5 DEF Merged
    <3>7. Lower(p)'
      BY <3>1, <3>6 DEF Lower
    <3> QED
      BY <2>2, <3>7
  <2>4. CASE SkipBucket(p)
    <3>1. NextSlot(p, "scan") /\ UNCHANGED val /\ heap[buckets[slot[p]]].key < epoch[p] - Window
      BY <2>4 DEF SkipBucket
    <3>2. Lower(p) /\ slot[p] \in Slot /\ UNCHANGED before /\ epoch[p] \in Nat /\ epoch[p] <= clock
      BY <2>4, <2>s
    <3>3. ASSUME NEW k \in Now, k % BucketSize = slot[p] PROVE before[p][k] <= 0
      <4>1. k \in Time /\ k \in (c - Window)..c
        BY <2>w
      <4>2. heap[buckets[slot[p]]].key \in Nat
        BY <3>2, BucketAt DEF Types
      <4>3. heap[buckets[slot[p]]].key # k
        BY <2>w, <3>1, <3>2, <4>1, <4>2, WindowAssumption
      <4>4. before[p][k] = 0
        BY <2>r, <3>2, <3>3, <4>1, <4>3, SlotExact
      <4> QED
        BY <4>4
    <3>4. val'[p] = op[0][val[p]]
      BY <1>c, <2>p, <3>1 DEF Operation
    <3>5. Lower(p)'
      BY <2>n, <3>1, <3>2, <3>3, <3>4
    <3> QED
      BY <2>2, <3>5
  <2>5. CASE TakeBucket(p)
    <3>1. pc'[p] = "value" /\ bucket'[p] = buckets[slot[p]] /\ UNCHANGED <<val, slot>>
      BY <2>5, <1>c DEF TakeBucket, Goto, Types
    <3>2. Lower(p) /\ slot[p] \in Slot /\ UNCHANGED <<before, heap>>
      BY <2>5, <2>s
    <3>3. ASSUME NEW k \in Now, k % BucketSize = slot[p] PROVE before[p][k] <= heap[buckets[slot[p]]].value
      <4>1. k \in Time
        BY <2>w
      <4>2. IF heap[buckets[slot[p]]].key = k THEN before[p][k] <= heap[buckets[slot[p]]].value ELSE before[p][k] = 0
        BY <2>r, <3>2, <3>3, <4>1, SlotExact
      <4>3. heap[buckets[slot[p]]].value \in Nat
        BY <3>2, BucketAt DEF Types
      <4> QED
        BY <4>2, <4>3
    <3>4. (Merged(before[p], Passed(Now, slot[p])))' = Merged(before[p], Passed(Now, slot[p]))
      BY <2>p, <2>w, <3>1, <3>2 DEF Merged
    <3>5. val'[p] >= (Merged(before[p], Passed(Now, slot[p])))'
      BY <3>1, <3>2, <3>4 DEF Lower
    <3>6. \A k \in Now' : k % BucketSize = slot'[p] => before'[p][k] <= heap'[bucket'[p]].value
      BY <2>w, <3>1, <3>2, <3>3
    <3>7. Lower(p)'
      BY <3>5, <3>6 DEF Lower
    <3> QED
      BY <2>2, <3>7
  <2>6. CASE TakeValue(p)
    <3>1. NextSlot(p, "value") /\ pc[p] = "value" /\ val'[p] = Merge(val[p], heap[bucket[p]].value)
      BY <2>6, <1>c DEF TakeValue, NextSlot, Goto
    <3>2. Lower(p) /\ slot[p] \in Slot /\ UNCHANGED before
      BY <2>6, <2>s
    <3>3. PICK v \in Nat, n \in Nat : v = heap[bucket[p]].value /\ n = val[p]
      BY <1>c, BucketAt DEF Types
    <3>4. val'[p] = op[v][val[p]]
      <4>1. Merge(n, v) = Merge(v, n)
        BY DEF Merge
      <4>2. Op[v][n] = Merge(v, n)
        BY OpFolds
      <4> QED
        BY <2>p, <3>1, <3>3, <4>1, <4>2
    <3>5. \A k \in Now : k % BucketSize = slot[p] => before[p][k] <= v
      BY <3>1, <3>2, <3>3 DEF Lower
    <3>6. Lower(p)'
      BY <2>n, <3>1, <3>2, <3>4, <3>5
    <3> QED
      BY <2>2, <3>6
  <2>7. CASE ~(Scan(p) \/ SkipBucket(p) \/ TakeBucket(p) \/ TakeValue(p))
    <3>1. ~Scanning(p)'
      BY <1>1, <2>7, <1>c DEF StepOf, Reads, Update, LoadBucket, SwapLost, LoadMax, SwapMaxLost, Return, SwapBucket,
              Add, NotGreater, SwapMax, Reset, ResetSlot, Begin, Goto, Scanning
    <3> QED
      BY <2>2, <3>1
  <2> QED
    BY <2>3, <2>4, <2>5, <2>6, <2>7
<1>2. ASSUME Tick \/ UNCHANGED vars PROVE \A q \in Proc : (Scanning(q) => Lower(q))'
  <2>1. UNCHANGED <<before, resets>> /\ (clock' = clock \/ clock' = clock + 1)
    BY <1>2 DEF Tick, vars, history
  <2> QED
    BY <1>2, <1>x, <2>1, StillSame
<1> QED
  BY <1>1, <1>2, Steps DEF StepOf

LEMMA ScansBounded == Types /\ WriterInv /\ UpperInv /\ BeforeInv /\ LowerInv => ScanBounded
<1> SUFFICES ASSUME Types, WriterInv, UpperInv, BeforeInv, LowerInv, NEW p \in Proc, pc[p] = "scanned"
             PROVE  /\ val[p] <= MergeAll(total, (epoch[p] - Window)..clock)
                    /\ resets = 0 => val[p] >= MergeAll(before[p], (clock - Window)..clock)
  BY DEF ScanBounded
<1>1. Scanning(p) /\ Upper(p) /\ slot[p] = BucketSize
  BY DEF UpperInv, Upper, Scanning
<1>2. PICK e \in Nat, c \in Nat : e = epoch[p] /\ c = clock /\ e >= Start /\ e <= c /\ c >= Start
  BY <1>1 DEF Types, Upper, WriterInv, Writer
<1>3. ASSUME NEW d \in Nat, d >= Start, d <= c, NEW f \in [Time -> Nat]
      PROVE  MergeAll(f, (d - Window)..c) = Merged(f, Passed((d - Window)..c, BucketSize))
  <2>1. d - Window \in Nat /\ (d - Window)..c \subseteq Time /\ (d - Window)..c \in SUBSET Nat
    BY <1>2, <1>3, WindowTimes
  <2>2. IsFiniteSet((d - Window)..c)
    BY <2>1, FS_Interval
  <2>3. Passed((d - Window)..c, BucketSize) = (d - Window)..c
    BY <2>1, PassedAll
  <2>4. \A k \in (d - Window)..c : f[k] \in Nat
    BY <2>1
  <2> QED
    BY <2>2, <2>3, <2>4, MergeIsFold
<1>4. val[p] <= MergeAll(total, (epoch[p] - Window)..clock)
  <2>1. MergeAll(total, (e - Window)..c) = Merged(total, Passed((e - Window)..c, BucketSize))
    BY <1>2, <1>3 DEF Types
  <2> QED
    BY <1>1, <1>2, <2>1 DEF Upper, Counts
<1>5. ASSUME resets = 0 PROVE val[p] >= MergeAll(before[p], (clock - Window)..clock)
  <2>1. PICK f \in [Time -> Nat] : f = before[p]
    BY DEF BeforeInv
  <2>2. MergeAll(f, (c - Window)..c) = Merged(f, Passed((c - Window)..c, BucketSize))
    BY <1>2, <1>3
  <2> QED
    BY <1>1, <1>2, <1>5, <2>1, <2>2 DEF LowerInv, Lower, Now
<1> QED
  BY <1>4, <1>5

\* A Sum or Max that races with writers, with resets and with the clock returns no more than was
\* recorded from its oldest second on and, before the first Reset, no less than what was recorded when
\* it began for the seconds still in the window when it returns (rolling.go:74-101).
THEOREM SumsBounded == Spec => []ScanBounded
<1>1. Init => PastInv /\ HeldInv /\ WindowExact
  BY InitWindow
<1>2. Init => ValueInv /\ UpperInv /\ BeforeInv /\ LowerInv
  <2> SUFFICES ASSUME Init PROVE ValueInv /\ UpperInv /\ BeforeInv /\ LowerInv
    OBVIOUS
  <2>1. \A i \in DOMAIN heap : heap[i].key = 0 /\ heap[i].value = 0
    BY DEF Init
  <2>2. total = [k \in Time |-> 0] /\ 0 \in Time
    BY ClockAssumption DEF Init, Zero, Time
  <2>3. \A s \in Slot : buckets[s] \in DOMAIN heap
    BY SizeType, WindowAssumption DEF Init
  <2>4. ValueInv
    BY <2>1, <2>2, <2>3 DEF ValueInv
  <2>5. \A q \in Proc : ~Scanning(q)
    BY DEF Init, Scanning
  <2>6. BeforeInv
    BY DEF Init, BeforeInv, Zero
  <2> QED
    BY <2>4, <2>5, <2>6 DEF UpperInv, LowerInv
<1>3. NumberInv /\ UpperInv /\ BeforeInv /\ LowerInv => ScanBounded
  BY ScansBounded DEF NumberInv
<1> QED
  BY <1>1, <1>2, <1>3, NumberKept, StepPast, StepHeld, StepExact, StepValues, StepUpper, StepBefore, StepLower, PTL DEF Spec
=============================================================================
