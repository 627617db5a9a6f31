-------------------------- MODULE CollectorsProofs --------------------------
(***************************************************************************)
(* Proofs about module Collectors, for any goroutines, names of circuits,  *)
(* registered collectors, events, and any number of calls, of sends that   *)
(* fail and of Flushes.                                                    *)
(***************************************************************************)
EXTENDS Collectors, FoldProofs, TLAPS

----------------------------------------------------------------------------
(* What a sequence of writes does, as a set.                               *)

WriteRecord ==
    [do : {"add", "zero", "loadTiming"}, metric : Metric]
    \cup [do : {"send"}, metrics : SUBSET (Kind \X Metric)]
    \cup [do : {"gauge"}, to : HasGauge, value : {0, 1}]

\* What a write does, as items <<what it does, to which collector, to what>>.
ItemsOf(w) ==
    IF w.do = "send" THEN {<<"send", x[1], x[2]>> : x \in w.metrics}
    ELSE IF w.do = "gauge" THEN {<<"gauge", w.to, w.value>>}
    ELSE {<<w.do, "default", w.metric>>}
Writes == Seq(WriteRecord)
Items(writes) == UNION {ItemsOf(writes[i]) : i \in DOMAIN writes}

\* No two writes do the same.
Apart(writes) ==
    \A i, j \in DOMAIN writes : i # j => ItemsOf(writes[i]) \cap ItemsOf(writes[j]) = {}

\* Zeros, those of Reset, come before everything else.
ZerosFirst(writes) ==
    \A i, j \in DOMAIN writes : i < j /\ writes[j].do = "zero" => writes[i].do = "zero"

AddOf(m) == <<"add", "default", m>>
ZeroOf(m) == <<"zero", "default", m>>
Timing == <<"loadTiming", "default", "totalDuration">>
SendOf(c, m) == <<"send", c, m>>
GaugeOf(c, v) == <<"gauge", c, v>>

\* The metrics that collector c of plugins gets from a result.
Reported(c, result) ==
    (IF c \in {"datadog", "graphite"} THEN result \cap Basic ELSE result) \cup Durations

\* The items of the Update of collector c.
UpdateItems(c, result) ==
    IF c = "default" THEN {AddOf(m) : m \in result} \cup {Timing}
    ELSE {SendOf(c, m) : m \in Reported(c, result)}
         \cup (IF c \notin HasGauge THEN {}
               ELSE IF "successes" \in result THEN {GaugeOf(c, 0)}
               ELSE IF "shortCircuits" \in result THEN {GaugeOf(c, 1)} ELSE {})

\* What p has yet to do.
Todo(p) == Items(todo[p])

----------------------------------------------------------------------------
(* The strengthening that makes the properties inductive.                  *)

Location == {"idle", "report", "close", "forgotten", "write"}
Collector == Range(Registered)

Keys(c) == {Key(c, n) : n \in Name}

Types ==
    /\ open \in [Name -> BOOLEAN]
    /\ DOMAIN count = Collector
    /\ \A c \in Collector : count[c] \in [Keys(c) -> [Metric -> Nat]]
    /\ DOMAIN gauge = HasGauge
    /\ \A c \in HasGauge : gauge[c] \in [Keys(c) -> {-1, 0, 1}]
    /\ pc \in [Proc -> Location]
    /\ name \in [Proc -> Name]
    /\ primary \in [Proc -> PrimaryEvents]
    /\ secondary \in [Proc -> {"", "fallback-success", "fallback-failure"}]
    /\ todo \in [Proc -> Writes]
    /\ torn \in [Name -> BOOLEAN]
    /\ alone \in [Proc -> SUBSET HasGauge]
    /\ DOMAIN doubtful = HasGauge
    /\ \A c \in HasGauge : doubtful[c] \in [Keys(c) -> BOOLEAN]

\* The result of a call is made of the events that occur; only success closes.
CallInv ==
    \A p \in Proc :
        /\ pc[p] # "idle" => BuildResult(primary[p], secondary[p]) \subseteq Used
        /\ pc[p] = "close" => primary[p] = "success"
        /\ pc[p] # "write" => todo[p] = <<>>

\* What the writes left to do are like.
TodoOf(p) ==
    /\ Apart(todo[p]) /\ ZerosFirst(todo[p])
    /\ \A x \in Todo(p) :
         /\ x[1] = "zero" => Timing \in Todo(p)
         /\ x[1] = "loadTiming" => x = Timing
         /\ x[1] = "add" => x[3] \in Used
         /\ x[1] = "send" => x[2] # "default"
         /\ x[1] = "gauge" => /\ x[2] \in Collector
                              /\ \/ primary[p] = "success" /\ x[3] = 0
                                 \/ primary[p] = "short-circuit" /\ x[3] = 1
    /\ Timing \in Todo(p) => \A m \in Durations : AddOf(m) \notin Todo(p)
TodoInv == \A p \in Proc : TodoOf(p)

\* While a circuit is not torn, who resets it is alone with its default collector.
WritesDefault(p) == \E x \in Todo(p) : x[1] \in {"add", "zero", "loadTiming"}
Zeroing(p) == \E x \in Todo(p) : x[1] = "zero"
ExclusiveInv ==
    \A p, q \in Proc :
        p # q /\ name[p] = name[q] /\ ~torn[name[p]] /\ Zeroing(p) => ~WritesDefault(q)

\* What the default collector will have counted of circuit n once all that is left to do is done.
Adding(n, m) == {p \in Proc : name[p] = n /\ AddOf(m) \in Todo(p)}
Counted(n, m) ==
    IF \E p \in Proc : name[p] = n /\ ZeroOf(m) \in Todo(p) THEN 0 ELSE count["default"][n][m]
DefaultTotal(n) == [m \in Metric |-> Counted(n, m) + Cardinality(Adding(n, m))]

\* Balanced without sums.
Even(f) ==
    /\ f["attempts"] = f["successes"] + f["errors"] + f["contextCanceled"] + f["contextDeadlineExceeded"]
    /\ f["errors"] = f["failures"] + f["rejects"] + f["shortCircuits"] + f["timeouts"]
    /\ f["totalDuration"] = f["runDuration"]

BalanceInv ==
    /\ \A n \in Name : torn[n] \/ Even(DefaultTotal(n))
    /\ \A n \in Name, m \in Metric \ Used : count["default"][n][m] = 0

\* What collector c of plugins will have under a key.
Sending(c, k, m) == {p \in Proc : Key(c, name[p]) = k /\ SendOf(c, m) \in Todo(p)}
Handed(c, k, m) == count[c][k][m] + Cardinality(Sending(c, k, m))
PluginTotal(c, k) == [m \in Metric |-> Handed(c, k, m)]

\* What the default collector will have, without its Reset, and with all timings.
DueOf(p, n, m) == name[p] = n /\ (AddOf(m) \in Todo(p) \/ (m \in Durations /\ Timing \in Todo(p)))
Due(n, m) == {p \in Proc : DueOf(p, n, m)}
DefaultLimit(n, m) == count["default"][n][m] + Cardinality(Due(n, m))

\* The metrics of every plugin, and sums over the circuits of a prefix.
Common == Basic \cup Durations
SumOver == [k \in Prefix |-> [f \in [Name -> Nat] |-> Sum(f, Circuits(k))]]

SinksInv ==
    /\ \A n \in Name : Even(PluginTotal("prometheus", n))
    /\ \A n \in Name, m \in Metric : DefaultLimit(n, m) <= Handed("prometheus", n, m)
    /\ \A m \in Common :
         /\ \A n \in Name : Handed("datadog", n, m) = Handed("prometheus", n, m)
         /\ \A k \in Prefix : Handed("statsd", k, m) = Handed("graphite", k, m)
         /\ \A k \in Prefix, f \in [Name -> Nat] :
              (\A n \in Name : f[n] = Handed("prometheus", n, m)) => Handed("graphite", k, m) = SumOver[k][f]

\* Who has the gauge to itself, and what the gauge will be.
Busy(p) == pc[p] # "idle"
AloneInv ==
    \A p \in Proc, c \in HasGauge :
        LET n == name[p] IN
        /\ c \in alone[p] => Busy(p) /\ ~Shared(p, c, n)
        /\ Busy(p) /\ ~doubtful[c][Key(c, n)] => c \in alone[p]
        /\ c \in alone[p] /\ primary[p] = "short-circuit" => open[n]
        /\ c \in alone[p] /\ primary[p] = "success" /\ pc[p] = "write" =>
             gauge[c][Key(c, n)] # 1 \/ GaugeOf(c, 0) \in Todo(p)

GaugeInv ==
    /\ \A c \in HasGauge \ Collector : \A k \in DOMAIN gauge[c] : gauge[c][k] # 1
    /\ \A c \in HasGauge : \A k \in DOMAIN gauge[c] :
         gauge[c][k] = 1 =>
            \/ doubtful[c][k]
            \/ \E n \in Name : Key(c, n) = k /\ open[n]
            \/ \E p \in Proc : Key(c, name[p]) = k /\ Busy(p) /\ primary[p] = "success"

----------------------------------------------------------------------------
(* Sequences of writes.                                                    *)

\* The items of a sequence, if no two of its writes do the same, and none of them is a zero.
Does(writes, items) == writes \in Writes /\ Apart(writes) /\ Items(writes) = items
NoZero(items) == \A x \in items : x[1] # "zero"

LEMMA WriteTypes ==
    ASSUME NEW m \in Metric, NEW do \in {"add", "zero", "loadTiming"}
    PROVE  Write(do, m) \in WriteRecord /\ ItemsOf(Write(do, m)) = {<<do, "default", m>>}
BY DEF Write, WriteRecord, ItemsOf

LEMMA SendTypes ==
    ASSUME NEW c \in Kind, NEW metrics \in SUBSET Metric
    PROVE  /\ Send(c, metrics) \in WriteRecord
           /\ ItemsOf(Send(c, metrics)) = {SendOf(c, m) : m \in metrics}
<1>1. Send(c, metrics) \in [do : {"send"}, metrics : SUBSET (Kind \X Metric)]
  BY DEF Send
<1>2. Send(c, metrics).do = "send" /\ Send(c, metrics).metrics = {c} \X metrics
  BY DEF Send
<1>3. ItemsOf(Send(c, metrics)) = {<<"send", x[1], x[2]>> : x \in {c} \X metrics}
  BY <1>2 DEF ItemsOf
<1>4. ASSUME NEW y PROVE y \in {<<"send", x[1], x[2]>> : x \in {c} \X metrics}
                            <=> y \in {<<"send", c, m>> : m \in metrics}
  <2>1. ASSUME NEW x \in {c} \X metrics, y = <<"send", x[1], x[2]>>
        PROVE  y \in {<<"send", c, m>> : m \in metrics}
    BY <2>1
  <2>2. ASSUME NEW m \in metrics, y = <<"send", c, m>>
        PROVE  y \in {<<"send", x[1], x[2]>> : x \in {c} \X metrics}
    <3>1. <<c, m>> \in {c} \X metrics
      OBVIOUS
    <3> QED
      BY <2>2, <3>1
  <2> QED
    BY <2>1, <2>2
<1> QED
  BY <1>1, <1>3, <1>4 DEF WriteRecord, SendOf

LEMMA GaugeTypes ==
    ASSUME NEW c \in HasGauge, NEW v \in {0, 1}
    PROVE  Gauge(c, v) \in WriteRecord /\ ItemsOf(Gauge(c, v)) = {GaugeOf(c, v)}
BY DEF Gauge, WriteRecord, ItemsOf, GaugeOf

LEMMA EmptyDoes == Does(<<>>, {})
BY DEF Does, Writes, Apart, Items

LEMMA ItemsAt ==
    ASSUME NEW ws, NEW n \in Nat, DOMAIN ws = 1..n, NEW x
    PROVE  x \in Items(ws) <=> \E i \in 1..n : x \in ItemsOf(ws[i])
BY DEF Items

LEMMA AppendDoes ==
    ASSUME NEW ws, NEW items, Does(ws, items), NEW w \in WriteRecord, ItemsOf(w) \cap items = {}
    PROVE  Does(Append(ws, w), items \cup ItemsOf(w))
<1>1. PICK n \in Nat : n = Len(ws)
  BY DEF Does, Writes
<1>2. PICK r : r = Append(ws, w)
  OBVIOUS
<1>3. /\ r \in Writes /\ DOMAIN r = 1..(n + 1) /\ DOMAIN ws = 1..n
      /\ r[n + 1] = w /\ \A i \in 1..n : r[i] = ws[i]
  BY <1>1, <1>2 DEF Does, Writes
<1>4. \A i \in 1..(n + 1) : i \in 1..n \/ i = n + 1
  OBVIOUS
<1>5. Items(r) = items \cup ItemsOf(w)
  <2>1. ASSUME NEW x PROVE x \in Items(r) <=> x \in Items(ws) \/ x \in ItemsOf(w)
    <3>1. x \in Items(r) <=> \E i \in 1..(n + 1) : x \in ItemsOf(r[i])
      BY <1>3, n + 1 \in Nat, ItemsAt
    <3>2. x \in Items(ws) <=> \E i \in 1..n : x \in ItemsOf(ws[i])
      BY <1>3, ItemsAt
    <3>3. n + 1 \in 1..(n + 1) /\ \A i \in 1..n : i \in 1..(n + 1)
      OBVIOUS
    <3> QED
      BY <1>3, <1>4, <3>1, <3>2, <3>3
  <2> QED
    BY <2>1 DEF Does
<1>6. Apart(r)
  <2> SUFFICES ASSUME NEW i \in 1..(n + 1), NEW j \in 1..(n + 1), i # j
               PROVE  ItemsOf(r[i]) \cap ItemsOf(r[j]) = {}
    BY <1>3 DEF Apart
  <2>1. \A k \in 1..n : ItemsOf(r[k]) \subseteq items
    BY <1>3 DEF Does, Items
  <2>2. CASE i \in 1..n /\ j \in 1..n
    BY <1>3, <2>2 DEF Does, Apart
  <2>3. CASE i = n + 1 \/ j = n + 1
    BY <1>3, <1>4, <2>1, <2>3
  <2> QED
    BY <1>4, <2>2, <2>3
<1> QED
  BY <1>2, <1>3, <1>5, <1>6 DEF Does

LEMMA MergedSend ==
    ASSUME NEW w \in WriteRecord, w.do = "send", NEW u \in WriteRecord, u.do = "send"
    PROVE  \E v \in WriteRecord :
             /\ v = [w EXCEPT !.metrics = @ \cup u.metrics]
             /\ ItemsOf(v) = ItemsOf(w) \cup ItemsOf(u)
<1>1. PICK M, K : M = w.metrics /\ K = u.metrics
  OBVIOUS
<1>2. PICK v : v = [w EXCEPT !.metrics = M \cup K]
  OBVIOUS
<1>3. w \in [do : {"send"}, metrics : SUBSET (Kind \X Metric)]
  BY DEF WriteRecord
<1>4. u \in [do : {"send"}, metrics : SUBSET (Kind \X Metric)]
  BY DEF WriteRecord
<1>5. M \cup K \in SUBSET (Kind \X Metric)
  BY <1>1, <1>3, <1>4
<1>6. v \in [do : {"send"}, metrics : SUBSET (Kind \X Metric)] /\ v.metrics = M \cup K /\ v.do = "send"
  BY <1>2, <1>3, <1>5
<1>7. ItemsOf(v) = ItemsOf(w) \cup ItemsOf(u)
  <2>1. ItemsOf(v) = {<<"send", x[1], x[2]>> : x \in M \cup K}
    BY <1>6 DEF ItemsOf
  <2>2. ItemsOf(w) = {<<"send", x[1], x[2]>> : x \in M}
    BY <1>1 DEF ItemsOf
  <2>3. ItemsOf(u) = {<<"send", x[1], x[2]>> : x \in K}
    BY <1>1 DEF ItemsOf
  <2> QED
    BY <2>1, <2>2, <2>3
<1>8. v \in WriteRecord
  BY <1>6 DEF WriteRecord
<1> QED
  BY <1>1, <1>2, <1>7, <1>8

LEMMA JoinCases ==
    ASSUME NEW ws \in Writes, NEW w \in WriteRecord
    PROVE  \/ Join(ws, w) = Append(ws, w)
           \/ \E n \in Nat, v \in WriteRecord :
                /\ DOMAIN ws = 1..n /\ n \in 1..n
                /\ Join(ws, w) \in Writes /\ DOMAIN Join(ws, w) = 1..n
                /\ Join(ws, w)[n] = v /\ \A i \in 1..n : i # n => Join(ws, w)[i] = ws[i]
                /\ ItemsOf(v) = ItemsOf(w) \cup ItemsOf(ws[n])
<1>1. CASE ~(ws # <<>> /\ w.do = "send" /\ Last(ws).do = "send")
  BY <1>1 DEF Join
<1>2. CASE ws # <<>> /\ w.do = "send" /\ Last(ws).do = "send"
  <2>1. PICK n \in Nat : n = Len(ws) /\ n > 0
    BY <1>2 DEF Writes
  <2>2. DOMAIN ws = 1..n /\ n \in 1..n /\ ws[n] \in WriteRecord /\ ws[n].do = "send" /\ Last(ws) = ws[n]
    BY <1>2, <2>1 DEF Writes, Last
  <2>3. PICK v \in WriteRecord : /\ v = [w EXCEPT !.metrics = @ \cup Last(ws).metrics]
                                 /\ ItemsOf(v) = ItemsOf(w) \cup ItemsOf(ws[n])
    <3>1. PICK u \in WriteRecord : u = ws[n] /\ u = Last(ws) /\ u.do = "send"
      BY <2>2
    <3>2. w \in WriteRecord /\ w.do = "send" /\ u \in WriteRecord /\ u.do = "send"
      BY <1>2, <3>1
    <3>3. \E v \in WriteRecord :
             /\ v = [w EXCEPT !.metrics = @ \cup u.metrics]
             /\ ItemsOf(v) = ItemsOf(w) \cup ItemsOf(u)
      BY ONLY <3>2, MergedSend
    <3> QED
      BY <3>1, <3>3
  <2>4. PICK r : r = Append(Front(ws), v)
    OBVIOUS
  <2>5. Join(ws, w) = r
    BY <1>2, <2>3, <2>4 DEF Join
  <2>6. r \in Writes /\ DOMAIN r = 1..n /\ r[n] = v /\ \A i \in 1..n : i # n => r[i] = ws[i]
    <3>1. PICK f : f = Front(ws)
      OBVIOUS
    <3>2. /\ f \in Writes /\ Len(f) = n - 1
          /\ \A i \in 1..(n - 1) : f[i] = ws[i]
      BY <2>1, <3>1 DEF Front, Writes
    <3>3. r = Append(f, v)
      BY <2>4, <3>1
    <3>4. /\ r \in Writes /\ Len(r) = n - 1 + 1 /\ r[n - 1 + 1] = v
          /\ \A i \in 1..(n - 1) : r[i] = f[i]
      BY <2>1, <3>2, <3>3 DEF Writes
    <3>5. n - 1 + 1 = n /\ \A i \in 1..n : i # n => i \in 1..(n - 1)
      BY <2>1
    <3>6. DOMAIN r = 1..n
      BY <3>4, <3>5 DEF Writes
    <3> QED
      BY <3>2, <3>4, <3>5, <3>6
  <2> QED
    BY <2>2, <2>3, <2>5, <2>6
<1> QED
  BY <1>1, <1>2

LEMMA JoinType == ASSUME NEW ws \in Writes, NEW w \in WriteRecord PROVE Join(ws, w) \in Writes
<1>1. Append(ws, w) \in Writes
  BY DEF Writes
<1> QED
  BY <1>1, JoinCases

LEMMA JoinDoes ==
    ASSUME NEW ws, NEW items, Does(ws, items), NEW w \in WriteRecord, ItemsOf(w) \cap items = {}
    PROVE  Does(Join(ws, w), items \cup ItemsOf(w))
<1>1. CASE Join(ws, w) = Append(ws, w)
  BY <1>1, AppendDoes
<1>2. CASE Join(ws, w) # Append(ws, w)
  <2>1. PICK r : r = Join(ws, w)
    OBVIOUS
  <2>2. PICK n \in Nat, v \in WriteRecord :
          /\ DOMAIN ws = 1..n /\ n \in 1..n
          /\ r \in Writes /\ DOMAIN r = 1..n
          /\ r[n] = v /\ \A i \in 1..n : i # n => r[i] = ws[i]
          /\ ItemsOf(v) = ItemsOf(w) \cup ItemsOf(ws[n])
    <3>1. ws \in Writes
      BY DEF Does
    <3> QED
      BY <1>2, <2>1, <3>1, JoinCases
  <2>3. Items(r) = items \cup ItemsOf(w)
    <3>1. ASSUME NEW x PROVE x \in Items(r) <=> x \in Items(ws) \/ x \in ItemsOf(w)
      <4>1. x \in Items(r) <=> \E i \in 1..n : x \in ItemsOf(r[i])
        BY <2>2, ItemsAt
      <4>2. x \in Items(ws) <=> \E i \in 1..n : x \in ItemsOf(ws[i])
        BY <2>2, ItemsAt
      <4> QED
        BY <2>2, <4>1, <4>2
    <3> QED
      BY <3>1 DEF Does
  <2>4. Apart(r)
    <3> SUFFICES ASSUME NEW i \in 1..n, NEW j \in 1..n, i # j
                 PROVE  ItemsOf(r[i]) \cap ItemsOf(r[j]) = {}
      BY <2>2 DEF Apart
    <3>1. \A k \in 1..n : ItemsOf(ws[k]) \subseteq items
      BY <2>2 DEF Does, Items
    <3>2. ItemsOf(ws[i]) \cap ItemsOf(ws[j]) = {}
      BY <2>2 DEF Does, Apart
    <3> QED
      BY <2>2, <3>1, <3>2
  <2> QED
    BY <2>1, <2>2, <2>3, <2>4 DEF Does
<1> QED
  BY <1>1, <1>2

LEMMA ConcatDoes ==
    ASSUME NEW ws, NEW items, Does(ws, items), NEW xs, NEW more, Does(xs, more), items \cap more = {}
    PROVE  Does(ws \o xs, items \cup more)
<1>1. PICK n \in Nat, k \in Nat : n = Len(ws) /\ k = Len(xs)
  BY DEF Does, Writes
<1>2. PICK r : r = ws \o xs
  OBVIOUS
<1>3. /\ r \in Writes /\ DOMAIN r = 1..(n + k) /\ DOMAIN ws = 1..n /\ DOMAIN xs = 1..k
      /\ \A i \in 1..n : r[i] = ws[i]
      /\ \A i \in 1..(n + k) : i > n => r[i] = xs[i - n]
  BY <1>1, <1>2 DEF Does, Writes
<1>4. /\ \A i \in 1..(n + k) : i \in 1..n \/ (i > n /\ i - n \in 1..k)
      /\ \A i \in 1..n : i \in 1..(n + k)
      /\ \A i \in 1..k : i + n \in 1..(n + k) /\ i + n > n /\ (i + n) - n = i
  OBVIOUS
<1>5. Items(r) = items \cup more
  <2>1. ASSUME NEW x PROVE x \in Items(r) <=> x \in Items(ws) \/ x \in Items(xs)
    <3>1. x \in Items(r) <=> \E i \in 1..(n + k) : x \in ItemsOf(r[i])
      BY <1>3, n + k \in Nat, ItemsAt
    <3>2. x \in Items(ws) <=> \E i \in 1..n : x \in ItemsOf(ws[i])
      BY <1>3, ItemsAt
    <3>3. x \in Items(xs) <=> \E i \in 1..k : x \in ItemsOf(xs[i])
      BY <1>3, ItemsAt
    <3>4. ASSUME NEW i \in 1..k, x \in ItemsOf(xs[i]) PROVE x \in Items(r)
      <4>1. i + n \in 1..(n + k) /\ r[i + n] = xs[i]
        BY <1>3, <1>4
      <4> QED
        BY <3>1, <3>4, <4>1
    <3>5. ASSUME NEW i \in 1..(n + k), x \in ItemsOf(r[i]) PROVE x \in Items(ws) \/ x \in Items(xs)
      BY <1>3, <1>4, <3>2, <3>3, <3>5
    <3>6. ASSUME NEW i \in 1..n, x \in ItemsOf(ws[i]) PROVE x \in Items(r)
      BY <1>3, <1>4, <3>1, <3>6
    <3> QED
      BY <3>1, <3>2, <3>3, <3>4, <3>5, <3>6
  <2> QED
    BY <2>1 DEF Does
<1>6. Apart(r)
  <2> SUFFICES ASSUME NEW i \in 1..(n + k), NEW j \in 1..(n + k), i # j
               PROVE  ItemsOf(r[i]) \cap ItemsOf(r[j]) = {}
    BY <1>3 DEF Apart
  <2>1. \A a \in 1..n : ItemsOf(r[a]) \subseteq items
    BY <1>3 DEF Does, Items
  <2>2. ASSUME NEW a \in 1..(n + k), a > n PROVE ItemsOf(r[a]) \subseteq more /\ a - n \in 1..k
    BY <1>3, <1>4, <2>2 DEF Does, Items
  <2>3. CASE i \in 1..n /\ j \in 1..n
    BY <1>3, <2>3 DEF Does, Apart
  <2>4. CASE i > n /\ j > n
    <3>1. i - n \in 1..k /\ j - n \in 1..k /\ i - n # j - n
      BY <2>2, <2>4
    <3> QED
      BY <1>3, <2>4, <3>1 DEF Does, Apart
  <2>5. CASE (i \in 1..n /\ j > n) \/ (j \in 1..n /\ i > n)
    BY <2>1, <2>2, <2>5
  <2> QED
    BY <1>4, <2>3, <2>4, <2>5
<1> QED
  BY <1>2, <1>3, <1>5, <1>6 DEF Does

LEMMA NoZeroWrites ==
    ASSUME NEW ws, NEW items, Does(ws, items), NoZero(items)
    PROVE  ZerosFirst(ws) /\ \A i \in DOMAIN ws : ws[i].do # "zero"
<1>1. ASSUME NEW i \in DOMAIN ws, ws[i].do = "zero" PROVE FALSE
  <2>1. <<"zero", "default", ws[i].metric>> \in ItemsOf(ws[i])
    BY <1>1 DEF ItemsOf
  <2>2. ItemsOf(ws[i]) \subseteq items
    BY DEF Does, Items
  <2> QED
    BY <2>1, <2>2 DEF NoZero
<1> QED
  BY <1>1 DEF ZerosFirst

\* The first write, and what is left.
LEMMA TailDoes ==
    ASSUME NEW ws, NEW items, Does(ws, items), ws # <<>>
    PROVE  /\ Head(ws) \in WriteRecord /\ ItemsOf(Head(ws)) \subseteq items
           /\ Does(Tail(ws), items \ ItemsOf(Head(ws)))
           /\ ZerosFirst(ws) => ZerosFirst(Tail(ws))
           /\ ZerosFirst(ws) /\ Head(ws).do # "zero" => NoZero(items)
<1>1. PICK n \in Nat : n = Len(ws) /\ n > 0
  BY DEF Does, Writes
<1>2. PICK r : r = Tail(ws)
  OBVIOUS
<1>3. /\ r \in Writes /\ DOMAIN r = 1..(n - 1) /\ DOMAIN ws = 1..n
      /\ \A i \in 1..(n - 1) : r[i] = ws[i + 1]
      /\ Head(ws) = ws[1] /\ 1 \in 1..n /\ \A i \in 1..n : ws[i] \in WriteRecord
  BY <1>1, <1>2 DEF Does, Writes
<1>4. /\ \A i \in 1..(n - 1) : i + 1 \in 1..n /\ i + 1 # 1
      /\ \A i \in 1..n : i # 1 => i - 1 \in 1..(n - 1) /\ (i - 1) + 1 = i
  BY <1>1
<1>5. ItemsOf(ws[1]) \subseteq items
  BY <1>3 DEF Does, Items
<1>6. Items(r) = items \ ItemsOf(ws[1])
  <2>1. ASSUME NEW x PROVE x \in Items(r) <=> x \in Items(ws) /\ x \notin ItemsOf(ws[1])
    <3>1. n - 1 \in Nat
      BY <1>1
    <3>2. x \in Items(r) <=> \E i \in 1..(n - 1) : x \in ItemsOf(r[i])
      BY <1>3, <3>1, ItemsAt
    <3>3. x \in Items(ws) <=> \E i \in 1..n : x \in ItemsOf(ws[i])
      BY <1>3, ItemsAt
    <3>4. ASSUME NEW i \in 1..(n - 1), x \in ItemsOf(r[i]) PROVE x \in Items(ws) /\ x \notin ItemsOf(ws[1])
      <4>1. i + 1 \in 1..n /\ i + 1 # 1 /\ x \in ItemsOf(ws[i + 1])
        BY <1>3, <1>4, <3>4
      <4> QED
        BY <1>3, <3>3, <4>1 DEF Does, Apart
    <3>5. ASSUME NEW i \in 1..n, x \in ItemsOf(ws[i]), x \notin ItemsOf(ws[1]) PROVE x \in Items(r)
      <4>1. i - 1 \in 1..(n - 1) /\ r[i - 1] = ws[i]
        BY <1>3, <1>4, <3>5
      <4> QED
        BY <3>2, <3>5, <4>1
    <3> QED
      BY <3>2, <3>3, <3>4, <3>5
  <2> QED
    BY <2>1 DEF Does
<1>7. Apart(r)
  <2> SUFFICES ASSUME NEW i \in 1..(n - 1), NEW j \in 1..(n - 1), i # j
               PROVE  ItemsOf(r[i]) \cap ItemsOf(r[j]) = {}
    BY <1>3 DEF Apart
  <2>1. i + 1 \in 1..n /\ j + 1 \in 1..n /\ i + 1 # j + 1
    BY <1>4
  <2> QED
    BY <1>3, <2>1 DEF Does, Apart
<1>8. ZerosFirst(ws) => ZerosFirst(r)
  <2> SUFFICES ASSUME ZerosFirst(ws), NEW i \in 1..(n - 1), NEW j \in 1..(n - 1), i < j, r[j].do = "zero"
               PROVE  r[i].do = "zero"
    BY <1>3 DEF ZerosFirst
  <2>1. i + 1 \in 1..n /\ j + 1 \in 1..n /\ i + 1 < j + 1 /\ ws[j + 1].do = "zero"
    BY <1>3, <1>4
  <2>2. ws[i + 1].do = "zero"
    BY <1>3, <2>1 DEF ZerosFirst
  <2> QED
    BY <1>3, <2>2
<1>9. ZerosFirst(ws) /\ ws[1].do # "zero" => NoZero(items)
  <2> SUFFICES ASSUME ZerosFirst(ws), ws[1].do # "zero", NEW x \in items PROVE x[1] # "zero"
    BY DEF NoZero
  <2>1. PICK i \in 1..n : x \in ItemsOf(ws[i])
    BY <1>3 DEF Does, Items
  <2>2. ws[i].do # "zero"
    <3>1. i = 1 \/ 1 < i
      OBVIOUS
    <3> QED
      BY <1>3, <3>1 DEF ZerosFirst
  <2> QED
    BY <1>3, <2>1, <2>2 DEF ItemsOf, WriteRecord
<1> QED
  BY <1>2, <1>3, <1>5, <1>6, <1>7, <1>8, <1>9 DEF Does

----------------------------------------------------------------------------
(* Folds over sequences.                                                   *)

\* The places of a sequence, and how FoldLeft goes through them.
LEMMA Places ==
    ASSUME NEW E, NEW seq \in Seq(E)
    PROVE  /\ IsFiniteSet(DOMAIN seq) /\ \A i \in DOMAIN seq : seq[i] \in E
           /\ \A T \in SUBSET DOMAIN seq : T # {} => Max(T) \in T
<1>1. PICK n \in Nat : DOMAIN seq = 1..n
  OBVIOUS
<1>2. IsFiniteSet(1..n) /\ 1..n \in SUBSET Int
  BY FS_Interval
<1>3. ASSUME NEW T \in SUBSET (1..n), T # {} PROVE Max(T) \in T
  <2>1. IsFiniteSet(T) /\ T \in SUBSET Int
    BY <1>2, FS_Subset
  <2> QED
    BY <1>3, <2>1, MaxOf
<1> QED
  BY <1>1, <1>2, <1>3

LEMMA FoldJoinIter ==
    ASSUME NEW ws \in Writes, NEW seq \in Writes
    PROVE  \E g \in [SUBSET DOMAIN seq -> Writes] :
             /\ JoinAll(ws, seq) = g[DOMAIN seq]
             /\ g[{}] = ws
             /\ \A T \in SUBSET DOMAIN seq : T # {} => g[T] = Join(g[T \ {Max(T)}], seq[Max(T)])
<1>d. PICK S : S = DOMAIN seq
  OBVIOUS
<1>s. /\ IsFiniteSet(S) /\ \A i \in S : seq[i] \in WriteRecord
      /\ \A T \in SUBSET S : T # {} => Max(T) \in T
  BY <1>d, Places DEF Writes
<1> DEFINE Solves(g) == g = [s \in SUBSET S |-> IF s = {} THEN ws ELSE Join(g[s \ {Max(s)}], seq[Max(s)])]
           iter == CHOOSE g : Solves(g)
           step == [xv \in S \X Writes |-> Join(xv[2], seq[xv[1]])]
           pick == [T \in SUBSET S |-> Max(T)]
<1>1. JoinAll(ws, seq) = iter[S]
  BY <1>d DEF JoinAll, FoldLeft, MapThenFoldSet
<1>2. step \in [S \X Writes -> Writes] /\ \A x \in S, v \in Writes : step[<<x, v>>] = Join(v, seq[x])
  BY <1>s, JoinType
<1>3. \A T \in SUBSET S : T # {} => pick[T] \in T /\ pick[T] = Max(T)
  BY <1>s
<1> HIDE DEF step, pick
<1>4. PICK g \in [SUBSET S -> Writes] : IsIter(g, ws, step, pick, S)
  <2>1. \E g \in [SUBSET S -> Writes] : IsIter(g, ws, step, pick, S)
    BY <1>s, <1>2, <1>3, IterExists
  <2> QED
    BY <2>1
<1>5. ASSUME NEW s \in SUBSET S
      PROVE  g[s] = IF s = {} THEN ws ELSE Join(g[s \ {Max(s)}], seq[Max(s)])
  <2>1. CASE s = {}
    BY <1>4, <2>1 DEF IsIter
  <2>2. CASE s # {}
    <3>1. PICK x \in s : x = Max(s) /\ x = pick[s]
      BY <1>3, <2>2
    <3>2. g[s] = step[<<x, g[s \ {x}]>>] /\ g[s \ {x}] \in Writes
      BY <1>4, <2>2, <3>1 DEF IsIter
    <3> QED
      BY <1>2, <2>2, <3>1, <3>2
  <2> QED
    BY <2>1, <2>2
<1>6. Solves(g)
  BY <1>4, <1>5
<1>7. Solves(iter)
  BY <1>6
<1> HIDE DEF iter
<1> DEFINE Good == {T \in SUBSET S : iter[T] = g[T]}
<1>8. ASSUME NEW T \in SUBSET S, \A U \in SUBSET T : U # T => U \in Good PROVE T \in Good
  <2>1. iter[T] = IF T = {} THEN ws ELSE Join(iter[T \ {Max(T)}], seq[Max(T)])
    BY <1>7
  <2>2. T # {} => iter[T \ {Max(T)}] = g[T \ {Max(T)}]
    BY <1>s, <1>8
  <2> QED
    BY <1>5, <2>1, <2>2
<1> HIDE DEF Good
<1>9. \A T \in SUBSET S : T \in Good
  BY <1>s, <1>8, SubsetInduction
<1>10. iter[S] = g[S]
  BY <1>9 DEF Good
<1> QED
  BY <1>d, <1>1, <1>4, <1>5, <1>10

LEMMA FoldJoinType == ASSUME NEW ws \in Writes, NEW seq \in Writes PROVE JoinAll(ws, seq) \in Writes
<1>1. PICK g \in [SUBSET DOMAIN seq -> Writes] : JoinAll(ws, seq) = g[DOMAIN seq]
  <2>1. ws \in Writes /\ seq \in Writes
    OBVIOUS
  <2>2. \E g \in [SUBSET DOMAIN seq -> Writes] :
           /\ JoinAll(ws, seq) = g[DOMAIN seq]
           /\ g[{}] = ws
           /\ \A T \in SUBSET DOMAIN seq : T # {} => g[T] = Join(g[T \ {Max(T)}], seq[Max(T)])
    BY ONLY <2>1, FoldJoinIter
  <2> QED
    BY <2>2
<1>2. DOMAIN seq \in SUBSET DOMAIN seq
  OBVIOUS
<1> QED
  BY <1>1, <1>2

LEMMA FoldJoinDoes ==
    ASSUME NEW ws, NEW items, Does(ws, items), NEW seq, NEW more, Does(seq, more), items \cap more = {}
    PROVE  Does(JoinAll(ws, seq), items \cup more)
<1>1. ws \in Writes /\ seq \in Writes
  BY DEF Does
<1>2. PICK S : S = DOMAIN seq
  OBVIOUS
<1>3. PICK g \in [SUBSET S -> Writes] :
         /\ JoinAll(ws, seq) = g[S]
         /\ g[{}] = ws
         /\ \A T \in SUBSET S : T # {} => g[T] = Join(g[T \ {Max(T)}], seq[Max(T)])
  <2>1. \E g \in [SUBSET DOMAIN seq -> Writes] :
           /\ JoinAll(ws, seq) = g[DOMAIN seq]
           /\ g[{}] = ws
           /\ \A T \in SUBSET DOMAIN seq : T # {} => g[T] = Join(g[T \ {Max(T)}], seq[Max(T)])
    BY ONLY <1>1, FoldJoinIter
  <2> QED
    BY <1>2, <2>1
<1>4. /\ IsFiniteSet(S) /\ \A i \in S : seq[i] \in WriteRecord
      /\ \A T \in SUBSET S : T # {} => Max(T) \in T
  BY <1>1, <1>2, Places DEF Writes
<1> DEFINE Of(T) == UNION {ItemsOf(seq[i]) : i \in T}
           Good == {T \in SUBSET S : Does(g[T], items \cup Of(T))}
<1>5. ASSUME NEW T \in SUBSET S, \A U \in SUBSET T : U # T => U \in Good PROVE T \in Good
  <2>1. CASE T = {}
    <3>1. items \cup Of(T) = items
      BY <2>1
    <3> QED
      BY <1>3, <2>1, <3>1
  <2>2. CASE T # {}
    <3>1. PICK x \in T : x = Max(T)
      BY <1>4, <2>2
    <3>2. T \ {x} \in SUBSET T /\ T \ {x} # T
      OBVIOUS
    <3>3. PICK rest : rest = items \cup Of(T \ {x})
      OBVIOUS
    <3>4. Does(g[T \ {x}], rest)
      BY <1>5, <3>2, <3>3
    <3>5. seq[x] \in WriteRecord /\ g[T] = Join(g[T \ {x}], seq[x])
      BY <1>3, <1>4, <2>2, <3>1
    <3>6. ItemsOf(seq[x]) \cap rest = {} /\ rest \cup ItemsOf(seq[x]) = items \cup Of(T)
      <4>1. ItemsOf(seq[x]) \subseteq more
        BY <1>2, <3>1 DEF Does, Items
      <4>2. \A i \in T \ {x} : ItemsOf(seq[x]) \cap ItemsOf(seq[i]) = {}
        BY <1>2, <3>1 DEF Does, Apart
      <4> QED
        BY <3>1, <3>3, <4>1, <4>2
    <3>7. Does(Join(g[T \ {x}], seq[x]), rest \cup ItemsOf(seq[x]))
      BY <3>4, <3>5, <3>6, JoinDoes
    <3> QED
      BY <3>5, <3>6, <3>7
  <2> QED
    BY <2>1, <2>2
<1> HIDE DEF Good
<1>6. \A T \in SUBSET S : T \in Good
  BY <1>4, <1>5, SubsetInduction
<1>7. Does(g[S], items \cup Of(S))
  <2>1. S \in Good
    BY <1>6
  <2> QED
    BY <2>1 DEF Good
<1>8. Of(S) = more
  BY <1>2 DEF Does, Items
<1> QED
  BY <1>3, <1>7, <1>8

\* What is left of the writes of a forgotten circuit.
ForPlugins(items) == {x \in items : x[1] \in {"send", "gauge"}}
PluginWrite(w) == w.do \in {"send", "gauge"}
Keep(left, w) == IF PluginWrite(w) THEN Append(left, w) ELSE left

LEMMA ToPluginsIter ==
    ASSUME NEW seq \in Writes
    PROVE  \E g : /\ ToPlugins(seq) = g[DOMAIN seq]
                  /\ g[{}] = <<>>
                  /\ \A T \in SUBSET DOMAIN seq : T # {} => g[T] = Keep(g[T \ {Max(T)}], seq[Max(T)])
<1>d. PICK S : S = DOMAIN seq
  OBVIOUS
<1>s. /\ IsFiniteSet(S) /\ \A i \in S : seq[i] \in WriteRecord
      /\ \A T \in SUBSET S : T # {} => Max(T) \in T
  BY <1>d, Places DEF Writes
<1> DEFINE Solves(g) ==
             g = [s \in SUBSET S |-> IF s = {} THEN <<>>
                                     ELSE IF seq[Max(s)].do \in {"send", "gauge"}
                                          THEN Append(g[s \ {Max(s)}], seq[Max(s)])
                                          ELSE g[s \ {Max(s)}]]
           iter == CHOOSE g : Solves(g)
           step == [xv \in S \X Writes |-> Keep(xv[2], seq[xv[1]])]
           pick == [T \in SUBSET S |-> Max(T)]
<1>1. ToPlugins(seq) = iter[S]
  BY <1>d DEF ToPlugins, FoldLeft, MapThenFoldSet
<1>2. step \in [S \X Writes -> Writes] /\ \A x \in S, v \in Writes : step[<<x, v>>] = Keep(v, seq[x])
  <2>1. ASSUME NEW x \in S, NEW v \in Writes PROVE Keep(v, seq[x]) \in Writes
    BY <1>s DEF Keep, Writes
  <2> QED
    BY <2>1
<1>3. \A T \in SUBSET S : T # {} => pick[T] \in T /\ pick[T] = Max(T)
  BY <1>s
<1>e. <<>> \in Writes
  BY DEF Writes
<1> HIDE DEF step, pick
<1>4. PICK g \in [SUBSET S -> Writes] : IsIter(g, <<>>, step, pick, S)
  <2>1. \E g \in [SUBSET S -> Writes] : IsIter(g, <<>>, step, pick, S)
    BY <1>e, <1>s, <1>2, <1>3, IterExists
  <2> QED
    BY <2>1
<1>5. ASSUME NEW s \in SUBSET S
      PROVE  g[s] = IF s = {} THEN <<>> ELSE Keep(g[s \ {Max(s)}], seq[Max(s)])
  <2>1. CASE s = {}
    BY <1>4, <2>1 DEF IsIter
  <2>2. CASE s # {}
    <3>1. PICK x \in s : x = Max(s) /\ x = pick[s]
      BY <1>3, <2>2
    <3>2. g[s] = step[<<x, g[s \ {x}]>>] /\ g[s \ {x}] \in Writes
      BY <1>4, <2>2, <3>1 DEF IsIter
    <3> QED
      BY <1>2, <2>2, <3>1, <3>2
  <2> QED
    BY <2>1, <2>2
<1>6. Solves(g)
  BY <1>4, <1>5 DEF Keep, PluginWrite
<1>7. Solves(iter)
  BY <1>6
<1> HIDE DEF iter
<1>8. iter[{}] = <<>> /\ \A T \in SUBSET S : T # {} => iter[T] = Keep(iter[T \ {Max(T)}], seq[Max(T)])
  BY <1>7 DEF Keep, PluginWrite
<1> QED
  BY <1>d, <1>1, <1>8

LEMMA WriteKept ==
    ASSUME NEW w \in WriteRecord
    PROVE  IF PluginWrite(w) THEN ForPlugins(ItemsOf(w)) = ItemsOf(w) ELSE ForPlugins(ItemsOf(w)) = {}
<1>1. CASE w.do = "send"
  BY <1>1 DEF PluginWrite, ForPlugins, ItemsOf
<1>2. CASE w.do = "gauge"
  BY <1>2 DEF PluginWrite, ForPlugins, ItemsOf
<1>3. CASE w.do \notin {"send", "gauge"}
  BY <1>3 DEF PluginWrite, ForPlugins, ItemsOf
<1> QED
  BY <1>1, <1>2, <1>3

LEMMA ToPluginsDoes ==
    ASSUME NEW seq, NEW items, Does(seq, items)
    PROVE  Does(ToPlugins(seq), ForPlugins(items)) /\ ZerosFirst(ToPlugins(seq))
<1>1. seq \in Writes
  BY DEF Does
<1>2. PICK S : S = DOMAIN seq
  OBVIOUS
<1>3. PICK g : /\ ToPlugins(seq) = g[S]
               /\ g[{}] = <<>>
               /\ \A T \in SUBSET S : T # {} => g[T] = Keep(g[T \ {Max(T)}], seq[Max(T)])
  <2>1. \E g : /\ ToPlugins(seq) = g[DOMAIN seq]
               /\ g[{}] = <<>>
               /\ \A T \in SUBSET DOMAIN seq : T # {} => g[T] = Keep(g[T \ {Max(T)}], seq[Max(T)])
    BY ONLY <1>1, ToPluginsIter
  <2> QED
    BY <1>2, <2>1
<1>4. /\ IsFiniteSet(S) /\ \A i \in S : seq[i] \in WriteRecord
      /\ \A T \in SUBSET S : T # {} => Max(T) \in T
  BY <1>1, <1>2, Places DEF Writes
<1> DEFINE Of(T) == UNION {ForPlugins(ItemsOf(seq[i])) : i \in T}
           Good == {T \in SUBSET S : Does(g[T], Of(T))}
<1>5. ASSUME NEW T \in SUBSET S, \A U \in SUBSET T : U # T => U \in Good PROVE T \in Good
  <2>1. CASE T = {}
    <3>1. Of(T) = {} /\ g[T] = <<>>
      BY <1>3, <2>1
    <3> HIDE DEF Of
    <3> QED
      BY <3>1, EmptyDoes
  <2>2. CASE T # {}
    <3>1. PICK x \in T : x = Max(T)
      BY <1>4, <2>2
    <3>2. T \ {x} \in SUBSET T /\ T \ {x} # T
      OBVIOUS
    <3>3. PICK rest, ws, w : rest = Of(T \ {x}) /\ ws = g[T \ {x}] /\ w = seq[x]
      OBVIOUS
    <3>4. Does(ws, rest)
      BY <1>5, <3>2, <3>3
    <3>5. w \in WriteRecord /\ g[T] = Keep(ws, w)
      BY <1>3, <1>4, <2>2, <3>1, <3>3
    <3>6. Of(T) = rest \cup ForPlugins(ItemsOf(w))
      BY <3>1, <3>3
    <3>7. ItemsOf(w) \cap rest = {}
      <4>1. \A i \in T \ {x} : ItemsOf(seq[x]) \cap ItemsOf(seq[i]) = {}
        BY <1>2, <3>1 DEF Does, Apart
      <4>2. \A i \in T \ {x} : ForPlugins(ItemsOf(seq[i])) \subseteq ItemsOf(seq[i])
        BY DEF ForPlugins
      <4> QED
        BY <3>3, <4>1, <4>2
    <3> HIDE DEF Of
    <3>8. CASE PluginWrite(w)
      <4>1. Does(Append(ws, w), rest \cup ItemsOf(w))
        BY <3>4, <3>5, <3>7, AppendDoes
      <4>2. ForPlugins(ItemsOf(w)) = ItemsOf(w)
        BY <3>5, <3>8, WriteKept
      <4> QED
        BY <3>5, <3>6, <3>8, <4>1, <4>2 DEF Keep
    <3>9. CASE ~PluginWrite(w)
      <4>1. ForPlugins(ItemsOf(w)) = {}
        BY <3>5, <3>9, WriteKept
      <4>2. Of(T) = rest /\ g[T] = ws
        BY <3>5, <3>6, <3>9, <4>1 DEF Keep
      <4> QED
        BY <3>4, <4>2
    <3> QED
      BY <3>8, <3>9
  <2> QED
    BY <2>1, <2>2
<1> HIDE DEF Good
<1>6. \A T \in SUBSET S : T \in Good
  BY <1>4, <1>5, SubsetInduction
<1>7. Does(g[S], Of(S))
  <2>1. S \in Good
    BY <1>6
  <2> QED
    BY <2>1 DEF Good
<1>8. Of(S) = ForPlugins(items)
  <2>1. items = UNION {ItemsOf(seq[i]) : i \in S}
    BY <1>2 DEF Does, Items
  <2> QED
    BY <2>1 DEF ForPlugins
<1>9. Does(ToPlugins(seq), ForPlugins(items))
  BY <1>3, <1>7, <1>8
<1>10. NoZero(ForPlugins(items))
  BY DEF NoZero, ForPlugins
<1> QED
  BY <1>9, <1>10, NoZeroWrites

LEMMA ToPluginsEmpty == ToPlugins(<<>>) = <<>>
<1>1. <<>> \in Writes /\ DOMAIN <<>> = {}
  BY DEF Writes
<1>2. PICK g : ToPlugins(<<>>) = g[DOMAIN <<>>] /\ g[{}] = <<>>
  BY <1>1, ToPluginsIter
<1> QED
  BY <1>1, <1>2

\* EachOf writes each of a sequence of different metrics that is in a set.
WriteIn(writes, do, m, M) == IF m \in M THEN Append(writes, Write(do, m)) ELSE writes

LEMMA EachOfIter ==
    ASSUME NEW do \in {"add", "zero"}, NEW metrics \in Seq(Metric), NEW M
    PROVE  \E g : /\ EachOf(do, metrics, M) = g[DOMAIN metrics]
                  /\ g[{}] = <<>>
                  /\ \A T \in SUBSET DOMAIN metrics :
                       T # {} => g[T] = WriteIn(g[T \ {Max(T)}], do, metrics[Max(T)], M)
<1>d. PICK S : S = DOMAIN metrics
  OBVIOUS
<1>s. /\ IsFiniteSet(S) /\ \A i \in S : metrics[i] \in Metric
      /\ \A T \in SUBSET S : T # {} => Max(T) \in T
  BY <1>d, Places
<1> DEFINE Solves(g) ==
             g = [s \in SUBSET S |-> IF s = {} THEN <<>>
                                     ELSE IF metrics[Max(s)] \in M
                                          THEN Append(g[s \ {Max(s)}], Write(do, metrics[Max(s)]))
                                          ELSE g[s \ {Max(s)}]]
           iter == CHOOSE g : Solves(g)
           step == [xv \in S \X Writes |-> WriteIn(xv[2], do, metrics[xv[1]], M)]
           pick == [T \in SUBSET S |-> Max(T)]
<1>1. EachOf(do, metrics, M) = iter[S]
  BY <1>d DEF EachOf, FoldLeft, MapThenFoldSet
<1>2. step \in [S \X Writes -> Writes] /\ \A x \in S, v \in Writes : step[<<x, v>>] = WriteIn(v, do, metrics[x], M)
  <2>1. ASSUME NEW x \in S, NEW v \in Writes PROVE WriteIn(v, do, metrics[x], M) \in Writes
    <3>1. Write(do, metrics[x]) \in WriteRecord
      BY <1>s, WriteTypes
    <3> QED
      BY <3>1 DEF WriteIn, Writes
  <2> QED
    BY <2>1
<1>3. \A T \in SUBSET S : T # {} => pick[T] \in T /\ pick[T] = Max(T)
  BY <1>s
<1>e. <<>> \in Writes
  BY DEF Writes
<1> HIDE DEF step, pick
<1>4. PICK g \in [SUBSET S -> Writes] : IsIter(g, <<>>, step, pick, S)
  <2>1. \E g \in [SUBSET S -> Writes] : IsIter(g, <<>>, step, pick, S)
    BY <1>e, <1>s, <1>2, <1>3, IterExists
  <2> QED
    BY <2>1
<1>5. ASSUME NEW s \in SUBSET S
      PROVE  g[s] = IF s = {} THEN <<>> ELSE WriteIn(g[s \ {Max(s)}], do, metrics[Max(s)], M)
  <2>1. CASE s = {}
    BY <1>4, <2>1 DEF IsIter
  <2>2. CASE s # {}
    <3>1. PICK x \in s : x = Max(s) /\ x = pick[s]
      BY <1>3, <2>2
    <3>2. g[s] = step[<<x, g[s \ {x}]>>] /\ g[s \ {x}] \in Writes
      BY <1>4, <2>2, <3>1 DEF IsIter
    <3> QED
      BY <1>2, <2>2, <3>1, <3>2
  <2> QED
    BY <2>1, <2>2
<1>6. Solves(g)
  BY <1>4, <1>5 DEF WriteIn
<1>7. Solves(iter)
  BY <1>6
<1> HIDE DEF iter
<1>8. iter[{}] = <<>> /\ \A T \in SUBSET S : T # {} => iter[T] = WriteIn(iter[T \ {Max(T)}], do, metrics[Max(T)], M)
  BY <1>7 DEF WriteIn
<1> QED
  BY <1>d, <1>1, <1>8

LEMMA EachOfDoes ==
    ASSUME NEW do \in {"add", "zero"}, NEW metrics \in Seq(Metric), IsInjective(metrics), NEW M
    PROVE  /\ Does(EachOf(do, metrics, M), {<<do, "default", m>> : m \in Range(metrics) \cap M})
           /\ \A i \in DOMAIN EachOf(do, metrics, M) : EachOf(do, metrics, M)[i].do = do
<1>1. PICK S : S = DOMAIN metrics
  OBVIOUS
<1>2. PICK g : /\ EachOf(do, metrics, M) = g[S]
               /\ g[{}] = <<>>
               /\ \A T \in SUBSET S : T # {} => g[T] = WriteIn(g[T \ {Max(T)}], do, metrics[Max(T)], M)
  <2>1. \E g : /\ EachOf(do, metrics, M) = g[DOMAIN metrics]
               /\ g[{}] = <<>>
               /\ \A T \in SUBSET DOMAIN metrics :
                    T # {} => g[T] = WriteIn(g[T \ {Max(T)}], do, metrics[Max(T)], M)
    BY EachOfIter
  <2> QED
    BY <1>1, <2>1
<1>3. /\ IsFiniteSet(S) /\ \A i \in S : metrics[i] \in Metric
      /\ \A T \in SUBSET S : T # {} => Max(T) \in T
  BY <1>1, Places
<1> DEFINE Of(T) == {<<do, "default", m>> : m \in {metrics[i] : i \in T} \cap M}
           Good == {T \in SUBSET S : Does(g[T], Of(T)) /\ \A i \in DOMAIN g[T] : g[T][i].do = do}
<1>4. ASSUME NEW T \in SUBSET S, \A U \in SUBSET T : U # T => U \in Good PROVE T \in Good
  <2>1. CASE T = {}
    <3>1. Of(T) = {} /\ g[T] = <<>>
      BY <1>2, <2>1
    <3>2. Does(g[T], Of(T))
      BY <3>1, EmptyDoes
    <3>3. DOMAIN g[T] = {}
      BY <3>1
    <3> HIDE DEF Of
    <3> QED
      BY <3>2, <3>3
  <2>2. CASE T # {}
    <3>1. PICK x \in T : x = Max(T)
      BY <1>3, <2>2
    <3>2. T \ {x} \in SUBSET T /\ T \ {x} # T
      OBVIOUS
    <3>3. PICK rest, ws, m : rest = Of(T \ {x}) /\ ws = g[T \ {x}] /\ m = metrics[x]
      OBVIOUS
    <3>4. Does(ws, rest) /\ \A i \in DOMAIN ws : ws[i].do = do
      BY <1>4, <3>2, <3>3
    <3>5. g[T] = WriteIn(ws, do, m, M) /\ m \in Metric
      BY <1>2, <1>3, <2>2, <3>1, <3>3
    <3>6. {metrics[i] : i \in T} = {metrics[i] : i \in T \ {x}} \cup {m}
      BY <3>1, <3>3
    <3>7. CASE m \notin M
      <4>1. Of(T) = rest
        BY <3>3, <3>6, <3>7
      <4>2. g[T] = ws
        BY <3>5, <3>7 DEF WriteIn
      <4> HIDE DEF Of
      <4> QED
        BY <3>4, <4>1, <4>2
    <3>8. CASE m \in M
      <4>1. Of(T) = rest \cup {<<do, "default", m>>}
        BY <3>3, <3>6, <3>8
      <4>2. m \notin {metrics[i] : i \in T \ {x}}
        BY <1>1, <3>1, <3>3 DEF IsInjective
      <4>3. <<do, "default", m>> \notin rest
        BY <3>3, <4>2
      <4>4. PICK w \in WriteRecord : w = Write(do, m) /\ ItemsOf(w) = {<<do, "default", m>>} /\ w.do = do
        <5>1. Write(do, m).do = do
          BY DEF Write
        <5> QED
          BY <3>5, <5>1, WriteTypes
      <4>5. g[T] = Append(ws, w)
        BY <3>5, <3>8, <4>4 DEF WriteIn
      <4>6. ItemsOf(w) \cap rest = {}
        BY <4>3, <4>4
      <4>7. Does(Append(ws, w), rest \cup ItemsOf(w))
        BY <3>4, <4>6, AppendDoes
      <4>8. \A i \in DOMAIN Append(ws, w) : Append(ws, w)[i].do = do
        <5>1. ws \in Writes
          BY <3>4 DEF Does
        <5>2. PICK n \in Nat : n = Len(ws)
          BY <5>1 DEF Writes
        <5>3. /\ DOMAIN Append(ws, w) = 1..(n + 1) /\ DOMAIN ws = 1..n
              /\ Append(ws, w)[n + 1] = w /\ \A i \in 1..n : Append(ws, w)[i] = ws[i]
          BY <5>1, <5>2 DEF Writes
        <5> QED
          BY <3>4, <4>4, <5>3
      <4>9. rest \cup ItemsOf(w) = Of(T)
        BY <4>1, <4>4
      <4> HIDE DEF Of
      <4> QED
        BY <4>5, <4>7, <4>8, <4>9
    <3> QED
      BY <3>7, <3>8
  <2> QED
    BY <2>1, <2>2
<1> HIDE DEF Good
<1>5. \A T \in SUBSET S : T \in Good
  BY <1>3, <1>4, SubsetInduction
<1>6. S \in Good
  BY <1>5
<1>7. Of(S) = {<<do, "default", m>> : m \in Range(metrics) \cap M}
  BY <1>1 DEF Range
<1> HIDE DEF Of
<1> QED
  BY <1>2, <1>6, <1>7 DEF Good

----------------------------------------------------------------------------
(* What Reset and Update write.                                            *)

ZeroItems == {ZeroOf(m) : m \in Used}
AllItems(result) == UNION {UpdateItems(c, result) : c \in Collector}

LEMMA MetricNames ==
    Metric = {"attempts", "errors", "successes", "failures", "rejects", "shortCircuits", "timeouts",
              "fallbackSuccesses", "fallbackFailures", "contextCanceled", "contextDeadlineExceeded",
              "totalDuration", "runDuration"}
BY DEF Metric, Basic, Context, Durations

\* The fields of a result.
LEMMA ResultTypes ==
    ASSUME NEW p \in PrimaryEvents, NEW s \in {"", "fallback-success", "fallback-failure"}
    PROVE  BuildResult(p, s) \subseteq Basic \cup Context
BY DEF BuildResult, CounterOf, PrimaryEvents, Basic, Context

LEMMA UsedTypes == Used \subseteq Metric
BY DEF Used, Metric

LEMMA DefaultDoes ==
    ASSUME NEW R \in SUBSET (Basic \cup Context)
    PROVE  Does(DefaultUpdate(R), UpdateItems("default", R))
<1> DEFINE ms == <<"attempts", "errors", "successes", "failures", "rejects", "shortCircuits", "timeouts",
                   "fallbackSuccesses", "fallbackFailures", "contextCanceled", "contextDeadlineExceeded">>
<1>1. ms \in Seq(Metric) /\ IsInjective(ms)
  BY MetricNames DEF IsInjective
<1>2. Range(ms) = Basic \cup Context
  BY DEF Range, Basic, Context
<1>3. DefaultUpdate(R) = EachOf("add", ms, R) \o <<Write("loadTiming", "totalDuration")>>
  BY DEF DefaultUpdate
<1> HIDE DEF ms
<1>4. PICK ws, items : /\ ws = EachOf("add", ms, R)
                       /\ items = {<<"add", "default", m>> : m \in Range(ms) \cap R}
                       /\ Does(ws, items)
  BY <1>1, EachOfDoes
<1>5. PICK w \in WriteRecord : w = Write("loadTiming", "totalDuration") /\ ItemsOf(w) = {Timing}
  BY MetricNames, WriteTypes DEF Timing
<1>6. ws \o <<w>> = Append(ws, w)
  BY <1>4 DEF Does, Writes
<1>7. ItemsOf(w) \cap items = {}
  BY <1>4, <1>5 DEF Timing
<1>8. Does(Append(ws, w), items \cup ItemsOf(w))
  BY <1>4, <1>7, AppendDoes
<1>9. items \cup ItemsOf(w) = UpdateItems("default", R)
  BY <1>2, <1>4, <1>5 DEF UpdateItems, AddOf
<1> QED
  BY <1>3, <1>4, <1>5, <1>6, <1>8, <1>9

LEMMA ResetDoes == Does(Reset, ZeroItems) /\ \A i \in DOMAIN Reset : Reset[i].do = "zero"
<1> DEFINE ms == <<"attempts", "errors", "successes", "rejects", "shortCircuits", "failures", "timeouts",
                   "fallbackSuccesses", "fallbackFailures", "contextCanceled", "contextDeadlineExceeded",
                   "totalDuration", "runDuration">>
<1>1. ms \in Seq(Metric) /\ IsInjective(ms)
  BY MetricNames DEF IsInjective
<1>2. Range(ms) = Metric
  BY MetricNames DEF Range
<1>3. Reset = EachOf("zero", ms, Used)
  BY DEF Reset, DefaultReset
<1> HIDE DEF ms
<1>4. Used \subseteq Metric
  BY UsedTypes
<1>5. {<<"zero", "default", m>> : m \in Range(ms) \cap Used} = ZeroItems
  BY <1>2, <1>4 DEF ZeroItems, ZeroOf
<1> QED
  BY <1>1, <1>3, <1>5, EachOfDoes

LEMMA SingleDoes ==
    ASSUME NEW w \in WriteRecord PROVE Does(<<w>>, ItemsOf(w)) 
<1>1. Append(<<>>, w) = <<w>>
  OBVIOUS
<1>2. Does(Append(<<>>, w), {} \cup ItemsOf(w))
  BY EmptyDoes, AppendDoes
<1> QED
  BY <1>1, <1>2

LEMMA OneSend ==
    ASSUME NEW c \in Kind, NEW metrics \in SUBSET Metric
    PROVE  Does(<<Send(c, metrics)>>, {SendOf(c, m) : m \in metrics})
<1>1. PICK w \in WriteRecord : w = Send(c, metrics) /\ ItemsOf(w) = {SendOf(c, m) : m \in metrics}
  BY SendTypes
<1> QED
  BY <1>1, SingleDoes

\* What a plugin does with its gauge.
GaugeItems(c, R) ==
    IF "successes" \in R THEN {GaugeOf(c, 0)}
    ELSE IF "shortCircuits" \in R THEN {GaugeOf(c, 1)} ELSE {}
GaugeWrites(c, R) ==
    IF "successes" \in R THEN <<Gauge(c, 0)>>
    ELSE IF "shortCircuits" \in R THEN <<Gauge(c, 1)>> ELSE <<>>

LEMMA GaugeDoes == ASSUME NEW c \in HasGauge, NEW R PROVE Does(GaugeWrites(c, R), GaugeItems(c, R))
<1>1. ASSUME NEW v \in {0, 1} PROVE Does(<<Gauge(c, v)>>, {GaugeOf(c, v)})
  <2>1. PICK w \in WriteRecord : w = Gauge(c, v) /\ ItemsOf(w) = {GaugeOf(c, v)}
    BY GaugeTypes
  <2> QED
    BY <2>1, SingleDoes
<1> QED
  BY <1>1, EmptyDoes DEF GaugeWrites, GaugeItems

LEMMA StatsdDoes ==
    ASSUME NEW R \in SUBSET (Basic \cup Context)
    PROVE  Does(StatsdUpdate(R), UpdateItems("statsd", R))
<1>1. "statsd" \in HasGauge /\ "statsd" \in Kind /\ R \cup Durations \in SUBSET Metric
  BY DEF HasGauge, Kind, Metric
<1>2. PICK ws, items, xs, more :
         /\ ws = GaugeWrites("statsd", R) /\ items = GaugeItems("statsd", R)
         /\ xs = <<Send("statsd", R \cup Durations)>> /\ more = {SendOf("statsd", m) : m \in R \cup Durations}
  OBVIOUS
<1>3. Does(ws, items) /\ Does(xs, more)
  <2>1. Does(ws, items)
    BY <1>1, <1>2, GaugeDoes
  <2>2. Does(<<Send("statsd", R \cup Durations)>>, {SendOf("statsd", m) : m \in R \cup Durations})
    BY <1>1, OneSend
  <2> QED
    BY <1>2, <2>1, <2>2
<1>4. items \cap more = {}
  BY <1>2 DEF GaugeItems, SendOf, GaugeOf
<1>5. Does(ws \o xs, items \cup more)
  BY <1>3, <1>4, ConcatDoes
<1>6. StatsdUpdate(R) = ws \o xs
  BY <1>2 DEF StatsdUpdate, GaugeWrites
<1>7. UpdateItems("statsd", R) = items \cup more
  BY <1>1, <1>2 DEF UpdateItems, Reported, GaugeItems
<1> QED
  BY <1>5, <1>6, <1>7

LEMMA DatadogDoes ==
    ASSUME NEW R \in SUBSET (Basic \cup Context)
    PROVE  Does(DatadogUpdate(R), UpdateItems("datadog", R))
<1> DEFINE first == R \cap {"attempts", "errors"}
           last == ((R \cap Basic) \ first) \cup Durations
<1>1. "datadog" \in HasGauge /\ "datadog" \in Kind /\ first \in SUBSET Metric /\ last \in SUBSET Metric
  BY DEF HasGauge, Kind, Metric, Basic
<1>2. first \cap last = {} /\ first \cup last = (R \cap Basic) \cup Durations
  BY DEF Durations, Basic
<1>3. DatadogUpdate(R) = <<Send("datadog", first)>> \o GaugeWrites("datadog", R) \o <<Send("datadog", last)>>
  BY DEF DatadogUpdate, GaugeWrites
<1> HIDE DEF first, last
<1>4. PICK us, ws, xs, fst, items, more :
         /\ us = <<Send("datadog", first)>> /\ fst = {SendOf("datadog", m) : m \in first}
         /\ ws = GaugeWrites("datadog", R) /\ items = GaugeItems("datadog", R)
         /\ xs = <<Send("datadog", last)>> /\ more = {SendOf("datadog", m) : m \in last}
  OBVIOUS
<1>5. Does(us, fst) /\ Does(ws, items) /\ Does(xs, more)
  <2>1. Does(ws, items)
    BY <1>1, <1>4, GaugeDoes
  <2>2. Does(<<Send("datadog", first)>>, {SendOf("datadog", m) : m \in first})
    BY <1>1, OneSend
  <2>3. Does(<<Send("datadog", last)>>, {SendOf("datadog", m) : m \in last})
    BY <1>1, OneSend
  <2> QED
    BY <1>4, <2>1, <2>2, <2>3
<1>6. items \cap fst = {} /\ items \cap more = {} /\ fst \cap more = {}
  BY <1>2, <1>4 DEF GaugeItems, SendOf, GaugeOf
<1>7. Does(us \o ws, fst \cup items)
  BY <1>5, <1>6, ConcatDoes
<1>8. (fst \cup items) \cap more = {}
  BY <1>6
<1>9. Does((us \o ws) \o xs, (fst \cup items) \cup more)
  BY <1>5, <1>7, <1>8, ConcatDoes
<1>10. UpdateItems("datadog", R) = (fst \cup items) \cup more
  <2>1. {SendOf("datadog", m) : m \in first \cup last} = fst \cup more
    BY <1>4
  <2>2. Reported("datadog", R) = first \cup last
    BY <1>2 DEF Reported
  <2>3. UpdateItems("datadog", R) = {SendOf("datadog", m) : m \in first \cup last} \cup items
    BY <1>1, <1>4, <2>2 DEF UpdateItems, GaugeItems
  <2> QED
    BY <2>1, <2>3
<1> QED
  BY <1>3, <1>4, <1>9, <1>10

LEMMA GraphiteDoes ==
    ASSUME NEW R \in SUBSET (Basic \cup Context)
    PROVE  Does(GraphiteUpdate(R), UpdateItems("graphite", R))
<1>1. "graphite" \notin HasGauge /\ "graphite" \in Kind /\ (R \cap Basic) \cup Durations \in SUBSET Metric
  BY DEF HasGauge, Kind, Metric
<1>2. Does(<<Send("graphite", (R \cap Basic) \cup Durations)>>,
           {SendOf("graphite", m) : m \in (R \cap Basic) \cup Durations})
  BY <1>1, OneSend
<1> QED
  BY <1>1, <1>2 DEF GraphiteUpdate, UpdateItems, Reported

LEMMA PrometheusDoes ==
    ASSUME NEW R \in SUBSET (Basic \cup Context)
    PROVE  Does(PrometheusUpdate(R), UpdateItems("prometheus", R))
<1>1. "prometheus" \notin HasGauge /\ "prometheus" \in Kind /\ R \cup Durations \in SUBSET Metric
  BY DEF HasGauge, Kind, Metric
<1>2. Does(<<Send("prometheus", R \cup Durations)>>, {SendOf("prometheus", m) : m \in R \cup Durations})
  BY <1>1, OneSend
<1> QED
  BY <1>1, <1>2 DEF PrometheusUpdate, UpdateItems, Reported

LEMMA UpdateOfDoes ==
    ASSUME NEW R \in SUBSET (Basic \cup Context), NEW c \in Kind
    PROVE  Does(UpdateOf(c, R), UpdateItems(c, R))
<1>1. CASE c = "default"
  BY <1>1, DefaultDoes DEF UpdateOf
<1>2. CASE c = "statsd"
  BY <1>2, StatsdDoes DEF UpdateOf
<1>3. CASE c = "datadog"
  BY <1>3, DatadogDoes DEF UpdateOf
<1>4. CASE c = "graphite"
  BY <1>4, GraphiteDoes DEF UpdateOf
<1>5. CASE c = "prometheus"
  BY <1>5, PrometheusDoes DEF UpdateOf
<1> QED
  BY <1>1, <1>2, <1>3, <1>4, <1>5 DEF Kind

\* The Update of all collectors.
LEMMA UpdateIter ==
    ASSUME NEW R \in SUBSET (Basic \cup Context)
    PROVE  \E g : /\ Update(R) = g[DOMAIN Registered]
                  /\ g[{}] = <<>>
                  /\ \A T \in SUBSET DOMAIN Registered :
                       T # {} => g[T] = JoinAll(g[T \ {Max(T)}], UpdateOf(Registered[Max(T)], R))
<1>d. PICK S : S = DOMAIN Registered
  OBVIOUS
<1>s. /\ IsFiniteSet(S) /\ \A i \in S : Registered[i] \in Kind
      /\ \A T \in SUBSET S : T # {} => Max(T) \in T
  BY <1>d, RegisteredAssumption, Places
<1> DEFINE Solves(g) ==
             g = [s \in SUBSET S |-> IF s = {} THEN <<>>
                                     ELSE JoinAll(g[s \ {Max(s)}], UpdateOf(Registered[Max(s)], R))]
           iter == CHOOSE g : Solves(g)
           step == [xv \in S \X Writes |-> JoinAll(xv[2], UpdateOf(Registered[xv[1]], R))]
           pick == [T \in SUBSET S |-> Max(T)]
<1>1. Update(R) = iter[S]
  BY <1>d DEF Update, FoldLeft, MapThenFoldSet
<1>2. /\ step \in [S \X Writes -> Writes]
      /\ \A x \in S, v \in Writes : step[<<x, v>>] = JoinAll(v, UpdateOf(Registered[x], R))
  <2>1. ASSUME NEW x \in S, NEW v \in Writes PROVE JoinAll(v, UpdateOf(Registered[x], R)) \in Writes
    <3>1. PICK u \in Writes : u = UpdateOf(Registered[x], R)
      <4>1. UpdateOf(Registered[x], R) \in Writes
        BY <1>s, UpdateOfDoes DEF Does
      <4> QED
        BY <4>1
    <3> QED
      BY <3>1, FoldJoinType
  <2> QED
    BY <2>1
<1>3. \A T \in SUBSET S : T # {} => pick[T] \in T /\ pick[T] = Max(T)
  BY <1>s
<1>e. <<>> \in Writes
  BY DEF Writes
<1> HIDE DEF step, pick
<1>4. PICK g \in [SUBSET S -> Writes] : IsIter(g, <<>>, step, pick, S)
  <2>1. \E g \in [SUBSET S -> Writes] : IsIter(g, <<>>, step, pick, S)
    BY <1>e, <1>s, <1>2, <1>3, IterExists
  <2> QED
    BY <2>1
<1>5. ASSUME NEW s \in SUBSET S
      PROVE  g[s] = IF s = {} THEN <<>> ELSE JoinAll(g[s \ {Max(s)}], UpdateOf(Registered[Max(s)], R))
  <2>1. CASE s = {}
    BY <1>4, <2>1 DEF IsIter
  <2>2. CASE s # {}
    <3>1. PICK x \in s : x = Max(s) /\ x = pick[s]
      BY <1>3, <2>2
    <3>2. g[s] = step[<<x, g[s \ {x}]>>] /\ g[s \ {x}] \in Writes
      BY <1>4, <2>2, <3>1 DEF IsIter
    <3> QED
      BY <1>2, <2>2, <3>1, <3>2
  <2> QED
    BY <2>1, <2>2
<1>6. Solves(g)
  BY <1>4, <1>5
<1>7. Solves(iter)
  BY <1>6
<1> HIDE DEF iter
<1>8. /\ iter[{}] = <<>>
      /\ \A T \in SUBSET S :
           T # {} => iter[T] = JoinAll(iter[T \ {Max(T)}], UpdateOf(Registered[Max(T)], R))
  BY <1>7
<1> QED
  BY <1>d, <1>1, <1>8

LEMMA ItemsNameKind ==
    ASSUME NEW c, NEW R, NEW x \in UpdateItems(c, R)
    PROVE  /\ x[2] = c /\ x[1] # "zero"
           /\ c = "default" <=> x[1] \in {"add", "loadTiming"}
BY DEF UpdateItems, AddOf, Timing, SendOf, GaugeOf, HasGauge

\* metricExchange.Update: whatever collectors are registered, in whatever order, their writes,
\* with the sends of plugins joined, are those of each of them, and no two do the same.
THEOREM UpdateDoes ==
    ASSUME NEW R \in SUBSET (Basic \cup Context)
    PROVE  Does(Update(R), AllItems(R))
<1>1. PICK S : S = DOMAIN Registered
  OBVIOUS
<1>2. PICK g : /\ Update(R) = g[S]
               /\ g[{}] = <<>>
               /\ \A T \in SUBSET S : T # {} => g[T] = JoinAll(g[T \ {Max(T)}], UpdateOf(Registered[Max(T)], R))
  <2>1. \E g : /\ Update(R) = g[DOMAIN Registered]
               /\ g[{}] = <<>>
               /\ \A T \in SUBSET DOMAIN Registered :
                    T # {} => g[T] = JoinAll(g[T \ {Max(T)}], UpdateOf(Registered[Max(T)], R))
    BY UpdateIter
  <2> QED
    BY <1>1, <2>1
<1>3. /\ IsFiniteSet(S) /\ \A i \in S : Registered[i] \in Kind
      /\ \A T \in SUBSET S : T # {} => Max(T) \in T
  BY <1>1, RegisteredAssumption, Places
<1> DEFINE Of(T) == UNION {UpdateItems(Registered[i], R) : i \in T}
           Good == {T \in SUBSET S : Does(g[T], Of(T))}
<1>4. ASSUME NEW T \in SUBSET S, \A U \in SUBSET T : U # T => U \in Good PROVE T \in Good
  <2>1. CASE T = {}
    <3>1. Of(T) = {} /\ g[T] = <<>>
      BY <1>2, <2>1
    <3> QED
      BY <3>1, EmptyDoes
  <2>2. CASE T # {}
    <3>1. PICK x \in T : x = Max(T)
      BY <1>3, <2>2
    <3>2. T \ {x} \in SUBSET T /\ T \ {x} # T
      OBVIOUS
    <3>3. PICK rest, more, ws, us, c : /\ rest = Of(T \ {x}) /\ ws = g[T \ {x}] /\ c = Registered[x]
                                       /\ more = UpdateItems(c, R) /\ us = UpdateOf(c, R)
      OBVIOUS
    <3>4. Does(ws, rest)
      BY <1>4, <3>2, <3>3
    <3>5. g[T] = JoinAll(ws, us) /\ c \in Kind
      BY <1>2, <1>3, <2>2, <3>1, <3>3
    <3>6. Does(us, more)
      BY <3>3, <3>5, UpdateOfDoes
    <3>7. rest \cap more = {}
      <4> SUFFICES ASSUME NEW y \in rest, y \in more PROVE FALSE
        OBVIOUS
      <4>1. PICK i \in T \ {x} : y \in UpdateItems(Registered[i], R)
        BY <3>3
      <4>2. y[2] = Registered[i] /\ y[2] = c
        BY <3>3, <4>1, ItemsNameKind
      <4> QED
        BY <1>1, <3>1, <3>3, <4>1, <4>2, RegisteredAssumption DEF IsInjective
    <3>8. Does(JoinAll(ws, us), rest \cup more)
      BY <3>4, <3>6, <3>7, FoldJoinDoes
    <3>9. rest \cup more = Of(T)
      BY <3>1, <3>3
    <3> HIDE DEF Of
    <3> QED
      BY <3>5, <3>8, <3>9
  <2> QED
    BY <2>1, <2>2
<1> HIDE DEF Good
<1>5. \A T \in SUBSET S : T \in Good
  BY <1>3, <1>4, SubsetInduction
<1>6. S \in Good
  BY <1>5
<1>7. Of(S) = AllItems(R)
  BY <1>1 DEF AllItems, Collector, Range
<1> HIDE DEF Of
<1> QED
  BY <1>2, <1>6, <1>7 DEF Good

\* The writes of a call: with a Reset before them or without.
LEMMA StartDoes ==
    ASSUME NEW R \in SUBSET (Basic \cup Context), NEW resets \in BOOLEAN, NEW ws,
           ws = (IF resets THEN Reset ELSE <<>>) \o Update(R)
    PROVE  /\ Does(ws, (IF resets THEN ZeroItems ELSE {}) \cup AllItems(R))
           /\ ZerosFirst(ws)
<1>1. PICK us, xs, items, more :
         /\ us = (IF resets THEN Reset ELSE <<>>) /\ xs = Update(R)
         /\ items = (IF resets THEN ZeroItems ELSE {}) /\ more = AllItems(R)
  OBVIOUS
<1>2. Does(us, items) /\ Does(xs, more) /\ \A i \in DOMAIN us : us[i].do = "zero"
  <2>1. CASE resets
    BY <1>1, <2>1, ResetDoes, UpdateDoes
  <2>2. CASE ~resets
    <3>1. DOMAIN us = {}
      BY <1>1, <2>2
    <3> QED
      BY <1>1, <2>2, <3>1, EmptyDoes, UpdateDoes
  <2> QED
    BY <2>1, <2>2
<1>w. us \in Writes /\ xs \in Writes
  BY <1>2 DEF Does
<1>3. NoZero(more)
  BY <1>1, ItemsNameKind DEF NoZero, AllItems
<1>4. items \cap more = {}
  BY <1>1, <1>3 DEF NoZero, ZeroItems, ZeroOf
<1>5. Does(us \o xs, items \cup more)
  BY <1>2, <1>4, ConcatDoes
<1>6. ZerosFirst(us \o xs)
  <2>1. PICK n \in Nat, k \in Nat : n = Len(us) /\ k = Len(xs)
    BY <1>w DEF Writes
  <2>2. PICK r : r = us \o xs
    OBVIOUS
  <2>3. /\ DOMAIN r = 1..(n + k) /\ DOMAIN us = 1..n /\ DOMAIN xs = 1..k
        /\ \A i \in 1..n : r[i] = us[i]
        /\ \A i \in 1..(n + k) : i > n => r[i] = xs[i - n] /\ i - n \in 1..k
        /\ \A i \in 1..k : xs[i] \in WriteRecord
    BY <1>w, <2>1, <2>2 DEF Writes
  <2>4. ASSUME NEW i \in 1..k PROVE xs[i].do # "zero"
    BY <1>2, <1>3, <2>3, NoZeroWrites
  <2>5. ASSUME NEW i \in 1..(n + k), NEW j \in 1..(n + k), i < j, r[j].do = "zero" PROVE r[i].do = "zero"
    <3>1. ~(j > n)
      BY <2>3, <2>4, <2>5
    <3>2. i \in 1..n
      BY <2>5, <3>1
    <3> QED
      BY <1>2, <2>3, <3>2
  <2> QED
    BY <2>2, <2>3, <2>5 DEF ZerosFirst
<1> QED
  BY <1>1, <1>5, <1>6

----------------------------------------------------------------------------
(* What the steps do to the writes that are left.                          *)

LEMMA TodoDoes == ASSUME Types, TodoInv, NEW p \in Proc PROVE Does(todo[p], Todo(p)) /\ ZerosFirst(todo[p])
BY DEF Types, TodoInv, TodoOf, Does, Todo

LEMMA TodoEmpty == ASSUME NEW p, todo[p] = <<>> PROVE Todo(p) = {}
BY EmptyDoes DEF Todo, Does

\* Only p's writes change, and no goroutine's circuit or events.
OthersKept(p) ==
    /\ name' = name /\ primary' = primary /\ secondary' = secondary
    /\ \A q \in Proc : q # p => todo'[q] = todo[q] /\ Todo(q)' = Todo(q)

LEMMA OthersFrame ==
    ASSUME Types, NEW p \in Proc, NEW ws, todo' = [todo EXCEPT ![p] = ws],
           UNCHANGED <<name, primary, secondary>>
    PROVE  OthersKept(p) /\ todo'[p] = ws /\ Todo(p)' = Items(ws)
BY DEF Types, OthersKept, Todo

\* A write is done.
Finishes(p, w) ==
    /\ pc[p] = "write"
    /\ w \in WriteRecord /\ w = Head(todo[p]) /\ ItemsOf(w) \subseteq Todo(p)
    /\ OthersKept(p)
    /\ Todo(p)' = Todo(p) \ ItemsOf(w)
    /\ todo' = [todo EXCEPT ![p] = Tail(todo[p])]
    /\ Does(todo'[p], Todo(p)') /\ ZerosFirst(todo'[p])
    /\ w.do # "zero" => NoZero(Todo(p))

LEMMA DoneFinishes ==
    ASSUME Types, TodoInv, NEW p \in Proc, NEW do, Done(p, do), UNCHANGED <<name, primary, secondary>>
    PROVE  \E w \in WriteRecord : w.do = do /\ Finishes(p, w)
<1>1. pc[p] = "write" /\ todo[p] # <<>> /\ Head(todo[p]).do = do /\ todo' = [todo EXCEPT ![p] = Tail(todo[p])]
  BY DEF Done
<1>2. PICK ws, w : ws = todo[p] /\ w = Head(ws)
  OBVIOUS
<1>3. Does(ws, Todo(p)) /\ ZerosFirst(ws) /\ ws # <<>>
  BY <1>1, <1>2, TodoDoes
<1>4. /\ w \in WriteRecord /\ ItemsOf(w) \subseteq Todo(p)
      /\ Does(Tail(ws), Todo(p) \ ItemsOf(w)) /\ ZerosFirst(Tail(ws))
      /\ w.do # "zero" => NoZero(Todo(p))
  BY <1>2, <1>3, TailDoes
<1>5. OthersKept(p) /\ todo'[p] = Tail(ws) /\ Todo(p)' = Items(Tail(ws))
  <2>1. todo' = [todo EXCEPT ![p] = Tail(ws)]
    BY <1>1, <1>2
  <2> QED
    BY <2>1, OthersFrame
<1>6. Todo(p)' = Todo(p) \ ItemsOf(w)
  BY <1>4, <1>5 DEF Does
<1> QED
  BY <1>1, <1>2, <1>4, <1>5, <1>6 DEF Finishes

LEMMA TwoWrites == ASSUME NEW a, NEW b PROVE Append(<<a>>, b) = <<a, b>>
<1>1. PICK r, s : r = Append(<<a>>, b) /\ s = <<a, b>>
  OBVIOUS
<1>2. <<a>> \in Seq({a, b}) /\ Len(<<a>>) = 1 /\ <<a>>[1] = a
  OBVIOUS
<1>3. r \in Seq({a, b}) /\ Len(r) = 2 /\ r[1] = a /\ r[2] = b
  BY <1>1, <1>2
<1>4. s \in Seq({a, b}) /\ Len(s) = 2 /\ s[1] = a /\ s[2] = b
  BY <1>1
<1>5. \A i \in 1..2 : i = 1 \/ i = 2
  OBVIOUS
<1>6. r = s
  <2>1. r = [i \in 1..2 |-> r[i]] /\ s = [i \in 1..2 |-> s[i]]
    BY <1>3, <1>4
  <2>2. \A i \in 1..2 : r[i] = s[i]
    BY <1>3, <1>4, <1>5
  <2> QED
    BY <2>1, <2>2
<1> QED
  BY <1>1, <1>6

\* The look at the timing flag is replaced by both durations or by nothing.
TimingAdds == {AddOf(m) : m \in Durations}
Loads(p, enabled) ==
    /\ enabled \in BOOLEAN /\ pc[p] = "write"
    /\ OthersKept(p)
    /\ Timing \in Todo(p) /\ NoZero(Todo(p))
    /\ Todo(p)' = (Todo(p) \ {Timing}) \cup (IF enabled THEN TimingAdds ELSE {})
    /\ todo'[p] \in Writes /\ todo' = [todo EXCEPT ![p] = todo'[p]]
    /\ Does(todo'[p], Todo(p)') /\ ZerosFirst(todo'[p])

LEMMA LoadTimingLoads ==
    ASSUME Types, TodoInv, NEW p \in Proc, LoadTiming(p)
    PROVE  \E enabled \in BOOLEAN : Loads(p, enabled)
<1>1. PICK enabled \in BOOLEAN :
         todo' = [todo EXCEPT ![p] =
             (IF enabled THEN <<Write("add", "totalDuration"), Write("add", "runDuration")>> ELSE <<>>)
             \o Tail(todo[p])]
  BY DEF LoadTiming
<1>2. pc[p] = "write" /\ todo[p] # <<>> /\ Head(todo[p]).do = "loadTiming" /\ UNCHANGED <<name, primary, secondary>>
  BY DEF LoadTiming, call
<1>3. PICK ws, w, us : /\ ws = todo[p] /\ w = Head(ws)
                       /\ us = IF enabled THEN <<Write("add", "totalDuration"), Write("add", "runDuration")>> ELSE <<>>
  OBVIOUS
<1>4. Does(ws, Todo(p)) /\ ZerosFirst(ws) /\ ws # <<>>
  BY <1>2, <1>3, TodoDoes
<1>5. /\ w \in WriteRecord /\ ItemsOf(w) \subseteq Todo(p)
      /\ Does(Tail(ws), Todo(p) \ ItemsOf(w))
      /\ w.do # "zero" => NoZero(Todo(p))
  BY <1>3, <1>4, TailDoes
<1>6. ItemsOf(w) = {Timing} /\ Timing \in Todo(p) /\ NoZero(Todo(p))
  <2>1. w.do = "loadTiming"
    BY <1>2, <1>3
  <2>2. ItemsOf(w) = {<<"loadTiming", "default", w.metric>>}
    BY <2>1 DEF ItemsOf
  <2>3. <<"loadTiming", "default", w.metric>> = Timing
    BY <1>5, <2>2 DEF TodoInv, TodoOf
  <2> QED
    BY <1>5, <2>1, <2>2, <2>3
<1>7. PICK items : items = IF enabled THEN TimingAdds ELSE {}
  OBVIOUS
<1>8. Does(us, items)
  <2>1. CASE ~enabled
    BY <1>3, <1>7, <2>1, EmptyDoes
  <2>2. CASE enabled
    <3>1. PICK a \in WriteRecord : a = Write("add", "totalDuration") /\ ItemsOf(a) = {AddOf("totalDuration")}
      BY MetricNames, WriteTypes DEF AddOf
    <3>2. PICK b \in WriteRecord : b = Write("add", "runDuration") /\ ItemsOf(b) = {AddOf("runDuration")}
      BY MetricNames, WriteTypes DEF AddOf
    <3>3. Does(<<a>>, ItemsOf(a))
      BY SingleDoes
    <3>4. ItemsOf(b) \cap ItemsOf(a) = {}
      BY <3>1, <3>2 DEF AddOf
    <3>5. Does(Append(<<a>>, b), ItemsOf(a) \cup ItemsOf(b))
      BY <3>3, <3>4, AppendDoes
    <3>6. Append(<<a>>, b) = <<a, b>>
      BY TwoWrites
    <3>7. us = <<a, b>>
      BY <1>3, <2>2, <3>1, <3>2
    <3>8. items = ItemsOf(a) \cup ItemsOf(b)
      BY <1>7, <2>2, <3>1, <3>2 DEF TimingAdds, Durations
    <3> QED
      BY <3>5, <3>6, <3>7, <3>8
  <2> QED
    BY <2>1, <2>2
<1>9. PICK rest, xs : rest = Todo(p) \ {Timing} /\ xs = Tail(ws)
  OBVIOUS
<1>10. Does(us \o xs, items \cup rest)
  <2>1. items \cap rest = {}
    BY <1>6, <1>7, <1>9 DEF TimingAdds, TodoInv, TodoOf
  <2>2. Does(xs, rest)
    BY <1>5, <1>6, <1>9
  <2> QED
    BY <1>8, <2>1, <2>2, ConcatDoes
<1>11. NoZero(items \cup rest)
  BY <1>6, <1>7, <1>9 DEF NoZero, TimingAdds, AddOf
<1>12. ZerosFirst(us \o xs)
  BY <1>10, <1>11, NoZeroWrites
<1>13. OthersKept(p) /\ todo'[p] = us \o xs /\ Todo(p)' = Items(us \o xs)
  <2>1. todo' = [todo EXCEPT ![p] = us \o xs]
    BY <1>1, <1>3, <1>9
  <2> QED
    BY <1>2, <2>1, OthersFrame
<1>14. Todo(p)' = items \cup rest
  BY <1>10, <1>13 DEF Does
<1>15. todo' = [todo EXCEPT ![p] = todo'[p]]
  BY <1>1, <1>3, <1>9, <1>13
<1> QED
  BY <1>2, <1>6, <1>7, <1>9, <1>10, <1>12, <1>13, <1>14, <1>15 DEF Loads, Does

\* A call begins to write, with a Reset if it has closed the circuit.
Begins(p, resets) ==
    /\ resets \in BOOLEAN /\ pc[p] # "idle"
    /\ pc' = [pc EXCEPT ![p] = "write"]
    /\ OthersKept(p)
    /\ Todo(p) = {}
    /\ Todo(p)' = (IF resets THEN ZeroItems ELSE {}) \cup AllItems(ResultOf(p))
    /\ todo'[p] \in Writes /\ todo' = [todo EXCEPT ![p] = todo'[p]]
    /\ Does(todo'[p], Todo(p)') /\ ZerosFirst(todo'[p])
    /\ \A n \in Name : n # name[p] => torn'[n] = torn[n]
    /\ torn' \in [Name -> BOOLEAN]
    /\ ~torn'[name[p]] => IF resets THEN Updating(p, name[p]) = {}
                          ELSE ~torn[name[p]] /\ Resetting(p, name[p]) = {}
    /\ UNCHANGED <<counters, calls, upsets, alone, doubtful>>

LEMMA BeginsTodo ==
    ASSUME Types, CallInv, NEW p \in Proc, pc[p] # "write", NEW resets \in BOOLEAN,
           todo' = [todo EXCEPT ![p] = (IF resets THEN Reset ELSE <<>>) \o Update(ResultOf(p))],
           UNCHANGED <<name, primary, secondary>>
    PROVE  /\ OthersKept(p)
           /\ Todo(p) = {}
           /\ Todo(p)' = (IF resets THEN ZeroItems ELSE {}) \cup AllItems(ResultOf(p))
           /\ todo'[p] \in Writes /\ todo' = [todo EXCEPT ![p] = todo'[p]]
           /\ Does(todo'[p], Todo(p)') /\ ZerosFirst(todo'[p])
<1>1. PICK ws : ws = (IF resets THEN Reset ELSE <<>>) \o Update(ResultOf(p))
  OBVIOUS
<1>2. ResultOf(p) \in SUBSET (Basic \cup Context)
  <2>1. primary[p] \in PrimaryEvents /\ secondary[p] \in {"", "fallback-success", "fallback-failure"}
    BY DEF Types
  <2> QED
    BY <2>1, ResultTypes DEF ResultOf
<1>3. /\ Does(ws, (IF resets THEN ZeroItems ELSE {}) \cup AllItems(ResultOf(p)))
      /\ ZerosFirst(ws)
  BY <1>1, <1>2, StartDoes
<1>4. todo' = [todo EXCEPT ![p] = ws]
  BY <1>1
<1>5. OthersKept(p) /\ todo'[p] = ws /\ Todo(p)' = Items(ws)
  BY <1>4, OthersFrame
<1>6. Todo(p) = {}
  BY TodoEmpty DEF CallInv
<1> QED
  BY <1>3, <1>4, <1>5, <1>6 DEF Does

LEMMA ReportBegins ==
    ASSUME Types, CallInv, NEW p \in Proc, ReportEvent(p)
    PROVE  \/ /\ pc' = [pc EXCEPT ![p] = "close"] /\ primary[p] = "success"
              /\ UNCHANGED <<open, counters, name, primary, secondary, todo, calls, upsets, torn, alone, doubtful>>
           \/ Begins(p, FALSE) /\ UNCHANGED open
<1>1. /\ pc[p] = "report" /\ UNCHANGED <<open, counters, name, primary, secondary, calls, upsets, alone, doubtful>>
      /\ name[p] \in Name /\ torn \in [Name -> BOOLEAN]
  BY DEF ReportEvent, Goto, Types
<1>2. CASE primary[p] = "success" /\ open[name[p]]
  <2>1. pc' = [pc EXCEPT ![p] = "close"]
    BY <1>2 DEF ReportEvent, Goto
  <2>2. todo' = [todo EXCEPT ![p] = <<>>] /\ torn' = [torn EXCEPT ![name[p]] = torn[name[p]]]
    BY <1>1, <1>2 DEF ReportEvent
  <2>3. todo' = todo /\ torn' = torn
    <3>1. todo[p] = <<>>
      BY <1>1 DEF CallInv
    <3> QED
      BY <1>1, <2>2, <3>1 DEF Types
  <2> QED
    BY <1>1, <1>2, <2>1, <2>3
<1>3. CASE ~(primary[p] = "success" /\ open[name[p]])
  <2>1. pc' = [pc EXCEPT ![p] = "write"]
    BY <1>3 DEF ReportEvent, Goto
  <2>2. todo' = [todo EXCEPT ![p] = Update(ResultOf(p))]
    BY <1>3 DEF ReportEvent
  <2>3. torn' = [torn EXCEPT ![name[p]] = torn[name[p]] \/ Resetting(p, name[p]) # {}]
    BY <1>3 DEF ReportEvent
  <2>4. <<>> \o Update(ResultOf(p)) = Update(ResultOf(p))
    <3>1. ResultOf(p) \in SUBSET (Basic \cup Context)
      <4>1. primary[p] \in PrimaryEvents /\ secondary[p] \in {"", "fallback-success", "fallback-failure"}
        BY DEF Types
      <4> QED
        BY <4>1, ResultTypes DEF ResultOf
    <3>2. Update(ResultOf(p)) \in Seq(WriteRecord)
      BY <3>1, UpdateDoes DEF Does, Writes
    <3> QED
      BY <3>2
  <2>5. todo' = [todo EXCEPT ![p] = (IF FALSE THEN Reset ELSE <<>>) \o Update(ResultOf(p))]
    BY <2>2, <2>4
  <2>6. /\ OthersKept(p)
        /\ Todo(p) = {}
        /\ Todo(p)' = (IF FALSE THEN ZeroItems ELSE {}) \cup AllItems(ResultOf(p))
        /\ todo'[p] \in Writes /\ todo' = [todo EXCEPT ![p] = todo'[p]]
        /\ Does(todo'[p], Todo(p)') /\ ZerosFirst(todo'[p])
    BY <1>1, <2>5, BeginsTodo
  <2>7. /\ \A n \in Name : n # name[p] => torn'[n] = torn[n]
        /\ torn' \in [Name -> BOOLEAN]
        /\ ~torn'[name[p]] => ~torn[name[p]] /\ Resetting(p, name[p]) = {}
    BY <1>1, <2>3
  <2> QED
    BY <1>1, <2>1, <2>6, <2>7 DEF Begins
<1> QED
  BY <1>2, <1>3

LEMMA CloseBegins ==
    ASSUME Types, CallInv, NEW p \in Proc, SetClose(p)
    PROVE  /\ \E resets \in BOOLEAN : Begins(p, resets)
           /\ pc[p] = "close" /\ open' = [open EXCEPT ![name[p]] = FALSE]
<1>1. /\ pc[p] = "close" /\ UNCHANGED <<counters, name, primary, secondary, calls, upsets, alone, doubtful>>
      /\ name[p] \in Name /\ torn \in [Name -> BOOLEAN] /\ open[name[p]] \in BOOLEAN
      /\ pc' = [pc EXCEPT ![p] = "write"] /\ open' = [open EXCEPT ![name[p]] = FALSE]
  BY DEF SetClose, Goto, Types
<1>2. PICK resets \in BOOLEAN : resets = open[name[p]]
  BY <1>1
<1>3. todo' = [todo EXCEPT ![p] = (IF resets THEN Reset ELSE <<>>) \o Update(ResultOf(p))]
  BY <1>2 DEF SetClose
<1>4. torn' = [torn EXCEPT ![name[p]] = IF resets THEN Updating(p, name[p]) # {}
                                        ELSE torn[name[p]] \/ Resetting(p, name[p]) # {}]
  BY <1>2 DEF SetClose
<1>5. /\ OthersKept(p)
      /\ Todo(p) = {}
      /\ Todo(p)' = (IF resets THEN ZeroItems ELSE {}) \cup AllItems(ResultOf(p))
      /\ todo'[p] \in Writes /\ todo' = [todo EXCEPT ![p] = todo'[p]]
      /\ Does(todo'[p], Todo(p)') /\ ZerosFirst(todo'[p])
  BY <1>1, <1>3, BeginsTodo
<1>6. /\ \A n \in Name : n # name[p] => torn'[n] = torn[n]
      /\ torn' \in [Name -> BOOLEAN]
      /\ ~torn'[name[p]] => IF resets THEN Updating(p, name[p]) = {}
                            ELSE ~torn[name[p]] /\ Resetting(p, name[p]) = {}
  BY <1>1, <1>4
<1>7. Begins(p, resets)
  BY <1>1, <1>5, <1>6 DEF Begins
<1> QED
  BY <1>1, <1>7

\* A call of a forgotten circuit begins to write, to the plugins only.
Relays(p) ==
    /\ pc[p] = "forgotten"
    /\ pc' = [pc EXCEPT ![p] = "write"]
    /\ OthersKept(p)
    /\ Todo(p) = {}
    /\ Todo(p)' = ForPlugins(AllItems(ResultOf(p)))
    /\ todo'[p] \in Writes /\ todo' = [todo EXCEPT ![p] = todo'[p]]
    /\ Does(todo'[p], Todo(p)') /\ ZerosFirst(todo'[p])
    /\ UNCHANGED <<open, count, gauge, calls, upsets, torn, alone, doubtful>>

LEMMA ForgottenRelays ==
    ASSUME Types, CallInv, NEW p \in Proc, ReportForgotten(p) PROVE Relays(p)
<1>1. /\ pc[p] = "forgotten" /\ pc' = [pc EXCEPT ![p] = "write"]
      /\ UNCHANGED <<open, count, gauge, name, primary, secondary, calls, upsets, torn, alone, doubtful>>
  BY DEF ReportForgotten, Goto, counters, history
<1>2. PICK ws : ws = ToPlugins(Update(ResultOf(p)))
  OBVIOUS
<1>3. ResultOf(p) \in SUBSET (Basic \cup Context)
  <2>1. primary[p] \in PrimaryEvents /\ secondary[p] \in {"", "fallback-success", "fallback-failure"}
    BY DEF Types
  <2> QED
    BY <2>1, ResultTypes DEF ResultOf
<1>4. Does(ws, ForPlugins(AllItems(ResultOf(p)))) /\ ZerosFirst(ws)
  BY <1>2, <1>3, UpdateDoes, ToPluginsDoes
<1>5. todo' = [todo EXCEPT ![p] = ws]
  BY <1>2 DEF ReportForgotten
<1>6. OthersKept(p) /\ todo'[p] = ws /\ Todo(p)' = Items(ws)
  BY <1>1, <1>5, OthersFrame
<1>7. Todo(p) = {}
  BY <1>1, TodoEmpty DEF CallInv
<1>8. Todo(p)' = ForPlugins(AllItems(ResultOf(p))) /\ Does(todo'[p], Todo(p)') /\ ZerosFirst(todo'[p])
  BY <1>4, <1>6 DEF Does
<1>9. todo'[p] \in Writes /\ todo' = [todo EXCEPT ![p] = todo'[p]]
  BY <1>4, <1>5, <1>6 DEF Does
<1> QED
  BY <1>1, <1>6, <1>7, <1>8, <1>9 DEF Relays

\* All that is left of the writes of every call is what the plugins get.
Forgets ==
    /\ \A q \in Proc : pc'[q] = IF pc[q] \in {"report", "close"} THEN "forgotten" ELSE pc[q]
    /\ \A q \in Proc : /\ Todo(q)' = ForPlugins(Todo(q))
                       /\ Does(todo'[q], Todo(q)') /\ ZerosFirst(todo'[q])
                       /\ todo[q] = <<>> => todo'[q] = <<>>
    /\ UNCHANGED <<gauge, name, primary, secondary, calls>>
    /\ torn' = [n \in Name |-> FALSE] /\ alone' = [q \in Proc |-> {}]

LEMMA FlushForgets == ASSUME Types, TodoInv, Flush PROVE Forgets
<1>1. /\ UNCHANGED <<gauge, name, primary, secondary, calls>>
      /\ torn' = [n \in Name |-> FALSE] /\ alone' = [q \in Proc |-> {}]
      /\ \A q \in Proc : pc'[q] = IF pc[q] \in {"report", "close"} THEN "forgotten" ELSE pc[q]
      /\ \A q \in Proc : todo'[q] = ToPlugins(todo[q])
  BY DEF Flush
<1>2. ASSUME NEW q \in Proc
      PROVE  /\ Todo(q)' = ForPlugins(Todo(q))
             /\ Does(todo'[q], Todo(q)') /\ ZerosFirst(todo'[q])
             /\ todo[q] = <<>> => todo'[q] = <<>>
  <2>1. PICK ws, xs : ws = todo[q] /\ xs = ToPlugins(ws)
    OBVIOUS
  <2>2. Does(ws, Todo(q))
    BY <2>1, TodoDoes
  <2>3. Does(xs, ForPlugins(Todo(q))) /\ ZerosFirst(xs)
    BY <2>1, <2>2, ToPluginsDoes
  <2>4. todo'[q] = xs
    BY <1>1, <2>1
  <2>5. Todo(q)' = ForPlugins(Todo(q))
    BY <2>3, <2>4 DEF Todo, Does
  <2> QED
    BY <2>1, <2>3, <2>4, <2>5, ToPluginsEmpty
<1> QED
  BY <1>1, <1>2 DEF Forgets

----------------------------------------------------------------------------
(* Types.                                                                  *)

LEMMA DefaultKeys == "default" \in Collector /\ \A n : Key("default", n) = n
<1>1. "default" \in Collector
  <2>1. 1 \in DOMAIN Registered /\ Registered[1] = "default"
    BY RegisteredAssumption
  <2> QED
    BY <2>1 DEF Collector, Range
<1> QED
  BY <1>1 DEF Key

\* One metric of the default collector is written.
WritesCount(n, m, v) == count' = [count EXCEPT !["default"][n][m] = v]

LEMMA CountWritten ==
    ASSUME Types, NEW n \in Name, NEW m \in Metric, NEW v \in Nat, WritesCount(n, m, v)
    PROVE  /\ DOMAIN count' = Collector
           /\ \A c \in Collector : count'[c] \in [Keys(c) -> [Metric -> Nat]]
           /\ \A c \in Collector : c # "default" => count'[c] = count[c]
           /\ count'["default"][n][m] = v
           /\ \A k \in Name, i \in Metric :
                k # n \/ i # m => count'["default"][k][i] = count["default"][k][i]
<1>1. PICK f : f = count["default"]
  OBVIOUS
<1>2. f \in [Name -> [Metric -> Nat]]
  <2>1. Keys("default") = Name
    BY DefaultKeys DEF Keys
  <2> QED
    BY <1>1, <2>1, DefaultKeys DEF Types, Keys
<1>3. PICK g : g = [f EXCEPT ![n][m] = v]
  OBVIOUS
<1>4. /\ g \in [Name -> [Metric -> Nat]]
      /\ \A k \in Name, i \in Metric : g[k][i] = IF k = n /\ i = m THEN v ELSE f[k][i]
  BY <1>2, <1>3
<1>5. count' = [count EXCEPT !["default"] = g]
  BY <1>1, <1>3 DEF WritesCount
<1>6. DOMAIN count' = Collector /\ count'["default"] = g /\ \A c \in Collector : c # "default" => count'[c] = count[c]
  BY <1>5, DefaultKeys DEF Types
<1>7. Keys("default") = Name
  BY DefaultKeys DEF Keys
<1>8. ASSUME NEW c \in Collector PROVE count'[c] \in [Keys(c) -> [Metric -> Nat]]
  <2>1. CASE c = "default"
    BY <1>4, <1>6, <1>7, <2>1
  <2>2. CASE c # "default"
    BY <1>6, <2>2 DEF Types
  <2> QED
    BY <2>1, <2>2
<1> QED
  BY <1>1, <1>4, <1>6, <1>8

\* Some metrics of plugins are increased.
CountsSent(n, metrics) ==
    \A c \in Collector : \A k \in Keys(c) : \A m \in Metric :
        count'[c][k][m] = count[c][k][m] + IF k = Key(c, n) /\ <<c, m>> \in metrics THEN 1 ELSE 0

LEMMA CountSent ==
    ASSUME Types, NEW n \in Name, NEW metrics, Increment(n, metrics)
    PROVE  /\ DOMAIN count' = Collector
           /\ \A c \in Collector : count'[c] \in [Keys(c) -> [Metric -> Nat]]
           /\ CountsSent(n, metrics)
<1>1. DOMAIN count' = Collector
  BY DEF Increment, Types
<1>2. ASSUME NEW c \in Collector
      PROVE  /\ count'[c] \in [Keys(c) -> [Metric -> Nat]]
             /\ \A k \in Keys(c) : \A m \in Metric :
                  count'[c][k][m] = count[c][k][m] + IF k = Key(c, n) /\ <<c, m>> \in metrics THEN 1 ELSE 0
  <2>1. PICK f, h : f = count[c] /\ h = Key(c, n)
    OBVIOUS
  <2>2. f \in [Keys(c) -> [Metric -> Nat]] /\ h \in Keys(c)
    BY <2>1 DEF Types, Keys
  <2>3. PICK v : v = [m \in Metric |-> IF <<c, m>> \in metrics THEN f[h][m] + 1 ELSE f[h][m]]
    OBVIOUS
  <2>4. v \in [Metric -> Nat] /\ \A m \in Metric : v[m] = f[h][m] + IF <<c, m>> \in metrics THEN 1 ELSE 0
    <3>1. \A m \in Metric : f[h][m] \in Nat
      BY <2>2
    <3> QED
      BY <2>3, <3>1
  <2>5. count'[c] = [f EXCEPT ![h] = v]
    BY <2>1, <2>3 DEF Increment, Types
  <2>6. count'[c] \in [Keys(c) -> [Metric -> Nat]] /\ count'[c][h] = v /\ \A k \in Keys(c) : k # h => count'[c][k] = f[k]
    BY <2>2, <2>4, <2>5
  <2>7. \A k \in Keys(c) : \A m \in Metric : f[k][m] \in Nat
    BY <2>2
  <2> QED
    BY <2>1, <2>2, <2>4, <2>6, <2>7
<1> QED
  BY <1>1, <1>2 DEF CountsSent

\* New circuits' default collectors have counted nothing.
Empties ==
    /\ \A n \in Name, m \in Metric : count'["default"][n][m] = 0
    /\ \A c \in Collector : c # "default" => count'[c] = count[c]

LEMMA FlushCounts ==
    ASSUME Types, Flush
    PROVE  /\ Empties
           /\ DOMAIN count' = Collector
           /\ \A c \in Collector : count'[c] \in [Keys(c) -> [Metric -> Nat]]
<1>1. PICK f : f = [n \in Name |-> NewCollector]
  OBVIOUS
<1>2. f \in [Name -> [Metric -> Nat]] /\ \A n \in Name, m \in Metric : f[n][m] = 0
  <2>1. NewCollector \in [Metric -> Nat] /\ \A m \in Metric : NewCollector[m] = 0
    BY DEF NewCollector
  <2> QED
    BY <1>1, <2>1
<1>3. count' = [count EXCEPT !["default"] = f]
  BY <1>1 DEF Flush
<1>4. DOMAIN count' = Collector /\ count'["default"] = f /\ \A c \in Collector : c # "default" => count'[c] = count[c]
  BY <1>3, DefaultKeys DEF Types
<1>5. Keys("default") = Name
  BY DefaultKeys DEF Keys
<1>6. ASSUME NEW c \in Collector PROVE count'[c] \in [Keys(c) -> [Metric -> Nat]]
  <2>1. CASE c = "default"
    BY <1>2, <1>4, <1>5, <2>1
  <2>2. CASE c # "default"
    BY <1>4, <2>2 DEF Types
  <2> QED
    BY <2>1, <2>2
<1> QED
  BY <1>2, <1>4, <1>6 DEF Empties

\* The state but for the counters.
RestTypes ==
    /\ open \in [Name -> BOOLEAN]
    /\ DOMAIN gauge = HasGauge
    /\ \A c \in HasGauge : gauge[c] \in [Keys(c) -> {-1, 0, 1}]
    /\ pc \in [Proc -> Location]
    /\ name \in [Proc -> Name]
    /\ primary \in [Proc -> PrimaryEvents]
    /\ secondary \in [Proc -> {"", "fallback-success", "fallback-failure"}]
    /\ todo \in [Proc -> Writes]
    /\ torn \in [Name -> BOOLEAN]
    /\ alone \in [Proc -> SUBSET HasGauge]
    /\ DOMAIN doubtful = HasGauge
    /\ \A c \in HasGauge : doubtful[c] \in [Keys(c) -> BOOLEAN]
CountTypes == DOMAIN count = Collector /\ \A c \in Collector : count[c] \in [Keys(c) -> [Metric -> Nat]]

LEMMA TypesSplit == Types <=> RestTypes /\ CountTypes
BY DEF Types, RestTypes, CountTypes

LEMMA CountStep ==
    ASSUME Types, TodoInv, [Next]_vars PROVE CountTypes'
<1>1. ASSUME NEW p \in Proc, NEW do \in {"add", "zero", "send"}, Done(p, do), UNCHANGED call
      PROVE  /\ name[p] \in Name
             /\ do # "send" => Head(todo[p]).metric \in Metric /\ count["default"][name[p]][Head(todo[p]).metric] \in Nat
  <2>1. PICK w \in WriteRecord : w.do = do /\ w = Head(todo[p])
    BY <1>1, DoneFinishes DEF Finishes, call
  <2>2. do # "send" => w.metric \in Metric
    BY <2>1 DEF WriteRecord
  <2>3. name[p] \in Name
    BY DEF Types
  <2>4. count["default"] \in [Name -> [Metric -> Nat]]
    <3>1. Keys("default") = Name
      BY DefaultKeys DEF Keys
    <3> QED
      BY <3>1, DefaultKeys DEF Types, Keys
  <2> QED
    BY <2>1, <2>2, <2>3, <2>4
<1>2. ASSUME NEW p \in Proc, Add(p) PROVE CountTypes'
  <2>1. PICK m, v, n : m = Head(todo[p]).metric /\ n = name[p] /\ v = count["default"][n][m] + 1
    OBVIOUS
  <2>2. m \in Metric /\ n \in Name /\ v \in Nat
    BY <1>1, <1>2, <2>1 DEF Add
  <2>3. WritesCount(n, m, v)
    BY <1>2, <2>1 DEF Add, WritesCount
  <2> QED
    BY <2>2, <2>3, CountWritten DEF CountTypes
<1>3. ASSUME NEW p \in Proc, Zero(p) PROVE CountTypes'
  <2>1. PICK m, n, v : m = Head(todo[p]).metric /\ n = name[p] /\ v = 0
    OBVIOUS
  <2>2. m \in Metric /\ n \in Name /\ v \in Nat
    BY <1>1, <1>3, <2>1 DEF Zero
  <2>3. WritesCount(n, m, v)
    BY <1>3, <2>1 DEF Zero, WritesCount
  <2> QED
    BY <2>2, <2>3, CountWritten DEF CountTypes
<1>4. ASSUME NEW p \in Proc, SendMetrics(p) PROVE CountTypes'
  <2>1. name[p] \in Name /\ Increment(name[p], Head(todo[p]).metrics)
    BY <1>4 DEF SendMetrics, Types
  <2> QED
    BY <2>1, CountSent DEF CountTypes
<1>5. ASSUME UNCHANGED count PROVE CountTypes'
  <2>1. CountTypes
    BY TypesSplit
  <2> QED
    BY <1>5, <2>1 DEF CountTypes
<1>6. ASSUME NEW p \in Proc, \/ Execute(p) \/ ReportEvent(p) \/ SetClose(p) \/ ReportForgotten(p)
                             \/ Return(p) \/ LoadTiming(p) \/ SetGauge(p) \/ GaugeFails(p)
      PROVE  UNCHANGED count
  BY <1>6 DEF Execute, ReportEvent, SetClose, ReportForgotten, Return, LoadTiming, SetGauge, GaugeFails, counters
<1>7. ASSUME NEW n \in Name, SetOpen(n) PROVE UNCHANGED count
  BY <1>7 DEF SetOpen, counters
<1>8. ASSUME Terminated \/ UNCHANGED vars PROVE UNCHANGED count
  BY <1>8 DEF Terminated, vars, counters
<1>9. ASSUME Flush PROVE CountTypes'
  BY <1>9, FlushCounts DEF CountTypes
<1> QED
  BY <1>2, <1>3, <1>4, <1>5, <1>6, <1>7, <1>8, <1>9 DEF Next

\* A call of circuit n starts that will report the events e and s.
Starts(p, n, e, s) ==
    /\ e = "success" => s = ""
    /\ pc[p] = "idle" /\ pc' = [pc EXCEPT ![p] = "report"]
    /\ name' = [name EXCEPT ![p] = n]
    /\ primary' = [primary EXCEPT ![p] = e]
    /\ secondary' = [secondary EXCEPT ![p] = s]
    /\ alone' = [q \in Proc |-> IF q = p THEN {c \in HasGauge : ~Misleading(p, c, n, e)}
                                ELSE {c \in alone[q] : ~Uses(q, c, n)}]
    /\ doubtful' = [c \in HasGauge |->
          [doubtful[c] EXCEPT ![Key(c, n)] = doubtful[c][Key(c, n)] \/ Misleading(p, c, n, e)]]
    /\ UNCHANGED <<open, count, gauge, todo, upsets, torn>>

LEMMA ExecuteStarts ==
    ASSUME NEW p \in Proc, Execute(p)
    PROVE  \E n \in Name, e \in Primary, s \in {"", "fallback-success", "fallback-failure"} :
             s \in Secondary \cup {""} /\ Starts(p, n, e, s)
<1>1. PICK n \in Name, e \in Primary : \E s \in IF e = "success" THEN {""} ELSE Secondary :
        /\ calls < MaxCalls
        /\ calls' = calls + 1
        /\ Goto(p, "idle", "report")
        /\ name' = [name EXCEPT ![p] = n]
        /\ primary' = [primary EXCEPT ![p] = e]
        /\ secondary' = [secondary EXCEPT ![p] = s]
        /\ alone' = [q \in Proc |-> IF q = p THEN {c \in HasGauge : ~Misleading(p, c, n, e)}
                                    ELSE {c \in alone[q] : ~Uses(q, c, n)}]
        /\ doubtful' = [c \in HasGauge |->
              [doubtful[c] EXCEPT ![Key(c, n)] = @ \/ Misleading(p, c, n, e)]]
        /\ UNCHANGED <<open, counters, todo, upsets, torn>>
  BY Zenon DEF Execute
<1>2. PICK s \in IF e = "success" THEN {""} ELSE Secondary :
        /\ Goto(p, "idle", "report")
        /\ name' = [name EXCEPT ![p] = n]
        /\ primary' = [primary EXCEPT ![p] = e]
        /\ secondary' = [secondary EXCEPT ![p] = s]
        /\ alone' = [q \in Proc |-> IF q = p THEN {c \in HasGauge : ~Misleading(p, c, n, e)}
                                    ELSE {c \in alone[q] : ~Uses(q, c, n)}]
        /\ doubtful' = [c \in HasGauge |->
              [doubtful[c] EXCEPT ![Key(c, n)] = doubtful[c][Key(c, n)] \/ Misleading(p, c, n, e)]]
        /\ UNCHANGED <<open, counters, todo, upsets, torn>>
  BY <1>1
<1>3. s \in Secondary \cup {""} /\ s \in {"", "fallback-success", "fallback-failure"} /\ (e = "success" => s = "")
  BY <1>2, EventsAssumption
<1>4. Starts(p, n, e, s)
  BY <1>2, <1>3 DEF Starts, Goto, counters
<1> QED
  BY <1>3, <1>4

LEMMA RestStep ==
    ASSUME Types, CallInv, TodoInv, [Next]_vars PROVE RestTypes'
<1>r. RestTypes
  BY TypesSplit
<1>1. ASSUME NEW p \in Proc, Execute(p) PROVE RestTypes'
  <2>1. PICK n \in Name, e \in Primary, s \in {"", "fallback-success", "fallback-failure"} :
          Starts(p, n, e, s)
    BY <1>1, ExecuteStarts
  <2>3. UNCHANGED <<open, gauge, todo, torn>>
    BY <2>1 DEF Starts
  <2>4. DOMAIN doubtful' = HasGauge /\ \A c \in HasGauge : doubtful'[c] \in [Keys(c) -> BOOLEAN]
    <3>1. ASSUME NEW c \in HasGauge PROVE doubtful'[c] \in [Keys(c) -> BOOLEAN]
      <4>1. doubtful'[c] = [doubtful[c] EXCEPT ![Key(c, n)] = doubtful[c][Key(c, n)] \/ Misleading(p, c, n, e)]
        BY <2>1 DEF Starts
      <4>2. Misleading(p, c, n, e) \in BOOLEAN /\ doubtful[c] \in [Keys(c) -> BOOLEAN]
        BY <1>r DEF RestTypes, Misleading, Shared
      <4>3. PICK b \in BOOLEAN : b = (doubtful[c][Key(c, n)] \/ Misleading(p, c, n, e))
        BY <4>2
      <4> QED
        BY <4>1, <4>2, <4>3
    <3> QED
      BY <2>1, <3>1 DEF Starts
  <2>5. alone' \in [Proc -> SUBSET HasGauge]
    <3>1. PICK v : v = [q \in Proc |-> IF q = p THEN {c \in HasGauge : ~Misleading(p, c, n, e)}
                                      ELSE {c \in alone[q] : ~Uses(q, c, n)}]
      OBVIOUS
    <3>2. \A q \in Proc : v[q] \in SUBSET HasGauge
      BY <1>r, <3>1 DEF RestTypes
    <3>3. v \in [Proc -> SUBSET HasGauge]
      BY <3>1, <3>2
    <3>4. alone' = v
      BY <2>1, <3>1 DEF Starts
    <3> QED
      BY <3>3, <3>4
  <2>6. /\ pc' \in [Proc -> Location] /\ name' \in [Proc -> Name] /\ primary' \in [Proc -> PrimaryEvents]
        /\ secondary' \in [Proc -> {"", "fallback-success", "fallback-failure"}]
    <3>1. e \in PrimaryEvents /\ "report" \in Location
      BY EventsAssumption DEF Location
    <3>2. /\ pc' = [pc EXCEPT ![p] = "report"] /\ name' = [name EXCEPT ![p] = n]
          /\ primary' = [primary EXCEPT ![p] = e] /\ secondary' = [secondary EXCEPT ![p] = s]
      BY <2>1 DEF Starts
    <3> QED
      BY <1>r, <3>1, <3>2 DEF RestTypes
  <2> QED
    BY <1>r, <2>3, <2>4, <2>5, <2>6 DEF RestTypes
<1>2. ASSUME NEW p \in Proc, NEW resets \in BOOLEAN, Begins(p, resets), open' \in [Name -> BOOLEAN] PROVE RestTypes'
  <2>1. pc' \in [Proc -> Location] /\ todo' \in [Proc -> Writes]
    <3>1. pc' = [pc EXCEPT ![p] = "write"] /\ todo' = [todo EXCEPT ![p] = todo'[p]] /\ todo'[p] \in Writes
      BY <1>2 DEF Begins
    <3> QED
      BY <1>r, <3>1 DEF RestTypes, Location
  <2>2. UNCHANGED <<gauge, name, primary, secondary, alone, doubtful>> /\ torn' \in [Name -> BOOLEAN]
    BY <1>2 DEF Begins, OthersKept, counters
  <2> QED
    BY <1>r, <1>2, <2>1, <2>2 DEF RestTypes
<1>3. ASSUME NEW p \in Proc, ReportEvent(p) PROVE RestTypes'
  <2>1. CASE /\ pc' = [pc EXCEPT ![p] = "close"]
             /\ UNCHANGED <<open, counters, name, primary, secondary, todo, calls, upsets, torn, alone, doubtful>>
    BY <1>r, <2>1 DEF RestTypes, Location, counters
  <2>2. CASE Begins(p, FALSE) /\ UNCHANGED open
    <3>1. open' \in [Name -> BOOLEAN]
      BY <1>r, <2>2 DEF RestTypes
    <3> QED
      BY <1>2, <2>2, <3>1
  <2> QED
    BY <1>3, <2>1, <2>2, ReportBegins
<1>4. ASSUME NEW p \in Proc, SetClose(p) PROVE RestTypes'
  <2>1. (\E resets \in BOOLEAN : Begins(p, resets)) /\ open' = [open EXCEPT ![name[p]] = FALSE]
    BY <1>4, CloseBegins
  <2>2. open' \in [Name -> BOOLEAN]
    BY <1>r, <2>1 DEF RestTypes
  <2> QED
    BY <1>2, <2>1, <2>2
<1>5. ASSUME NEW p \in Proc, NEW do, Done(p, do), UNCHANGED <<open, call, torn>> PROVE
         /\ open' \in [Name -> BOOLEAN] /\ pc' \in [Proc -> Location] /\ name' \in [Proc -> Name]
         /\ primary' \in [Proc -> PrimaryEvents] /\ todo' \in [Proc -> Writes] /\ torn' \in [Name -> BOOLEAN]
         /\ secondary' \in [Proc -> {"", "fallback-success", "fallback-failure"}]
  <2>1. \E w \in WriteRecord : Finishes(p, w)
    <3>1. UNCHANGED <<name, primary, secondary>>
      BY <1>5 DEF call
    <3> QED
      BY <1>5, <3>1, DoneFinishes
  <2>2. todo' = [todo EXCEPT ![p] = Tail(todo[p])] /\ todo'[p] \in Writes
    BY <2>1 DEF Finishes, Does
  <2>3. todo' \in [Proc -> Writes]
    BY <1>r, <2>2 DEF RestTypes
  <2> QED
    BY <1>r, <1>5, <2>3 DEF RestTypes, call
<1>6. ASSUME NEW p \in Proc, Add(p) \/ Zero(p) \/ SendMetrics(p) PROVE RestTypes'
  <2>1. (\E do : Done(p, do)) /\ UNCHANGED <<open, call, torn>> /\ UNCHANGED <<gauge, alone, doubtful>>
    BY <1>6 DEF Add, Zero, SendMetrics, history
  <2> QED
    BY <1>r, <1>5, <2>1 DEF RestTypes
<1>7. ASSUME NEW p \in Proc, LoadTiming(p) PROVE RestTypes'
  <2>1. \E enabled \in BOOLEAN : Loads(p, enabled)
    BY <1>7, LoadTimingLoads
  <2>2. todo' = [todo EXCEPT ![p] = todo'[p]] /\ todo'[p] \in Writes
    BY <2>1 DEF Loads
  <2>3. todo' \in [Proc -> Writes]
    BY <1>r, <2>2 DEF RestTypes
  <2>4. UNCHANGED <<open, call, torn>> /\ UNCHANGED <<gauge, alone, doubtful>>
    BY <1>7 DEF LoadTiming, counters, history
  <2> QED
    BY <1>r, <2>3, <2>4 DEF RestTypes, call
<1>8. ASSUME NEW p \in Proc, NEW w \in WriteRecord, w = Head(todo[p]), w.do = "gauge"
      PROVE  w.to \in HasGauge /\ w.value \in {0, 1} /\ Key(w.to, name[p]) \in Keys(w.to)
  <2>1. w.to \in HasGauge /\ w.value \in {0, 1}
    BY <1>8 DEF WriteRecord
  <2>2. name[p] \in Name
    BY <1>r DEF RestTypes
  <2> QED
    BY <2>1, <2>2 DEF Keys
<1>9. ASSUME NEW p \in Proc, SetGauge(p) PROVE RestTypes'
  <2>1. Done(p, "gauge") /\ UNCHANGED <<open, call, torn>> /\ UNCHANGED <<alone, doubtful>>
    BY <1>9 DEF SetGauge, history
  <2>2. PICK w \in WriteRecord : w.do = "gauge" /\ w = Head(todo[p])
    BY <2>1, DoneFinishes DEF Finishes, call
  <2>3. PICK c, k, v : c = w.to /\ k = Key(c, name[p]) /\ v = w.value
    OBVIOUS
  <2>4. gauge' = [gauge EXCEPT ![c][k] = v]
    BY <1>9, <2>2, <2>3 DEF SetGauge
  <2>5. c \in HasGauge /\ v \in {0, 1} /\ k \in Keys(c)
    BY <1>8, <2>2, <2>3
  <2>6. DOMAIN gauge' = HasGauge /\ \A d \in HasGauge : gauge'[d] \in [Keys(d) -> {-1, 0, 1}]
    <3>1. PICK f : f = [gauge[c] EXCEPT ![k] = v]
      OBVIOUS
    <3>2. f \in [Keys(c) -> {-1, 0, 1}]
      BY <1>r, <2>5, <3>1 DEF RestTypes
    <3>3. gauge' = [gauge EXCEPT ![c] = f]
      BY <2>4, <3>1
    <3> QED
      BY <1>r, <2>5, <3>2, <3>3 DEF RestTypes
  <2> QED
    BY <1>r, <1>5, <2>1, <2>6 DEF RestTypes
<1>10. ASSUME NEW p \in Proc, GaugeFails(p) PROVE RestTypes'
  <2>1. Done(p, "gauge") /\ UNCHANGED <<open, call, torn>> /\ UNCHANGED gauge
    BY <1>10 DEF GaugeFails, counters
  <2>2. PICK w \in WriteRecord : w.do = "gauge" /\ w = Head(todo[p])
    BY <2>1, DoneFinishes DEF Finishes, call
  <2>3. PICK c, k : c = w.to /\ k = Key(c, name[p])
    OBVIOUS
  <2>4. doubtful' = [doubtful EXCEPT ![c][k] = TRUE] /\ alone' = [alone EXCEPT ![p] = @ \ {c}]
    BY <1>10, <2>2, <2>3 DEF GaugeFails
  <2>5. c \in HasGauge /\ k \in Keys(c)
    BY <1>8, <2>2, <2>3
  <2>6. DOMAIN doubtful' = HasGauge /\ \A d \in HasGauge : doubtful'[d] \in [Keys(d) -> BOOLEAN]
    <3>1. PICK f : f = [doubtful[c] EXCEPT ![k] = TRUE]
      OBVIOUS
    <3>2. f \in [Keys(c) -> BOOLEAN]
      BY <1>r, <2>5, <3>1 DEF RestTypes
    <3>3. doubtful' = [doubtful EXCEPT ![c] = f]
      BY <2>4, <3>1
    <3> QED
      BY <1>r, <2>5, <3>2, <3>3 DEF RestTypes
  <2>7. alone' \in [Proc -> SUBSET HasGauge]
    BY <1>r, <2>4 DEF RestTypes
  <2> QED
    BY <1>r, <1>5, <2>1, <2>6, <2>7 DEF RestTypes
<1>11. ASSUME NEW p \in Proc, Return(p) PROVE RestTypes'
  <2>1. /\ pc' = [pc EXCEPT ![p] = "idle"] /\ alone' = [alone EXCEPT ![p] = {}]
        /\ UNCHANGED <<open, gauge, name, primary, secondary, todo, torn>>
    BY <1>11 DEF Return, Goto, counters
  <2>2. DOMAIN doubtful' = HasGauge /\ \A c \in HasGauge : doubtful'[c] \in [Keys(c) -> BOOLEAN]
    <3>1. ASSUME NEW c \in HasGauge PROVE doubtful'[c] \in [Keys(c) -> BOOLEAN]
      <4>1. PICK b \in BOOLEAN : b = (doubtful[c][Key(c, name[p])]
                                      /\ ~(c \in alone[p] /\ primary[p] \in {"success", "short-circuit"}))
        OBVIOUS
      <4>2. doubtful'[c] = [doubtful[c] EXCEPT ![Key(c, name[p])] = b]
        BY <1>11, <4>1 DEF Return
      <4> QED
        BY <1>r, <4>2 DEF RestTypes
    <3> QED
      BY <1>11, <3>1 DEF Return
  <2> QED
    BY <1>r, <2>1, <2>2 DEF RestTypes, Location
<1>12. ASSUME NEW n \in Name, SetOpen(n) PROVE RestTypes'
  BY <1>r, <1>12 DEF SetOpen, RestTypes, counters, call, history
<1>13. ASSUME Terminated \/ UNCHANGED vars PROVE RestTypes'
  BY <1>r, <1>13 DEF Terminated, vars, RestTypes, counters, call, history
<1>14. ASSUME NEW p \in Proc, ReportForgotten(p) PROVE RestTypes'
  <2>1. Relays(p)
    BY <1>14, ForgottenRelays
  <2>2. pc' \in [Proc -> Location] /\ todo' \in [Proc -> Writes]
    <3>1. pc' = [pc EXCEPT ![p] = "write"] /\ todo' = [todo EXCEPT ![p] = todo'[p]] /\ todo'[p] \in Writes
      BY <2>1 DEF Relays
    <3> QED
      BY <1>r, <3>1 DEF RestTypes, Location
  <2>3. UNCHANGED <<open, gauge, name, primary, secondary, torn, alone, doubtful>>
    BY <2>1 DEF Relays, OthersKept
  <2> QED
    BY <1>r, <2>2, <2>3 DEF RestTypes
<1>15. ASSUME Flush PROVE RestTypes'
  <2>1. Forgets
    BY <1>15, FlushForgets
  <2>2. UNCHANGED <<gauge, name, primary, secondary>> /\ torn' \in [Name -> BOOLEAN] /\ alone' \in [Proc -> SUBSET HasGauge]
    BY <2>1 DEF Forgets
  <2>3. open' \in [Name -> BOOLEAN]
    BY <1>15 DEF Flush
  <2>4. pc' \in [Proc -> Location]
    <3>1. pc' = [q \in Proc |-> IF pc[q] \in {"report", "close"} THEN "forgotten" ELSE pc[q]]
      BY <1>15 DEF Flush
    <3> QED
      BY <1>r, <3>1 DEF RestTypes, Location
  <2>5. todo' \in [Proc -> Writes]
    <3>1. todo' = [q \in Proc |-> ToPlugins(todo[q])]
      BY <1>15 DEF Flush
    <3>2. \A q \in Proc : todo'[q] \in Writes
      BY <2>1 DEF Forgets, Does
    <3> QED
      BY <3>1, <3>2
  <2>6. DOMAIN doubtful' = HasGauge /\ \A c \in HasGauge : doubtful'[c] \in [Keys(c) -> BOOLEAN]
    <3>1. DOMAIN doubtful' = HasGauge
      BY <1>15 DEF Flush
    <3>2. ASSUME NEW c \in HasGauge PROVE doubtful'[c] \in [Keys(c) -> BOOLEAN]
      <4>1. PICK h : h = [k \in Keys(c) |-> (\E n \in Name : Key(c, n) = k /\ InUse(c, n))]
        OBVIOUS
      <4>2. DOMAIN doubtful[c] = Keys(c)
        BY <1>r DEF RestTypes
      <4>3. doubtful'[c] = [k \in DOMAIN doubtful[c] |->
                              doubtful[c][k] \/ \E n \in Name : Key(c, n) = k /\ InUse(c, n)]
        BY <1>15 DEF Flush
      <4> QED
        BY <4>2, <4>3
    <3> QED
      BY <3>1, <3>2
  <2> QED
    BY <1>r, <2>2, <2>3, <2>4, <2>5, <2>6 DEF RestTypes
<1> QED
  BY <1>1, <1>3, <1>4, <1>6, <1>7, <1>9, <1>10, <1>11, <1>12, <1>13, <1>14, <1>15 DEF Next

----------------------------------------------------------------------------
(* Calls, and the writes they have left.                                   *)

CallOf(p) ==
    /\ pc[p] # "idle" => BuildResult(primary[p], secondary[p]) \subseteq Used
    /\ pc[p] = "close" => primary[p] = "success"
    /\ pc[p] # "write" => todo[p] = <<>>

LEMMA CallFrame ==
    ASSUME NEW p, CallOf(p), UNCHANGED <<pc[p], primary[p], secondary[p], todo[p]>> PROVE CallOf(p)'
BY DEF CallOf

\* The goroutines that a step does not concern.
StillBut(p) ==
    \A q \in Proc : q # p => UNCHANGED <<pc[q], name[q], primary[q], secondary[q], todo[q]>>

LEMMA CallStep ==
    ASSUME Types, CallInv, TodoInv, [Next]_vars PROVE CallInv'
<1>i. CallInv <=> \A p \in Proc : CallOf(p)
  BY DEF CallInv, CallOf
<1>j. (\A p \in Proc : CallOf(p)') => CallInv'
  BY DEF CallInv, CallOf
<1>1. ASSUME NEW p \in Proc, Execute(p) PROVE CallOf(p)' /\ StillBut(p)
  <2>1. PICK n \in Name, e \in Primary, s \in {"", "fallback-success", "fallback-failure"} :
          s \in Secondary \cup {""} /\ Starts(p, n, e, s)
    BY <1>1, ExecuteStarts
  <2>2. /\ pc' = [pc EXCEPT ![p] = "report"]
        /\ name' = [name EXCEPT ![p] = n]
        /\ primary' = [primary EXCEPT ![p] = e]
        /\ secondary' = [secondary EXCEPT ![p] = s]
    BY <2>1 DEF Starts
  <2>3. pc[p] = "idle" /\ todo' = todo /\ todo[p] = <<>>
    BY <2>1 DEF Starts, CallInv
  <2>4. /\ pc'[p] = "report" /\ primary'[p] = e /\ secondary'[p] = s
        /\ \A q \in Proc : q # p => /\ pc'[q] = pc[q] /\ name'[q] = name[q]
                                    /\ primary'[q] = primary[q] /\ secondary'[q] = secondary[q]
    BY <2>2 DEF Types
  <2>5. BuildResult(e, s) \subseteq Used
    <3>1. BuildResult(e, s) \subseteq Metric
      BY EventsAssumption, ResultTypes DEF Metric
    <3> QED
      BY <2>1, <3>1 DEF Used
  <2> QED
    BY <2>3, <2>4, <2>5 DEF CallOf, StillBut
<1>2. ASSUME NEW p \in Proc, NEW resets \in BOOLEAN, Begins(p, resets) PROVE CallOf(p)' /\ StillBut(p)
  BY <1>2 DEF Begins, OthersKept, CallOf, CallInv, StillBut, Types
<1>3. ASSUME NEW p \in Proc, ReportEvent(p) PROVE CallOf(p)' /\ StillBut(p)
  <2>1. CASE /\ pc' = [pc EXCEPT ![p] = "close"] /\ primary[p] = "success"
             /\ UNCHANGED <<open, counters, name, primary, secondary, todo, calls, upsets, torn, alone, doubtful>>
    <3>1. pc[p] = "report"
      BY <1>3 DEF ReportEvent, Goto
    <3> QED
      BY <2>1, <3>1 DEF CallOf, CallInv, StillBut, Types
  <2> QED
    BY <1>2, <1>3, <2>1, ReportBegins
<1>4. ASSUME NEW p \in Proc, SetClose(p) PROVE CallOf(p)' /\ StillBut(p)
  BY <1>2, <1>4, CloseBegins
<1>5. ASSUME NEW p \in Proc, \/ Add(p) \/ Zero(p) \/ SendMetrics(p) \/ SetGauge(p) \/ GaugeFails(p) \/ LoadTiming(p)
      PROVE  CallOf(p)' /\ StillBut(p)
  <2>1. pc[p] = "write" /\ UNCHANGED call /\ \A q \in Proc : q # p => todo'[q] = todo[q]
    BY <1>5 DEF Add, Zero, SendMetrics, SetGauge, GaugeFails, LoadTiming, Done, Types
  <2> QED
    BY <2>1 DEF CallOf, CallInv, StillBut, call
<1>6. ASSUME NEW p \in Proc, Return(p) PROVE CallOf(p)' /\ StillBut(p)
  <2>1. /\ pc' = [pc EXCEPT ![p] = "idle"] /\ todo[p] = <<>>
        /\ UNCHANGED <<name, primary, secondary, todo>>
    BY <1>6 DEF Return, Goto
  <2> QED
    BY <2>1 DEF CallOf, CallInv, StillBut, Types
<1>7. ASSUME NEW p \in Proc, CallOf(p)' /\ StillBut(p) PROVE CallInv'
  <2>1. ASSUME NEW q \in Proc, q # p PROVE CallOf(q)'
    BY <1>i, <1>7, <2>1, CallFrame DEF StillBut
  <2> QED
    BY <1>j, <1>7, <2>1
<1>8. ASSUME UNCHANGED call, UNCHANGED todo PROVE CallInv'
  BY <1>8 DEF call, CallInv
<1>9. ASSUME NEW n \in Name, SetOpen(n) PROVE CallInv'
  BY <1>8, <1>9 DEF SetOpen
<1>10. ASSUME Terminated \/ UNCHANGED vars PROVE CallInv'
  BY <1>8, <1>10 DEF Terminated, vars
<1>11. ASSUME NEW p \in Proc, ReportForgotten(p) PROVE CallOf(p)' /\ StillBut(p)
  <2>1. Relays(p)
    BY <1>11, ForgottenRelays
  <2> QED
    BY <2>1 DEF Relays, OthersKept, CallOf, CallInv, StillBut, Types
<1>12. ASSUME Flush PROVE CallInv'
  <2>1. Forgets
    BY <1>12, FlushForgets
  <2>2. ASSUME NEW q \in Proc PROVE CallOf(q)'
    <3>1. /\ CallOf(q) /\ primary'[q] = primary[q] /\ secondary'[q] = secondary[q]
          /\ pc'[q] = IF pc[q] \in {"report", "close"} THEN "forgotten" ELSE pc[q]
          /\ todo[q] = <<>> => todo'[q] = <<>>
      BY <1>i, <2>1 DEF Forgets
    <3> QED
      BY <3>1 DEF CallOf
  <2> QED
    BY <1>j, <2>2
<1> QED
  BY <1>1, <1>3, <1>4, <1>5, <1>6, <1>7, <1>9, <1>10, <1>11, <1>12 DEF Next

\* What the result of a call puts on the list.
LEMMA ItemsOfCall ==
    ASSUME Types, CallInv, NEW p \in Proc, pc[p] # "idle"
    PROVE  /\ Timing \in AllItems(ResultOf(p))
           /\ \A m \in Durations : AddOf(m) \notin AllItems(ResultOf(p))
           /\ \A x \in AllItems(ResultOf(p)) :
                /\ x[1] # "zero"
                /\ x[1] = "loadTiming" => x = Timing
                /\ x[1] = "add" => x[3] \in Used
                /\ x[1] = "send" => x[2] # "default"
                /\ x[1] = "gauge" => /\ x[2] \in Collector
                                     /\ \/ primary[p] = "success" /\ x[3] = 0
                                        \/ primary[p] = "short-circuit" /\ x[3] = 1
<1>1. PICK R, e, s : R = BuildResult(e, s) /\ R = ResultOf(p) /\ e = primary[p] /\ s = secondary[p]
  BY DEF ResultOf
<1>2. /\ e \in PrimaryEvents /\ s \in {"", "fallback-success", "fallback-failure"}
      /\ R \subseteq Basic \cup Context /\ R \subseteq Used
  <2>1. e \in PrimaryEvents /\ s \in {"", "fallback-success", "fallback-failure"}
    BY <1>1 DEF Types
  <2> QED
    BY <1>1, <2>1, ResultTypes DEF CallInv
<1>3. ("successes" \in R => e = "success") /\ ("shortCircuits" \in R => e = "short-circuit")
  BY <1>1, <1>2 DEF BuildResult, CounterOf, PrimaryEvents
<1>4. Timing \in AllItems(R)
  BY DefaultKeys DEF AllItems, UpdateItems
<1>5. ASSUME NEW x \in AllItems(R), x[1] # "send"
      PROVE  \/ x = Timing
             \/ \E m \in R : x = AddOf(m)
             \/ \E c \in Collector \cap HasGauge :
                  ("successes" \in R /\ x = GaugeOf(c, 0)) \/ ("shortCircuits" \in R /\ x = GaugeOf(c, 1))
  <2>1. PICK c \in Collector : x \in UpdateItems(c, R)
    BY DEF AllItems
  <2> QED
    BY <1>5, <2>1 DEF UpdateItems, SendOf
<1>6. ASSUME NEW x \in AllItems(R)
      PROVE  /\ x[1] # "zero"
             /\ x[1] = "loadTiming" => x = Timing
             /\ x[1] = "add" => x[3] \in Used
             /\ x[1] = "gauge" => /\ x[2] \in Collector
                                  /\ (e = "success" /\ x[3] = 0) \/ (e = "short-circuit" /\ x[3] = 1)
  <2>1. CASE x[1] = "send"
    BY <2>1
  <2>2. CASE x = Timing
    BY <2>2 DEF Timing
  <2>3. CASE \E m \in R : x = AddOf(m)
    <3>1. PICK m \in R : x = AddOf(m)
      BY <2>3
    <3>2. x[1] = "add" /\ x[3] = m /\ m \in Used
      BY <1>2, <3>1 DEF AddOf
    <3> QED
      BY <3>2
  <2>4. ASSUME NEW c \in Collector, "successes" \in R, x = GaugeOf(c, 0)
        PROVE  x[1] = "gauge" /\ x[2] \in Collector /\ e = "success" /\ x[3] = 0
    BY <1>3, <2>4 DEF GaugeOf
  <2>5. ASSUME NEW c \in Collector, "shortCircuits" \in R, x = GaugeOf(c, 1)
        PROVE  x[1] = "gauge" /\ x[2] \in Collector /\ e = "short-circuit" /\ x[3] = 1
    BY <1>3, <2>5 DEF GaugeOf
  <2> QED
    BY <1>5, <2>1, <2>2, <2>3, <2>4, <2>5
<1>7. ASSUME NEW x \in AllItems(R), x[1] = "send" PROVE x[2] # "default"
  <2>1. PICK c \in Collector : x \in UpdateItems(c, R)
    BY DEF AllItems
  <2> QED
    BY <1>7, <2>1, ItemsNameKind
<1>8. ASSUME NEW m \in Durations, AddOf(m) \in AllItems(R) PROVE FALSE
  <2>1. m \in R
    BY <1>5, <1>8 DEF AddOf, Timing, GaugeOf
  <2> QED
    BY <1>2, <2>1 DEF Durations, Basic, Context
<1> QED
  BY <1>1, <1>4, <1>6, <1>7, <1>8

LEMMA TodoFrame ==
    ASSUME NEW p, TodoOf(p), UNCHANGED <<primary[p], todo[p]>> PROVE TodoOf(p)'
BY DEF TodoOf, Todo

LEMMA EmptyTodo == ASSUME NEW p, (todo[p] = <<>>)' PROVE TodoOf(p)'
<1>1. PICK ws : ws = todo'[p] /\ ws = <<>>
  OBVIOUS
<1>2. Apart(ws) /\ ZerosFirst(ws) /\ Items(ws) = {}
  <2>1. DOMAIN ws = {}
    BY <1>1
  <2> QED
    BY <2>1 DEF Apart, ZerosFirst, Items
<1> QED
  BY <1>1, <1>2 DEF TodoOf, Todo

LEMMA FinishesTodo ==
    ASSUME TodoInv, NEW p \in Proc, NEW w \in WriteRecord, Finishes(p, w) PROVE TodoOf(p)'
<1>1. /\ ItemsOf(w) \subseteq Todo(p) /\ Todo(p)' = Todo(p) \ ItemsOf(w) /\ primary'[p] = primary[p]
      /\ Apart(todo'[p]) /\ ZerosFirst(todo'[p]) /\ (w.do # "zero" => NoZero(Todo(p)))
  BY DEF Finishes, OthersKept, Does
<1>2. ASSUME NEW x \in Todo(p)', x[1] = "zero" PROVE Timing \in Todo(p)'
  <2>1. w.do = "zero"
    BY <1>1, <1>2 DEF NoZero
  <2>2. Timing \notin ItemsOf(w)
    BY <2>1 DEF ItemsOf, Timing
  <2> QED
    BY <1>1, <1>2, <2>2 DEF TodoInv, TodoOf
<1>3. \A x \in Todo(p)' :
         /\ x[1] = "loadTiming" => x = Timing
         /\ x[1] = "add" => x[3] \in Used
         /\ x[1] = "send" => x[2] # "default"
         /\ x[1] = "gauge" => /\ x[2] \in Collector
                              /\ (primary'[p] = "success" /\ x[3] = 0) \/ (primary'[p] = "short-circuit" /\ x[3] = 1)
  BY <1>1 DEF TodoInv, TodoOf
<1>4. Timing \in Todo(p)' => \A m \in Durations : AddOf(m) \notin Todo(p)'
  BY <1>1 DEF TodoInv, TodoOf
<1> QED
  BY <1>1, <1>2, <1>3, <1>4 DEF TodoOf

LEMMA LoadsTodo ==
    ASSUME TodoInv, NEW p \in Proc, NEW enabled \in BOOLEAN, Loads(p, enabled) PROVE TodoOf(p)'
<1>1. /\ NoZero(Todo(p)) /\ primary'[p] = primary[p]
      /\ Todo(p)' = (Todo(p) \ {Timing}) \cup (IF enabled THEN TimingAdds ELSE {})
      /\ Apart(todo'[p]) /\ ZerosFirst(todo'[p])
  BY DEF Loads, OthersKept, Does
<1>2. \A x \in TimingAdds : x # Timing /\ x[1] = "add" /\ x[3] \in Used
  <2>1. ASSUME NEW x \in TimingAdds PROVE x # Timing /\ x[1] = "add" /\ x[3] \in Used
    <3>1. PICK m \in Durations : x = AddOf(m)
      BY DEF TimingAdds
    <3>2. x[1] = "add" /\ x[3] = m /\ m \in Used
      BY <3>1 DEF AddOf, Used
    <3> QED
      BY <3>2 DEF Timing
  <2> QED
    BY <2>1
<1>3. ASSUME NEW x \in Todo(p)'
      PROVE  /\ x[1] # "zero" /\ x # Timing
             /\ x[1] = "loadTiming" => x = Timing
             /\ x[1] = "add" => x[3] \in Used
             /\ x[1] = "send" => x[2] # "default"
             /\ x[1] = "gauge" => /\ x[2] \in Collector
                                  /\ (primary'[p] = "success" /\ x[3] = 0) \/ (primary'[p] = "short-circuit" /\ x[3] = 1)
  <2>1. CASE x \in TimingAdds
    BY <1>2, <2>1
  <2>2. CASE x \in Todo(p) /\ x # Timing
    BY <1>1, <2>2 DEF NoZero, TodoInv, TodoOf
  <2> QED
    BY <1>1, <2>1, <2>2
<1> QED
  BY <1>1, <1>3 DEF TodoOf

LEMMA BeginsTodoOf ==
    ASSUME Types, CallInv, NEW p \in Proc, NEW resets \in BOOLEAN, Begins(p, resets) PROVE TodoOf(p)'
<1>1. /\ Todo(p)' = (IF resets THEN ZeroItems ELSE {}) \cup AllItems(ResultOf(p)) /\ primary'[p] = primary[p]
      /\ Apart(todo'[p]) /\ ZerosFirst(todo'[p]) /\ pc[p] # "idle"
  BY DEF Begins, OthersKept, Does
<1>2. PICK items : items = AllItems(ResultOf(p))
  OBVIOUS
<1>3. /\ Timing \in items
      /\ \A m \in Durations : AddOf(m) \notin items
      /\ \A x \in items :
           /\ x[1] # "zero"
           /\ x[1] = "loadTiming" => x = Timing
           /\ x[1] = "add" => x[3] \in Used
           /\ x[1] = "send" => x[2] # "default"
           /\ x[1] = "gauge" => /\ x[2] \in Collector
                                /\ \/ primary[p] = "success" /\ x[3] = 0
                                   \/ primary[p] = "short-circuit" /\ x[3] = 1
  BY <1>1, <1>2, ItemsOfCall
<1>4. \A x \in ZeroItems : x[1] = "zero"
  BY DEF ZeroItems, ZeroOf
<1>5. \A x \in Todo(p)' : x \in items \/ x[1] = "zero"
  BY <1>1, <1>2, <1>4
<1>6. Timing \in Todo(p)' /\ \A m \in Durations : AddOf(m) \notin Todo(p)'
  BY <1>1, <1>2, <1>3, <1>5 DEF AddOf
<1>7. ASSUME NEW x \in Todo(p)'
      PROVE  /\ x[1] = "loadTiming" => x = Timing
             /\ x[1] = "add" => x[3] \in Used
             /\ x[1] = "send" => x[2] # "default"
             /\ x[1] = "gauge" => /\ x[2] \in Collector
                                  /\ \/ primary'[p] = "success" /\ x[3] = 0
                                     \/ primary'[p] = "short-circuit" /\ x[3] = 1
  <2>1. CASE x \in items
    BY <1>1, <1>3, <2>1
  <2>2. CASE x[1] = "zero"
    BY <2>2
  <2> QED
    BY <1>5, <2>1, <2>2
<1> QED
  BY <1>1, <1>6, <1>7 DEF TodoOf

LEMMA RelaysTodoOf ==
    ASSUME Types, CallInv, NEW p \in Proc, Relays(p) PROVE TodoOf(p)'
<1>1. /\ Todo(p)' = ForPlugins(AllItems(ResultOf(p))) /\ primary'[p] = primary[p]
      /\ Apart(todo'[p]) /\ ZerosFirst(todo'[p]) /\ pc[p] # "idle"
  BY DEF Relays, OthersKept, Does
<1>2. PICK items : items = AllItems(ResultOf(p))
  OBVIOUS
<1>3. \A x \in items : /\ x[1] = "send" => x[2] # "default"
                       /\ x[1] = "gauge" => /\ x[2] \in Collector
                                            /\ \/ primary[p] = "success" /\ x[3] = 0
                                               \/ primary[p] = "short-circuit" /\ x[3] = 1
  BY <1>1, <1>2, ItemsOfCall
<1>4. \A x \in Todo(p)' : x \in items /\ x[1] \in {"send", "gauge"}
  BY <1>1, <1>2 DEF ForPlugins
<1>5. Timing \notin Todo(p)'
  BY <1>4 DEF Timing
<1> QED
  BY <1>1, <1>3, <1>4, <1>5 DEF TodoOf

LEMMA ForgetsTodoOf == ASSUME TodoInv, Forgets, NEW q \in Proc PROVE TodoOf(q)'
<1>1. /\ TodoOf(q) /\ Todo(q)' = ForPlugins(Todo(q)) /\ primary'[q] = primary[q]
      /\ Apart(todo'[q]) /\ ZerosFirst(todo'[q])
  BY DEF TodoInv, Forgets, Does
<1>2. \A x \in Todo(q)' : x \in Todo(q) /\ x[1] \in {"send", "gauge"}
  BY <1>1 DEF ForPlugins
<1>3. Timing \notin Todo(q)'
  BY <1>2 DEF Timing
<1> QED
  BY <1>1, <1>2, <1>3 DEF TodoOf

LEMMA TodoStep ==
    ASSUME Types, CallInv, TodoInv, [Next]_vars PROVE TodoInv'
<1>1. ASSUME NEW p \in Proc, OthersKept(p), TodoOf(p)' PROVE TodoInv'
  <2>1. ASSUME NEW q \in Proc, q # p PROVE TodoOf(q)'
    <3>1. TodoOf(q) /\ primary'[q] = primary[q] /\ todo'[q] = todo[q]
      BY <1>1, <2>1 DEF TodoInv, OthersKept
    <3> QED
      BY <3>1, TodoFrame
  <2> QED
    BY <1>1, <2>1 DEF TodoInv
<1>2. ASSUME UNCHANGED <<primary, todo>> PROVE TodoInv'
  BY <1>2, TodoFrame DEF TodoInv
<1>3. ASSUME NEW p \in Proc, Execute(p) PROVE TodoInv'
  <2>1. UNCHANGED todo /\ todo'[p] = <<>>
    BY <1>3 DEF Execute, Goto, CallInv
  <2>2. \A q \in Proc : q # p => primary'[q] = primary[q]
    BY <1>3 DEF Execute, Types
  <2>3. ASSUME NEW q \in Proc PROVE TodoOf(q)'
    BY <2>1, <2>2, TodoFrame, EmptyTodo DEF TodoInv
  <2> QED
    BY <2>3 DEF TodoInv
<1>4. ASSUME NEW p \in Proc, NEW resets \in BOOLEAN, Begins(p, resets) PROVE TodoInv'
  BY <1>1, <1>4, BeginsTodoOf DEF Begins
<1>5. ASSUME NEW p \in Proc, ReportEvent(p) PROVE TodoInv'
  BY <1>2, <1>4, <1>5, ReportBegins
<1>6. ASSUME NEW p \in Proc, SetClose(p) PROVE TodoInv'
  BY <1>4, <1>6, CloseBegins
<1>7. ASSUME NEW p \in Proc, Add(p) \/ Zero(p) \/ SendMetrics(p) \/ SetGauge(p) \/ GaugeFails(p) PROVE TodoInv'
  <2>1. PICK do : Done(p, do) /\ UNCHANGED <<name, primary, secondary>>
    BY <1>7 DEF Add, Zero, SendMetrics, SetGauge, GaugeFails, call
  <2>2. PICK w \in WriteRecord : Finishes(p, w)
    BY <2>1, DoneFinishes
  <2> QED
    BY <1>1, <2>2, FinishesTodo DEF Finishes
<1>8. ASSUME NEW p \in Proc, LoadTiming(p) PROVE TodoInv'
  <2>1. PICK enabled \in BOOLEAN : Loads(p, enabled)
    BY <1>8, LoadTimingLoads
  <2> QED
    BY <1>1, <2>1, LoadsTodo DEF Loads
<1>9. ASSUME NEW p \in Proc, Return(p) PROVE TodoInv'
  BY <1>2, <1>9 DEF Return
<1>10. ASSUME NEW n \in Name, SetOpen(n) PROVE TodoInv'
  BY <1>2, <1>10 DEF SetOpen, call
<1>11. ASSUME Terminated \/ UNCHANGED vars PROVE TodoInv'
  BY <1>2, <1>11 DEF Terminated, vars, call
<1>12. ASSUME NEW p \in Proc, ReportForgotten(p) PROVE TodoInv'
  <2>1. Relays(p)
    BY <1>12, ForgottenRelays
  <2> QED
    BY <1>1, <2>1, RelaysTodoOf DEF Relays
<1>13. ASSUME Flush PROVE TodoInv'
  <2>1. Forgets
    BY <1>13, FlushForgets
  <2> QED
    BY <2>1, ForgetsTodoOf DEF TodoInv
<1> QED
  BY <1>3, <1>5, <1>6, <1>7, <1>8, <1>9, <1>10, <1>11, <1>12, <1>13 DEF Next

\* At first nothing is left to do.
LEMMA InitTypes == Init => Types /\ CallInv /\ TodoInv
<1> SUFFICES ASSUME Init PROVE Types /\ CallInv /\ TodoInv
  OBVIOUS
<1>n. (CHOOSE n \in Name : TRUE) \in Name
  BY NameAssumption
<1>1. RestTypes
  <2>1. /\ name \in [Proc -> Name] /\ pc \in [Proc -> Location] /\ primary \in [Proc -> PrimaryEvents]
        /\ secondary \in [Proc -> {"", "fallback-success", "fallback-failure"}]
    BY <1>n DEF Init, Location, PrimaryEvents
  <2>2. todo \in [Proc -> Writes]
    <3>1. <<>> \in Writes
      BY DEF Writes
    <3> QED
      BY <3>1 DEF Init
  <2>3. /\ DOMAIN gauge = HasGauge /\ DOMAIN doubtful = HasGauge
        /\ \A c \in HasGauge : gauge[c] \in [Keys(c) -> {-1, 0, 1}] /\ doubtful[c] \in [Keys(c) -> BOOLEAN]
    BY DEF Init, Keys
  <2>4. torn \in [Name -> BOOLEAN] /\ alone \in [Proc -> SUBSET HasGauge]
    BY DEF Init
  <2>5. open \in [Name -> BOOLEAN]
    <3>1. \A n \in Name : (n \in Opened) \in BOOLEAN
      OBVIOUS
    <3> QED
      BY <3>1 DEF Init
  <2> QED
    BY <2>1, <2>2, <2>3, <2>4, <2>5 DEF RestTypes
<1>2. CountTypes
  <2>1. NewCollector \in [Metric -> Nat]
    BY DEF NewCollector
  <2> QED
    BY <2>1 DEF Init, CountTypes, Collector, Keys
<1>3. CallInv
  BY DEF Init, CallInv
<1>4. ASSUME NEW p \in Proc PROVE TodoOf(p)
  <2>0. todo[p] = <<>>
    BY DEF Init
  <2>1. todo[p] = <<>> /\ DOMAIN todo[p] = {}
    BY <2>0
  <2>2. Todo(p) = {}
    BY <2>1, TodoEmpty
  <2> QED
    BY <2>1, <2>2 DEF TodoOf, Apart, ZerosFirst
<1> QED
  BY <1>1, <1>2, <1>3, <1>4, TypesSplit DEF TodoInv

CallsInv == Types /\ CallInv /\ TodoInv

LEMMA CallsStep == CallsInv /\ [Next]_vars => CallsInv'
<1> SUFFICES ASSUME CallsInv, [Next]_vars PROVE CallsInv'
  OBVIOUS
<1>1. Types /\ CallInv /\ TodoInv
  BY DEF CallsInv
<1>2. RestTypes' /\ CountTypes'
  BY <1>1, RestStep, CountStep
<1>3. Types'
  BY <1>2 DEF Types, RestTypes, CountTypes
<1>4. CallInv' /\ TodoInv'
  BY <1>1, CallStep, TodoStep
<1> QED
  BY <1>3, <1>4 DEF CallsInv

\* The types of the state, and what goroutines have yet to write: each write once, the zeros of
\* Reset before everything else, and a gauge as the event of the call says.
THEOREM CallsKept == Spec => []CallsInv
<1>1. Init => CallsInv
  BY InitTypes DEF CallsInv
<1> QED
  BY <1>1, CallsStep, PTL DEF Spec

----------------------------------------------------------------------------
(* The gauges.                                                             *)

GaugesInv == AloneInv /\ GaugeInv

AloneOf(p, c) ==
    /\ c \in alone[p] => Busy(p) /\ ~Shared(p, c, name[p])
    /\ Busy(p) /\ ~doubtful[c][Key(c, name[p])] => c \in alone[p]
    /\ c \in alone[p] /\ primary[p] = "short-circuit" => open[name[p]]
    /\ c \in alone[p] /\ primary[p] = "success" /\ pc[p] = "write" =>
         gauge[c][Key(c, name[p])] # 1 \/ GaugeOf(c, 0) \in Todo(p)

\* Why a gauge may say open.
Excused(c, k) ==
    \/ doubtful[c][k]
    \/ \E n \in Name : Key(c, n) = k /\ open[n]
    \/ \E p \in Proc : Key(c, name[p]) = k /\ Busy(p) /\ primary[p] = "success"

LEMMA GaugesInvDef ==
    /\ GaugesInv <=> /\ \A p \in Proc, c \in HasGauge : AloneOf(p, c)
                     /\ \A c \in HasGauge \ Collector : \A k \in DOMAIN gauge[c] : gauge[c][k] # 1
                     /\ \A c \in HasGauge : \A k \in DOMAIN gauge[c] : gauge[c][k] = 1 => Excused(c, k)
BY DEF GaugesInv, AloneInv, GaugeInv, AloneOf, Excused

LEMMA KeyTypes ==
    ASSUME Types, NEW c \in HasGauge
    PROVE  /\ \A n \in Name : Key(c, n) \in Keys(c)
           /\ \A p \in Proc : name[p] \in Name /\ Key(c, name[p]) \in Keys(c)
           /\ DOMAIN gauge[c] = Keys(c) /\ DOMAIN doubtful[c] = Keys(c)
BY DEF Types, Keys

\* A step that leaves the gauges alone, and keeps the writes of a gauge.
Quiet ==
    /\ UNCHANGED <<gauge, name, primary, alone, doubtful>>
    /\ \A q \in Proc : Busy(q)' = Busy(q)
    /\ \A q \in Proc, c \in HasGauge : pc'[q] = "write" =>
         \/ pc[q] = "write" /\ (GaugeOf(c, 0) \in Todo(q) => GaugeOf(c, 0) \in Todo(q)')
         \/ c \in Collector /\ primary[q] = "success" => GaugeOf(c, 0) \in Todo(q)'
    /\ \A n \in Name : open[n] => \/ open'[n]
                                  \/ \E q \in Proc : name[q] = n /\ Busy(q) /\ primary[q] = "success"

LEMMA QuietGauges == ASSUME Types, GaugesInv, Quiet PROVE GaugesInv'
<1>k. /\ \A p \in Proc, c \in HasGauge : AloneOf(p, c)
      /\ \A c \in HasGauge \ Collector : \A k \in DOMAIN gauge[c] : gauge[c][k] # 1
      /\ \A c \in HasGauge : \A k \in DOMAIN gauge[c] : gauge[c][k] = 1 => Excused(c, k)
  BY GaugesInvDef
<1>1. ASSUME NEW p \in Proc, NEW c \in HasGauge PROVE AloneOf(p, c)'
  <2>1. AloneOf(p, c) /\ name[p] \in Name /\ Key(c, name[p]) \in DOMAIN gauge[c]
    BY <1>k, KeyTypes
  <2>2. UNCHANGED <<gauge, name, primary, alone, doubtful>> /\ Busy(p)' = Busy(p)
    BY DEF Quiet
  <2>3. Shared(p, c, name[p])' <=> Shared(p, c, name[p])
    BY DEF Quiet, Shared, Uses, Busy
  <2>4. ASSUME c \in alone[p], primary[p] = "short-circuit" PROVE open'[name[p]]
    <3>1. open[name[p]] /\ ~Shared(p, c, name[p])
      BY <2>1, <2>4 DEF AloneOf
    <3>2. ASSUME NEW q \in Proc, name[q] = name[p], Busy(q), primary[q] = "success" PROVE FALSE
      BY <2>4, <3>1, <3>2 DEF Shared, Uses, Busy
    <3> QED
      BY <2>1, <3>1, <3>2 DEF Quiet
  <2>5. ASSUME c \in alone[p], primary[p] = "success", pc'[p] = "write"
        PROVE  gauge[c][Key(c, name[p])] # 1 \/ GaugeOf(c, 0) \in Todo(p)'
    <3>1. CASE c \notin Collector
      BY <1>k, <2>1, <3>1
    <3>2. CASE pc[p] = "write" /\ (GaugeOf(c, 0) \in Todo(p) => GaugeOf(c, 0) \in Todo(p)')
      BY <2>1, <2>5, <3>2 DEF AloneOf
    <3>3. CASE c \in Collector /\ primary[p] = "success" => GaugeOf(c, 0) \in Todo(p)'
      BY <2>5, <3>1, <3>3
    <3> QED
      BY <2>5, <3>2, <3>3 DEF Quiet
  <2> QED
    BY <2>1, <2>2, <2>3, <2>4, <2>5 DEF AloneOf
<1>2. ASSUME NEW c \in HasGauge, NEW k \in DOMAIN gauge'[c], gauge'[c][k] = 1 PROVE Excused(c, k)'
  <2>1. UNCHANGED <<gauge, name, primary, doubtful>> /\ \A q \in Proc : Busy(q)' = Busy(q)
    BY DEF Quiet
  <2>2. Excused(c, k)
    BY <1>k, <1>2, <2>1
  <2>3. CASE doubtful[c][k]
    BY <2>1, <2>3 DEF Excused
  <2>4. CASE \E n \in Name : Key(c, n) = k /\ open[n]
    BY <2>1, <2>4 DEF Excused, Quiet
  <2>5. CASE \E p \in Proc : Key(c, name[p]) = k /\ Busy(p) /\ primary[p] = "success"
    BY <2>1, <2>5 DEF Excused
  <2> QED
    BY <2>2, <2>3, <2>4, <2>5 DEF Excused
<1>3. \A c \in HasGauge \ Collector : \A k \in DOMAIN gauge'[c] : gauge'[c][k] # 1
  BY <1>k DEF Quiet
<1> QED
  BY <1>1, <1>2, <1>3 DEF GaugesInv, AloneInv, GaugeInv, AloneOf, Excused

\* A call that begins to write will send the gauge, or has no collector with one.
LEMMA BeginsQuiet ==
    ASSUME Types, CallInv, NEW p \in Proc, NEW resets \in BOOLEAN, Begins(p, resets),
           \A n \in Name : open[n] => open'[n] \/ (n = name[p] /\ primary[p] = "success")
    PROVE  Quiet
<1>1. UNCHANGED <<gauge, name, primary, alone, doubtful>>
  BY DEF Begins, OthersKept, counters
<1>2. pc[p] # "idle" /\ pc' = [pc EXCEPT ![p] = "write"]
  BY DEF Begins
<1>3. \A q \in Proc : Busy(q)' = Busy(q)
  BY <1>2 DEF Busy, Types
<1>4. ASSUME NEW c \in HasGauge, c \in Collector, primary[p] = "success" PROVE GaugeOf(c, 0) \in Todo(p)'
  <2>1. "successes" \in ResultOf(p)
    BY <1>4 DEF ResultOf, BuildResult, CounterOf
  <2>2. GaugeOf(c, 0) \in UpdateItems(c, ResultOf(p))
    BY <2>1 DEF UpdateItems, HasGauge
  <2>3. GaugeOf(c, 0) \in AllItems(ResultOf(p))
    BY <1>4, <2>2 DEF AllItems
  <2> QED
    BY <2>3 DEF Begins
<1>5. ASSUME NEW q \in Proc, q # p PROVE pc'[q] = pc[q] /\ Todo(q)' = Todo(q)
  BY <1>2, <1>5 DEF Begins, OthersKept, Types
<1> QED
  BY <1>1, <1>2, <1>3, <1>4, <1>5 DEF Quiet, Busy

LEMMA RelaysQuiet == ASSUME Types, NEW p \in Proc, Relays(p) PROVE Quiet
<1>1. UNCHANGED <<open, gauge, name, primary, alone, doubtful>>
  BY DEF Relays, OthersKept
<1>2. pc[p] # "idle" /\ pc' = [pc EXCEPT ![p] = "write"]
  BY DEF Relays
<1>3. \A q \in Proc : Busy(q)' = Busy(q)
  BY <1>2 DEF Busy, Types
<1>4. ASSUME NEW c \in HasGauge, c \in Collector, primary[p] = "success" PROVE GaugeOf(c, 0) \in Todo(p)'
  <2>1. "successes" \in ResultOf(p)
    BY <1>4 DEF ResultOf, BuildResult, CounterOf
  <2>2. GaugeOf(c, 0) \in UpdateItems(c, ResultOf(p))
    BY <2>1 DEF UpdateItems, HasGauge
  <2>3. GaugeOf(c, 0) \in AllItems(ResultOf(p))
    BY <1>4, <2>2 DEF AllItems
  <2>4. GaugeOf(c, 0)[1] = "gauge"
    BY DEF GaugeOf
  <2> QED
    BY <2>3, <2>4 DEF Relays, ForPlugins
<1>5. ASSUME NEW q \in Proc, q # p PROVE pc'[q] = pc[q] /\ Todo(q)' = Todo(q)
  BY <1>2, <1>5 DEF Relays, OthersKept, Types
<1> QED
  BY <1>1, <1>2, <1>3, <1>4, <1>5 DEF Quiet, Busy

LEMMA FinishesQuiet ==
    ASSUME Types, NEW p \in Proc,
           \A c \in HasGauge : GaugeOf(c, 0) \in Todo(p) => GaugeOf(c, 0) \in Todo(p)',
           OthersKept(p), UNCHANGED <<open, gauge, pc, alone, doubtful>>
    PROVE  Quiet
BY DEF Quiet, OthersKept, Busy

LEMMA QuietSteps ==
    ASSUME Types, CallInv, TodoInv, NEW p \in Proc,
           \/ ReportEvent(p) \/ SetClose(p) \/ ReportForgotten(p)
           \/ Add(p) \/ Zero(p) \/ SendMetrics(p) \/ LoadTiming(p)
    PROVE  Quiet
<1>1. CASE ReportEvent(p)
  <2>1. CASE /\ pc' = [pc EXCEPT ![p] = "close"]
             /\ UNCHANGED <<open, counters, name, primary, secondary, todo, calls, upsets, torn, alone, doubtful>>
    <3>1. pc[p] = "report"
      BY <1>1 DEF ReportEvent, Goto
    <3>2. UNCHANGED <<gauge, name, primary, alone, doubtful, open, todo>>
      BY <2>1 DEF counters
    <3>3. \A q \in Proc : Busy(q)' = Busy(q)
      BY <2>1, <3>1 DEF Busy, Types
    <3>4. \A q \in Proc : pc'[q] = "write" => pc[q] = "write" /\ Todo(q)' = Todo(q)
      BY <2>1, <3>2 DEF Types, Todo
    <3> QED
      BY <3>2, <3>3, <3>4 DEF Quiet
  <2>2. CASE Begins(p, FALSE) /\ UNCHANGED open
    BY <2>2, BeginsQuiet
  <2> QED
    BY <1>1, <2>1, <2>2, ReportBegins
<1>2. CASE SetClose(p)
  <2>1. (\E resets \in BOOLEAN : Begins(p, resets)) /\ pc[p] = "close" /\ open' = [open EXCEPT ![name[p]] = FALSE]
    BY <1>2, CloseBegins
  <2>2. \A n \in Name : open[n] => open'[n] \/ (n = name[p] /\ primary[p] = "success")
    BY <2>1 DEF Types, CallInv
  <2> QED
    BY <2>1, <2>2, BeginsQuiet
<1>3. ASSUME NEW do \in {"add", "zero", "send"}, Done(p, do), UNCHANGED <<open, gauge, call, history>> PROVE Quiet
  <2>1. UNCHANGED <<open, gauge, pc, name, primary, secondary, alone, doubtful>>
    BY <1>3 DEF call, history
  <2>2. PICK w \in WriteRecord : w.do = do /\ Finishes(p, w)
    BY <1>3, <2>1, DoneFinishes
  <2>3. OthersKept(p) /\ Todo(p)' = Todo(p) \ ItemsOf(w)
    BY <2>2 DEF Finishes
  <2>4. \A x \in ItemsOf(w) : x[1] # "gauge"
    BY <2>2 DEF ItemsOf
  <2>5. \A c \in HasGauge : GaugeOf(c, 0) \notin ItemsOf(w)
    BY <2>4 DEF GaugeOf
  <2> QED
    BY <2>1, <2>3, <2>5, FinishesQuiet
<1>4. CASE Add(p) \/ Zero(p) \/ SendMetrics(p)
  BY <1>3, <1>4 DEF Add, Zero, SendMetrics
<1>5. CASE LoadTiming(p)
  <2>1. UNCHANGED <<open, gauge, pc, alone, doubtful>>
    BY <1>5 DEF LoadTiming, counters, call, history
  <2>2. PICK enabled \in BOOLEAN : Loads(p, enabled)
    BY <1>5, LoadTimingLoads
  <2>3. OthersKept(p) /\ Todo(p)' = (Todo(p) \ {Timing}) \cup (IF enabled THEN TimingAdds ELSE {})
    BY <2>2 DEF Loads
  <2>4. \A c \in HasGauge : GaugeOf(c, 0) # Timing
    BY DEF GaugeOf, Timing
  <2> QED
    BY <2>1, <2>3, <2>4, FinishesQuiet
<1>6. CASE ReportForgotten(p)
  BY <1>6, ForgottenRelays, RelaysQuiet
<1> QED
  BY <1>1, <1>2, <1>4, <1>5, <1>6


\* To prove GaugesInv after a step.
LEMMA GaugesAfter ==
    ASSUME \A p \in Proc, c \in HasGauge : AloneOf(p, c)',
           \A c \in HasGauge \ Collector : \A k \in DOMAIN gauge'[c] : gauge'[c][k] # 1,
           \A c \in HasGauge : \A k \in DOMAIN gauge'[c] : gauge'[c][k] = 1 => Excused(c, k)'
    PROVE  GaugesInv'
BY DEF GaugesInv, AloneInv, GaugeInv, AloneOf, Excused

LEMMA ExecuteGauges ==
    ASSUME Types, CallInv, GaugesInv, NEW p \in Proc, Execute(p) PROVE GaugesInv'
<1>k. /\ \A q \in Proc, c \in HasGauge : AloneOf(q, c)
      /\ \A c \in HasGauge \ Collector : \A k \in DOMAIN gauge[c] : gauge[c][k] # 1
      /\ \A c \in HasGauge : \A k \in DOMAIN gauge[c] : gauge[c][k] = 1 => Excused(c, k)
  BY GaugesInvDef
<1>1. PICK n \in Name, e \in Primary, s \in {"", "fallback-success", "fallback-failure"} : Starts(p, n, e, s)
  BY ExecuteStarts
<1>2. UNCHANGED <<open, gauge, todo>> /\ pc[p] = "idle"
  BY <1>1 DEF Starts
<1>3. /\ pc'[p] = "report" /\ name'[p] = n /\ primary'[p] = e
      /\ \A q \in Proc : q # p => /\ pc'[q] = pc[q] /\ name'[q] = name[q] /\ primary'[q] = primary[q]
                                  /\ Todo(q)' = Todo(q)
  <2>1. /\ pc' = [pc EXCEPT ![p] = "report"] /\ name' = [name EXCEPT ![p] = n]
        /\ primary' = [primary EXCEPT ![p] = e]
    BY <1>1 DEF Starts
  <2> QED
    BY <1>2, <2>1 DEF Types, Todo
<1>m. ASSUME NEW c PROVE /\ Shared(p, c, n) => Misleading(p, c, n, e)
                         /\ e = "short-circuit" /\ ~Misleading(p, c, n, e) => open[n]
  BY DEF Misleading
<1>4. ASSUME NEW c \in HasGauge, NEW k \in Keys(c)
      PROVE  doubtful'[c][k] <=> doubtful[c][k] \/ (k = Key(c, n) /\ Misleading(p, c, n, e))
  <2>1. doubtful'[c] = [doubtful[c] EXCEPT ![Key(c, n)] = doubtful[c][Key(c, n)] \/ Misleading(p, c, n, e)]
    BY <1>1 DEF Starts
  <2>2. PICK f, h : f = doubtful[c] /\ h = Key(c, n)
    OBVIOUS
  <2>3. f \in [Keys(c) -> BOOLEAN] /\ h \in Keys(c)
    BY <2>2, KeyTypes DEF Types
  <2>4. PICK b \in BOOLEAN : b <=> (f[h] \/ Misleading(p, c, n, e))
    OBVIOUS
  <2>5. doubtful'[c] = [f EXCEPT ![h] = f[h] \/ Misleading(p, c, n, e)]
    BY <2>1, <2>2
  <2>6. k # h => doubtful'[c][k] = f[k]
    BY <2>3, <2>5
  <2>7. k = h => (doubtful'[c][k] <=> f[h] \/ Misleading(p, c, n, e))
    BY <2>3, <2>5
  <2> QED
    BY <2>2, <2>6, <2>7
<1>5. /\ alone'[p] = {c \in HasGauge : ~Misleading(p, c, n, e)}
      /\ \A q \in Proc : q # p => alone'[q] = {c \in alone[q] : ~Uses(q, c, n)}
  <2>1. alone' = [q \in Proc |-> IF q = p THEN {c \in HasGauge : ~Misleading(p, c, n, e)}
                                ELSE {c \in alone[q] : ~Uses(q, c, n)}]
    BY <1>1 DEF Starts
  <2> QED
    BY <2>1
<1>6. ASSUME NEW q \in Proc, q # p, NEW c PROVE \A h : (Uses(q, c, h)' <=> Uses(q, c, h))
  BY <1>3, <1>6 DEF Uses
<1>7. ASSUME NEW c \in HasGauge PROVE AloneOf(p, c)'
  <2>1. Shared(p, c, n)' <=> Shared(p, c, n)
    <3>1. \A q \in Proc \ {p} : Uses(q, c, n)' <=> Uses(q, c, n)
      BY <1>3 DEF Uses
    <3> QED
      BY <3>1 DEF Shared
  <2>2. ~doubtful'[c][Key(c, n)] => ~Misleading(p, c, n, e)
    BY <1>4, KeyTypes
  <2>3. Busy(p)' /\ pc'[p] # "write" /\ open' = open
    BY <1>2, <1>3 DEF Busy
  <2>5. c \in alone'[p] <=> ~Misleading(p, c, n, e)
    BY <1>5
  <2>4. Shared(p, c, name[p])' <=> Shared(p, c, n)'
    BY <1>3 DEF Shared, Uses
  <2> QED
    BY <1>3, <1>m, <2>1, <2>2, <2>3, <2>4, <2>5 DEF AloneOf
<1>8. ASSUME NEW q \in Proc, q # p, NEW c \in HasGauge PROVE AloneOf(q, c)'
  <2>1. AloneOf(q, c) /\ Key(c, name[q]) \in Keys(c) /\ (c \in alone'[q] <=> c \in alone[q] /\ ~Uses(q, c, n))
    BY <1>k, <1>5, <1>8, KeyTypes
  <2>2. pc'[q] = pc[q] /\ name'[q] = name[q] /\ primary'[q] = primary[q] /\ Todo(q)' = Todo(q)
    BY <1>3, <1>8
  <2>3. ASSUME c \in alone'[q] PROVE Busy(q)' /\ ~Shared(q, c, name[q])'
    <3>1. Busy(q) /\ ~Shared(q, c, name[q]) /\ ~Uses(q, c, n)
      BY <2>1, <2>3 DEF AloneOf
    <3>2. Key(c, name[q]) # Key(c, n)
      BY <3>1 DEF Uses, Busy
    <3>3. ASSUME NEW r \in Proc \ {q} PROVE ~Uses(r, c, name[q])'
      <4>1. CASE r = p
        BY <1>3, <2>2, <3>2, <4>1 DEF Uses
      <4>2. CASE r # p
        BY <1>3, <2>2, <3>1, <4>2 DEF Uses, Shared
      <4> QED
        BY <4>1, <4>2
    <3> QED
      BY <2>2, <3>1, <3>3 DEF Shared, Busy
  <2>4. ASSUME Busy(q), ~doubtful'[c][Key(c, name[q])] PROVE c \in alone'[q]
    <3>1. c \in alone[q]
      BY <1>4, <2>1, <2>4 DEF AloneOf
    <3>2. Uses(q, c, n) => Misleading(p, c, n, e)
      BY <1>8 DEF Misleading, Shared
    <3>3. Uses(q, c, n) => Key(c, name[q]) = Key(c, n)
      BY DEF Uses
    <3> QED
      BY <1>4, <2>1, <2>4, <3>1, <3>2, <3>3
  <2> QED
    BY <1>2, <2>1, <2>2, <2>3, <2>4 DEF AloneOf, Busy
<1>9. ASSUME NEW c \in HasGauge, NEW k \in DOMAIN gauge'[c], gauge'[c][k] = 1 PROVE Excused(c, k)'
  <2>1. Excused(c, k) /\ k \in Keys(c)
    BY <1>k, <1>2, <1>9, KeyTypes
  <2>2. CASE doubtful[c][k]
    BY <1>4, <2>1, <2>2 DEF Excused
  <2>3. CASE \E h \in Name : Key(c, h) = k /\ open[h]
    BY <1>2, <2>3 DEF Excused
  <2>4. CASE \E q \in Proc : Key(c, name[q]) = k /\ Busy(q) /\ primary[q] = "success"
    <3>1. PICK q \in Proc : Key(c, name[q]) = k /\ Busy(q) /\ primary[q] = "success"
      BY <2>4
    <3>2. q # p
      BY <1>2, <3>1 DEF Busy
    <3> QED
      BY <1>3, <3>1, <3>2 DEF Excused, Busy
  <2> QED
    BY <2>1, <2>2, <2>3, <2>4 DEF Excused
<1>10. \A c \in HasGauge \ Collector : \A k \in DOMAIN gauge'[c] : gauge'[c][k] # 1
  BY <1>k, <1>2
<1>11. \A q \in Proc, c \in HasGauge : AloneOf(q, c)'
  BY <1>7, <1>8
<1> QED
  BY <1>9, <1>10, <1>11, GaugesAfter


\* The write of a gauge that p has to do next.
LEMMA NextGauge ==
    ASSUME Types, TodoInv, NEW p \in Proc, Done(p, "gauge"), UNCHANGED <<name, primary, secondary>>
    PROVE  \E c \in HasGauge, v \in {0, 1} :
             /\ c = Head(todo[p]).to /\ v = Head(todo[p]).value
             /\ GaugeOf(c, v) \in Todo(p) /\ Todo(p)' = Todo(p) \ {GaugeOf(c, v)} /\ OthersKept(p)
             /\ c \in Collector /\ pc[p] = "write"
             /\ \/ primary[p] = "success" /\ v = 0
                \/ primary[p] = "short-circuit" /\ v = 1
<1>1. PICK w \in WriteRecord : w.do = "gauge" /\ Finishes(p, w)
  BY DoneFinishes
<1>2. PICK c \in HasGauge, v \in {0, 1} : c = w.to /\ v = w.value
  BY <1>1 DEF WriteRecord
<1>3. ItemsOf(w) = {GaugeOf(c, v)}
  BY <1>1, <1>2 DEF ItemsOf, GaugeOf
<1>4. /\ w = Head(todo[p]) /\ GaugeOf(c, v) \in Todo(p) /\ Todo(p)' = Todo(p) \ {GaugeOf(c, v)}
      /\ OthersKept(p) /\ pc[p] = "write"
  BY <1>1, <1>3 DEF Finishes
<1>5. GaugeOf(c, v)[1] = "gauge" /\ GaugeOf(c, v)[2] = c /\ GaugeOf(c, v)[3] = v
  BY DEF GaugeOf
<1>6. c \in Collector /\ ((primary[p] = "success" /\ v = 0) \/ (primary[p] = "short-circuit" /\ v = 1))
  <2>1. PICK x : x = GaugeOf(c, v) /\ x \in Todo(p) /\ x[1] = "gauge" /\ x[2] = c /\ x[3] = v
    BY <1>4, <1>5
  <2>2. x[2] \in Collector /\ ((primary[p] = "success" /\ x[3] = 0) \/ (primary[p] = "short-circuit" /\ x[3] = 1))
    <3>1. \A y \in Todo(p) : y[1] = "gauge" =>
             /\ y[2] \in Collector
             /\ \/ primary[p] = "success" /\ y[3] = 0
                \/ primary[p] = "short-circuit" /\ y[3] = 1
      BY DEF TodoInv, TodoOf
    <3> QED
      BY <2>1, <3>1
  <2> QED
    BY <2>1, <2>2
<1> QED
  BY <1>2, <1>4, <1>6

LEMMA SetGaugeGauges ==
    ASSUME Types, TodoInv, GaugesInv, NEW p \in Proc, SetGauge(p) PROVE GaugesInv'
<1>k. /\ \A q \in Proc, c \in HasGauge : AloneOf(q, c)
      /\ \A c \in HasGauge \ Collector : \A k \in DOMAIN gauge[c] : gauge[c][k] # 1
      /\ \A c \in HasGauge : \A k \in DOMAIN gauge[c] : gauge[c][k] = 1 => Excused(c, k)
  BY GaugesInvDef
<1>1. Done(p, "gauge") /\ UNCHANGED <<open, pc, name, primary, secondary, alone, doubtful>>
  BY DEF SetGauge, call, history
<1>2. PICK a \in HasGauge, v \in {0, 1} :
         /\ a = Head(todo[p]).to /\ v = Head(todo[p]).value
         /\ GaugeOf(a, v) \in Todo(p) /\ Todo(p)' = Todo(p) \ {GaugeOf(a, v)} /\ OthersKept(p)
         /\ a \in Collector /\ pc[p] = "write"
         /\ \/ primary[p] = "success" /\ v = 0
            \/ primary[p] = "short-circuit" /\ v = 1
  BY <1>1, NextGauge
<1>3. PICK h : h = Key(a, name[p])
  OBVIOUS
<1>4. gauge' = [gauge EXCEPT ![a][h] = v]
  BY <1>2, <1>3 DEF SetGauge
<1>5. /\ h \in Keys(a)
      /\ \A c \in HasGauge : DOMAIN gauge'[c] = Keys(c) /\ DOMAIN gauge[c] = Keys(c)
      /\ \A c \in HasGauge : \A k \in Keys(c) :
           gauge'[c][k] = IF c = a /\ k = h THEN v ELSE gauge[c][k]
  <2>1. PICK f : f = gauge[a]
    OBVIOUS
  <2>2. gauge' = [gauge EXCEPT ![a] = [f EXCEPT ![h] = v]]
    BY <1>4, <2>1
  <2>3. DOMAIN gauge = HasGauge /\ f \in [Keys(a) -> {-1, 0, 1}] /\ h \in Keys(a)
    BY <1>3, <2>1, KeyTypes DEF Types
  <2>4. gauge'[a] = [f EXCEPT ![h] = v] /\ \A c \in HasGauge : c # a => gauge'[c] = gauge[c]
    BY <2>2, <2>3
  <2>5. DOMAIN gauge'[a] = Keys(a) /\ \A k \in Keys(a) : gauge'[a][k] = IF k = h THEN v ELSE f[k]
    BY <2>3, <2>4
  <2> QED
    BY <2>1, <2>3, <2>4, <2>5, KeyTypes
<1>6. ASSUME NEW q \in Proc, NEW c \in HasGauge PROVE AloneOf(q, c)'
  <2>1. AloneOf(q, c) /\ Key(c, name[q]) \in Keys(c) /\ Key(c, name[p]) \in Keys(c)
    BY <1>k, KeyTypes
  <2>2. /\ UNCHANGED <<open, pc, name, primary, alone, doubtful>>
        /\ Shared(q, c, name[q])' <=> Shared(q, c, name[q])
    BY <1>1 DEF Shared, Uses
  <2>3. ASSUME c \in alone[q], primary[q] = "success", pc[q] = "write"
        PROVE  gauge'[c][Key(c, name[q])] # 1 \/ GaugeOf(c, 0) \in Todo(q)'
    <3>1. gauge[c][Key(c, name[q])] # 1 \/ GaugeOf(c, 0) \in Todo(q)
      BY <2>1, <2>3 DEF AloneOf
    <3>2. CASE q = p /\ c = a
      BY <1>2, <1>3, <1>5, <2>3, <3>2
    <3>3. CASE q = p /\ c # a
      <4>1. GaugeOf(c, 0) # GaugeOf(a, v)
        BY <3>3 DEF GaugeOf
      <4>2. gauge'[c][Key(c, name[q])] = gauge[c][Key(c, name[q])]
        BY <1>5, <2>1, <3>3
      <4> QED
        BY <1>2, <3>1, <3>3, <4>1, <4>2
    <3>4. CASE q # p
      <4>1. Todo(q)' = Todo(q)
        BY <1>2, <3>4 DEF OthersKept
      <4>2. Key(c, name[q]) # Key(c, name[p])
        <5>1. ~Shared(q, c, name[q])
          BY <2>1, <2>3 DEF AloneOf
        <5>2. ~Uses(p, c, name[q])
          BY <3>4, <5>1 DEF Shared
        <5> QED
          BY <1>2, <5>2 DEF Uses
      <4>3. gauge'[c][Key(c, name[q])] = gauge[c][Key(c, name[q])]
        BY <1>3, <1>5, <2>1, <4>2
      <4> QED
        BY <3>1, <4>1, <4>3
    <3> QED
      BY <3>2, <3>3, <3>4
  <2> QED
    BY <2>1, <2>2, <2>3 DEF AloneOf, Busy
<1>7. ASSUME NEW c \in HasGauge, NEW k \in DOMAIN gauge'[c], gauge'[c][k] = 1 PROVE Excused(c, k)'
  <2>1. Excused(c, k) => Excused(c, k)'
    BY <1>1 DEF Excused, Busy
  <2>2. CASE c = a /\ k = h
    <3>1. primary[p] = "short-circuit"
      BY <1>2, <1>5, <1>7, <2>2
    <3>2. CASE doubtful[a][h]
      BY <2>1, <2>2, <3>2 DEF Excused
    <3>3. CASE ~doubtful[a][h]
      <4>1. open[name[p]] /\ name[p] \in Name
        BY <1>k, <1>2, <1>3, <3>1, <3>3, KeyTypes DEF AloneOf, Busy
      <4> QED
        BY <1>3, <2>1, <2>2, <4>1 DEF Excused
    <3> QED
      BY <3>2, <3>3
  <2>3. CASE ~(c = a /\ k = h)
    BY <1>k, <1>5, <1>7, <2>1, <2>3
  <2> QED
    BY <2>2, <2>3
<1>8. \A c \in HasGauge \ Collector : \A k \in DOMAIN gauge'[c] : gauge'[c][k] # 1
  BY <1>k, <1>2, <1>5
<1>9. \A q \in Proc, c \in HasGauge : AloneOf(q, c)'
  BY <1>6
<1> QED
  BY <1>7, <1>8, <1>9, GaugesAfter

LEMMA GaugeFailsGauges ==
    ASSUME Types, TodoInv, GaugesInv, NEW p \in Proc, GaugeFails(p) PROVE GaugesInv'
<1>k. /\ \A q \in Proc, c \in HasGauge : AloneOf(q, c)
      /\ \A c \in HasGauge \ Collector : \A k \in DOMAIN gauge[c] : gauge[c][k] # 1
      /\ \A c \in HasGauge : \A k \in DOMAIN gauge[c] : gauge[c][k] = 1 => Excused(c, k)
  BY GaugesInvDef
<1>1. Done(p, "gauge") /\ UNCHANGED <<open, gauge, pc, name, primary, secondary>>
  BY DEF GaugeFails, call, counters
<1>2. PICK a \in HasGauge, v \in {0, 1} :
         /\ a = Head(todo[p]).to /\ v = Head(todo[p]).value
         /\ GaugeOf(a, v) \in Todo(p) /\ Todo(p)' = Todo(p) \ {GaugeOf(a, v)} /\ OthersKept(p)
         /\ a \in Collector /\ pc[p] = "write"
         /\ \/ primary[p] = "success" /\ v = 0
            \/ primary[p] = "short-circuit" /\ v = 1
  BY <1>1, NextGauge
<1>3. PICK h : h = Key(a, name[p])
  OBVIOUS
<1>4. doubtful' = [doubtful EXCEPT ![a][h] = TRUE] /\ alone' = [alone EXCEPT ![p] = alone[p] \ {a}]
  BY <1>2, <1>3 DEF GaugeFails
<1>5. /\ alone'[p] = alone[p] \ {a} /\ \A q \in Proc : q # p => alone'[q] = alone[q]
      /\ \A c \in HasGauge : \A k \in Keys(c) :
           doubtful'[c][k] = IF c = a /\ k = h THEN TRUE ELSE doubtful[c][k]
  <2>1. PICK f : f = doubtful[a]
    OBVIOUS
  <2>2. doubtful' = [doubtful EXCEPT ![a] = [f EXCEPT ![h] = TRUE]]
    BY <1>4, <2>1
  <2>3. DOMAIN doubtful = HasGauge /\ f \in [Keys(a) -> BOOLEAN] /\ h \in Keys(a)
    BY <1>3, <2>1, KeyTypes DEF Types
  <2>4. doubtful'[a] = [f EXCEPT ![h] = TRUE] /\ \A c \in HasGauge : c # a => doubtful'[c] = doubtful[c]
    BY <2>2, <2>3
  <2>5. \A k \in Keys(a) : doubtful'[a][k] = IF k = h THEN TRUE ELSE f[k]
    BY <2>3, <2>4
  <2>6. alone'[p] = alone[p] \ {a} /\ \A q \in Proc : q # p => alone'[q] = alone[q]
    BY <1>4 DEF Types
  <2> QED
    BY <2>1, <2>4, <2>5, <2>6
<1>6. ASSUME NEW q \in Proc, NEW c \in HasGauge PROVE AloneOf(q, c)'
  <2>1. AloneOf(q, c) /\ Key(c, name[q]) \in Keys(c)
    BY <1>k, KeyTypes
  <2>2. /\ UNCHANGED <<open, gauge, pc, name, primary>>
        /\ Shared(q, c, name[q])' <=> Shared(q, c, name[q])
    BY <1>1 DEF Shared, Uses
  <2>3. c \in alone'[q] <=> c \in alone[q] /\ ~(q = p /\ c = a)
    BY <1>5
  <2>4. ~doubtful'[c][Key(c, name[q])] => ~doubtful[c][Key(c, name[q])] /\ ~(q = p /\ c = a)
    BY <1>3, <1>5, <2>1
  <2>5. ~(q = p /\ c = a) => (GaugeOf(c, 0) \in Todo(q) => GaugeOf(c, 0) \in Todo(q)')
    <3>1. CASE q # p
      BY <1>2, <3>1 DEF OthersKept
    <3>2. CASE q = p /\ c # a
      <4>1. GaugeOf(c, 0) # GaugeOf(a, v)
        BY <3>2 DEF GaugeOf
      <4> QED
        BY <1>2, <3>2, <4>1
    <3> QED
      BY <3>1, <3>2
  <2> QED
    BY <2>1, <2>2, <2>3, <2>4, <2>5 DEF AloneOf, Busy
<1>7. ASSUME NEW c \in HasGauge, NEW k \in DOMAIN gauge'[c], gauge'[c][k] = 1 PROVE Excused(c, k)'
  <2>1. Excused(c, k) /\ k \in Keys(c)
    BY <1>k, <1>1, <1>7, KeyTypes
  <2>2. doubtful[c][k] => doubtful'[c][k]
    BY <1>5, <2>1
  <2> QED
    BY <1>1, <2>1, <2>2 DEF Excused, Busy
<1>8. \A c \in HasGauge \ Collector : \A k \in DOMAIN gauge'[c] : gauge'[c][k] # 1
  BY <1>k, <1>1
<1>9. \A q \in Proc, c \in HasGauge : AloneOf(q, c)'
  BY <1>6
<1> QED
  BY <1>7, <1>8, <1>9, GaugesAfter

LEMMA ReturnGauges ==
    ASSUME Types, GaugesInv, NEW p \in Proc, Return(p) PROVE GaugesInv'
<1>k. /\ \A q \in Proc, c \in HasGauge : AloneOf(q, c)
      /\ \A c \in HasGauge \ Collector : \A k \in DOMAIN gauge[c] : gauge[c][k] # 1
      /\ \A c \in HasGauge : \A k \in DOMAIN gauge[c] : gauge[c][k] = 1 => Excused(c, k)
  BY GaugesInvDef
<1>1. /\ pc[p] = "write" /\ pc' = [pc EXCEPT ![p] = "idle"] /\ Todo(p) = {}
      /\ UNCHANGED <<open, gauge, name, primary, todo>>
  BY TodoEmpty DEF Return, Goto, counters
<1>2. /\ alone' = [alone EXCEPT ![p] = {}]
      /\ doubtful' = [c \in HasGauge |->
          [doubtful[c] EXCEPT ![Key(c, name[p])] =
              doubtful[c][Key(c, name[p])] /\ ~(c \in alone[p] /\ primary[p] \in {"success", "short-circuit"})]]
  BY DEF Return
<1>3. /\ ~Busy(p)' /\ \A q \in Proc : q # p => pc'[q] = pc[q]
      /\ alone'[p] = {} /\ \A q \in Proc : q # p => alone'[q] = alone[q]
      /\ \A q \in Proc : Todo(q)' = Todo(q)
  BY <1>1, <1>2 DEF Types, Busy, Todo
<1>4. ASSUME NEW c \in HasGauge, NEW k \in Keys(c)
      PROVE  doubtful'[c][k] <=>
               doubtful[c][k] /\ ~(k = Key(c, name[p]) /\ c \in alone[p] /\ primary[p] \in {"success", "short-circuit"})
  <2>1. PICK f, h, b : /\ f = doubtful[c] /\ h = Key(c, name[p])
                       /\ b = (c \in alone[p] /\ primary[p] \in {"success", "short-circuit"})
    OBVIOUS
  <2>2. f \in [Keys(c) -> BOOLEAN] /\ h \in Keys(c)
    BY <2>1, KeyTypes DEF Types
  <2>3. doubtful'[c] = [f EXCEPT ![h] = f[h] /\ ~b]
    BY <1>2, <2>1
  <2>4. k # h => doubtful'[c][k] = f[k]
    BY <2>2, <2>3
  <2>5. k = h => (doubtful'[c][k] <=> f[h] /\ ~b)
    BY <2>2, <2>3
  <2> QED
    BY <2>1, <2>4, <2>5
<1>5. ASSUME NEW q \in Proc, NEW c \in HasGauge PROVE AloneOf(q, c)'
  <2>1. CASE q = p
    BY <1>3, <2>1 DEF AloneOf
  <2>2. CASE q # p
    <3>1. AloneOf(q, c) /\ Key(c, name[q]) \in Keys(c) /\ AloneOf(p, c)
      BY <1>k, KeyTypes
    <3>2. /\ UNCHANGED <<open, gauge, name, primary>> /\ pc'[q] = pc[q] /\ alone'[q] = alone[q]
          /\ Todo(q)' = Todo(q)
      BY <1>1, <1>3, <2>2
    <3>3. Shared(q, c, name[q])' => Shared(q, c, name[q])
      BY <1>1, <1>3 DEF Shared, Uses, Busy
    <3>4. ASSUME Busy(q), ~doubtful'[c][Key(c, name[q])] PROVE ~doubtful[c][Key(c, name[q])]
      <4>1. SUFFICES ASSUME Key(c, name[q]) = Key(c, name[p]), c \in alone[p] PROVE FALSE
        BY <1>4, <3>1, <3>4
      <4>2. Uses(q, c, name[p])
        BY <3>4, <4>1 DEF Uses, Busy
      <4> QED
        BY <2>2, <3>1, <4>1, <4>2 DEF AloneOf, Shared
    <3> QED
      BY <3>1, <3>2, <3>3, <3>4 DEF AloneOf, Busy
  <2> QED
    BY <2>1, <2>2
<1>6. ASSUME NEW c \in HasGauge, NEW k \in DOMAIN gauge'[c], gauge'[c][k] = 1 PROVE Excused(c, k)'
  <2>1. Excused(c, k) /\ k \in Keys(c) /\ AloneOf(p, c) /\ gauge[c][k] = 1
    BY <1>k, <1>1, <1>6, KeyTypes
  <2>2. (\E n \in Name : Key(c, n) = k /\ open[n]) => Excused(c, k)'
    BY <1>1 DEF Excused
  <2>3. ASSUME k = Key(c, name[p]), c \in alone[p], primary[p] = "success" PROVE FALSE
    BY <1>1, <2>1, <2>3 DEF AloneOf
  <2>4. ASSUME k = Key(c, name[p]), c \in alone[p], primary[p] = "short-circuit" PROVE Excused(c, k)'
    BY <2>1, <2>2, <2>4, KeyTypes DEF AloneOf
  <2>5. CASE doubtful[c][k]
    BY <1>4, <2>1, <2>3, <2>4, <2>5 DEF Excused
  <2>6. ASSUME NEW q \in Proc, Key(c, name[q]) = k, Busy(q), primary[q] = "success", ~doubtful[c][k]
        PROVE  Excused(c, k)'
    <3>1. CASE q = p
      BY <2>1, <2>3, <2>6, <3>1 DEF AloneOf
    <3>2. CASE q # p
      BY <1>1, <1>3, <2>6, <3>2 DEF Excused, Busy
    <3> QED
      BY <3>1, <3>2
  <2> QED
    BY <2>1, <2>2, <2>5, <2>6 DEF Excused
<1>7. \A c \in HasGauge \ Collector : \A k \in DOMAIN gauge'[c] : gauge'[c][k] # 1
  BY <1>k, <1>1
<1>8. \A q \in Proc, c \in HasGauge : AloneOf(q, c)'
  BY <1>5
<1> QED
  BY <1>6, <1>7, <1>8, GaugesAfter

\* After a Flush every gauge that may say open may be wrong.
LEMMA FlushGauges == ASSUME Types, TodoInv, GaugesInv, Flush PROVE GaugesInv'
<1>k. /\ \A q \in Proc, c \in HasGauge : AloneOf(q, c)
      /\ \A c \in HasGauge \ Collector : \A k \in DOMAIN gauge[c] : gauge[c][k] # 1
      /\ \A c \in HasGauge : \A k \in DOMAIN gauge[c] : gauge[c][k] = 1 => Excused(c, k)
  BY GaugesInvDef
<1>1. Forgets
  BY FlushForgets
<1>2. UNCHANGED <<gauge, name, primary>> /\ \A q \in Proc : alone'[q] = {}
  BY <1>1 DEF Forgets
<1>3. \A q \in Proc : Busy(q)' <=> Busy(q)
  <2>1. \A q \in Proc : pc'[q] = IF pc[q] \in {"report", "close"} THEN "forgotten" ELSE pc[q]
    BY <1>1 DEF Forgets
  <2> QED
    BY <2>1 DEF Busy
<1>4. ASSUME NEW c \in HasGauge, NEW k \in Keys(c)
      PROVE  doubtful'[c][k] <=> doubtful[c][k] \/ \E n \in Name : Key(c, n) = k /\ InUse(c, n)
  <2>1. PICK b \in BOOLEAN : b <=> \E n \in Name : Key(c, n) = k /\ InUse(c, n)
    OBVIOUS
  <2>2. doubtful'[c] = [i \in DOMAIN doubtful[c] |->
                          doubtful[c][i] \/ \E n \in Name : Key(c, n) = i /\ InUse(c, n)]
    BY Zenon DEF Flush
  <2>3. k \in DOMAIN doubtful[c]
    BY KeyTypes
  <2> QED
    BY <2>2, <2>3
<1>5. ASSUME NEW q \in Proc, NEW c \in HasGauge, Busy(q) PROVE doubtful'[c][Key(c, name[q])]
  <2>1. name[q] \in Name /\ Key(c, name[q]) \in Keys(c)
    BY KeyTypes
  <2>2. Uses(q, c, name[q])
    BY <1>5 DEF Uses, Busy
  <2>3. InUse(c, name[q])
    BY <2>2 DEF InUse
  <2> QED
    BY <1>4, <2>1, <2>3
<1>6. ASSUME NEW q \in Proc, NEW c \in HasGauge PROVE AloneOf(q, c)'
  BY <1>2, <1>3, <1>5 DEF AloneOf
<1>7. ASSUME NEW c \in HasGauge, NEW k \in DOMAIN gauge'[c], gauge'[c][k] = 1 PROVE Excused(c, k)'
  <2>1. Excused(c, k) /\ k \in Keys(c)
    BY <1>k, <1>2, <1>7, KeyTypes
  <2>2. ASSUME NEW n \in Name, Key(c, n) = k, open[n] PROVE doubtful'[c][k]
    BY <1>4, <2>1, <2>2 DEF InUse
  <2>3. doubtful'[c][k]
    BY <1>4, <1>5, <2>1, <2>2 DEF Excused
  <2> QED
    BY <2>3 DEF Excused
<1>8. \A c \in HasGauge \ Collector : \A k \in DOMAIN gauge'[c] : gauge'[c][k] # 1
  BY <1>k, <1>2
<1>9. \A q \in Proc, c \in HasGauge : AloneOf(q, c)'
  BY <1>6
<1> QED
  BY <1>7, <1>8, <1>9, GaugesAfter

LEMMA GaugesStep == ASSUME CallsInv, GaugesInv, [Next]_vars PROVE GaugesInv'
<1>t. Types /\ CallInv /\ TodoInv
  BY DEF CallsInv
<1>1. ASSUME NEW p \in Proc, \/ Execute(p) \/ ReportEvent(p) \/ SetClose(p) \/ ReportForgotten(p) \/ Return(p)
                             \/ Add(p) \/ Zero(p) \/ LoadTiming(p)
                             \/ SendMetrics(p) \/ SetGauge(p) \/ GaugeFails(p)
      PROVE  GaugesInv'
  BY <1>t, <1>1, ExecuteGauges, QuietSteps, QuietGauges, SetGaugeGauges, GaugeFailsGauges, ReturnGauges
<1>2. ASSUME NEW n \in Name, SetOpen(n) PROVE Quiet
  <2>1. UNCHANGED <<gauge, pc, name, primary, todo, alone, doubtful>> /\ open' = [open EXCEPT ![n] = TRUE]
    BY <1>2 DEF SetOpen, counters, call, history
  <2>2. \A k \in Name : open[k] => open'[k]
    BY <1>t, <2>1 DEF Types
  <2> QED
    BY <2>1, <2>2 DEF Quiet, Busy, Todo
<1>3. ASSUME Terminated \/ UNCHANGED vars PROVE Quiet
  BY <1>3 DEF Terminated, vars, counters, call, history, Quiet, Busy, Todo
<1>4. ASSUME Flush PROVE GaugesInv'
  BY <1>t, <1>4, FlushGauges
<1> QED
  BY <1>t, <1>1, <1>2, <1>3, <1>4, QuietGauges DEF Next

LEMMA GaugesInit == Init => GaugesInv
<1> SUFFICES ASSUME Init PROVE GaugesInv
  OBVIOUS
<1>1. Types
  BY InitTypes
<1>2. ASSUME NEW p \in Proc, NEW c \in HasGauge PROVE AloneOf(p, c)
  BY DEF Init, AloneOf, Busy
<1>3. ASSUME NEW c \in HasGauge, NEW k \in DOMAIN gauge[c] PROVE gauge[c][k] # 1
  <2>1. gauge[c][k] = -1
    BY DEF Init
  <2> QED
    BY <2>1
<1> QED
  BY <1>2, <1>3, GaugesInvDef

\* Module Collectors' GaugeRecovers: however calls overlap, sends of gauges fail, commands are
\* nested and circuits are flushed, no gauge says open when no circuit it stands for is, once a
\* success or a short circuit by the call's own circuit has had it to itself, whatever the
\* circuits, the events and the number of goroutines and of calls.
THEOREM GaugesRecover == Spec => []GaugeRecovers
<1>1. Init => CallsInv /\ GaugesInv
  BY InitTypes, GaugesInit DEF CallsInv
<1>2. CallsInv /\ GaugesInv /\ [Next]_vars => (CallsInv /\ GaugesInv)'
  BY CallsStep, GaugesStep
<1>3. GaugesInv => GaugeRecovers
  BY GaugesInvDef DEF GaugeRecovers, AtRest, Excused, Busy
<1> QED
  BY <1>1, <1>2, <1>3, PTL DEF Spec

----------------------------------------------------------------------------
(* The counters: the kinds of steps.                                       *)

\* A set that gains or loses at most p.
LEMMA CardChange ==
    ASSUME NEW A, IsFiniteSet(A), NEW B, NEW p, \A q : q # p => (q \in A <=> q \in B)
    PROVE  /\ IsFiniteSet(B) /\ Cardinality(A) \in Nat /\ Cardinality(B) \in Nat
           /\ Cardinality(B) = Cardinality(A) + (IF p \in B THEN 1 ELSE 0) - (IF p \in A THEN 1 ELSE 0)
<1>1. /\ Cardinality(A) \in Nat
      /\ IsFiniteSet(A \cup {p})
      /\ Cardinality(A \cup {p}) = IF p \in A THEN Cardinality(A) ELSE Cardinality(A) + 1
      /\ IsFiniteSet(A \ {p})
      /\ Cardinality(A \ {p}) = IF p \in A THEN Cardinality(A) - 1 ELSE Cardinality(A)
  BY FS_CardinalityType, FS_AddElement, FS_RemoveElement
<1>2. CASE p \in B
  <2>1. B = A \cup {p}
    BY <1>2
  <2> QED
    BY <1>1, <1>2, <2>1
<1>3. CASE p \notin B
  <2>1. B = A \ {p}
    BY <1>3
  <2>2. IsFiniteSet(B) /\ Cardinality(B) \in Nat
    BY <1>1, <2>1, FS_CardinalityType
  <2> QED
    BY <1>1, <1>3, <2>1, <2>2
<1> QED
  BY <1>2, <1>3

\* Only finitely many goroutines are in a call.
BusyInv == IsFiniteSet({p \in Proc : Busy(p)})

LEMMA BusyStep == ASSUME Types, BusyInv, [Next]_vars PROVE BusyInv'
<1>1. \/ \A q \in Proc : Busy(q)' <=> Busy(q)
      \/ \E p \in Proc : \A q \in Proc : q # p => pc'[q] = pc[q]
  <2>1. ASSUME NEW p \in Proc, \/ Execute(p) \/ ReportEvent(p) \/ SetClose(p) \/ ReportForgotten(p) \/ Return(p)
        PROVE  \A q \in Proc : q # p => pc'[q] = pc[q]
    <3>1. \E to : pc' = [pc EXCEPT ![p] = to]
      BY <2>1 DEF Execute, ReportEvent, SetClose, ReportForgotten, Return, Goto
    <3> QED
      BY <3>1 DEF Types
  <2>2. ASSUME NEW p \in Proc, \/ Add(p) \/ Zero(p) \/ LoadTiming(p)
                               \/ SendMetrics(p) \/ SetGauge(p) \/ GaugeFails(p)
        PROVE  UNCHANGED pc
    BY <2>2 DEF Add, Zero, LoadTiming, SendMetrics, SetGauge, GaugeFails, call
  <2>3. ASSUME NEW n \in Name, SetOpen(n) PROVE UNCHANGED pc
    BY <2>3 DEF SetOpen, call
  <2>4. ASSUME Terminated \/ UNCHANGED vars PROVE UNCHANGED pc
    BY <2>4 DEF Terminated, vars, call
  <2>5. ASSUME Flush PROVE \A q \in Proc : Busy(q)' <=> Busy(q)
    <3>1. \A q \in Proc : pc'[q] = IF pc[q] \in {"report", "close"} THEN "forgotten" ELSE pc[q]
      BY <2>5 DEF Flush
    <3> QED
      BY <3>1 DEF Busy
  <2>6. ASSUME UNCHANGED pc PROVE \A q \in Proc : Busy(q)' <=> Busy(q)
    BY <2>6 DEF Busy
  <2> QED
    BY <2>1, <2>2, <2>3, <2>4, <2>5, <2>6 DEF Next
<1>2. CASE \A q \in Proc : Busy(q)' <=> Busy(q)
  <2>1. {q \in Proc : Busy(q)'} = {q \in Proc : Busy(q)}
    BY <1>2
  <2> QED
    BY <2>1 DEF BusyInv, Busy
<1>3. CASE \E p \in Proc : \A q \in Proc : q # p => pc'[q] = pc[q]
  <2>1. PICK p \in Proc : \A q \in Proc : q # p => pc'[q] = pc[q]
    BY <1>3
  <2>2. PICK A, B : A = {q \in Proc : pc[q] # "idle"} /\ B = {q \in Proc : pc'[q] # "idle"}
    OBVIOUS
  <2>3. IsFiniteSet(A) /\ \A q : q # p => (q \in A <=> q \in B)
    BY <2>1, <2>2 DEF BusyInv, Busy
  <2>4. IsFiniteSet(B)
    BY ONLY <2>3, CardChange
  <2> QED
    BY <2>2, <2>4 DEF BusyInv, Busy
<1> QED
  BY <1>1, <1>2, <1>3

\* Who has something to do is in a call.
LEMMA TodoBusy ==
    ASSUME CallInv, BusyInv, NEW S, \A p \in S : p \in Proc /\ Todo(p) # {}
    PROVE  IsFiniteSet(S)
<1>1. S \subseteq {p \in Proc : Busy(p)}
  BY TodoEmpty DEF CallInv, Busy
<1> QED
  BY <1>1, FS_Subset DEF BusyInv

\* A step that counts nothing, and changes nothing but gauges in what is left to count.
Idle ==
    /\ UNCHANGED <<count, torn>>
    /\ \A q \in Proc : /\ name'[q] = name[q] \/ (Todo(q) = {} /\ Todo(q)' = {})
                       /\ \A x : x[1] # "gauge" => (x \in Todo(q)' <=> x \in Todo(q))

Adds(p, m) ==
    /\ OthersKept(p) /\ torn' = torn
    /\ AddOf(m) \in Todo(p) /\ Todo(p)' = Todo(p) \ {AddOf(m)} /\ NoZero(Todo(p))
    /\ count' = [count EXCEPT !["default"][name[p]][m] = @ + 1]

Zeroes(p, m) ==
    /\ OthersKept(p) /\ torn' = torn
    /\ ZeroOf(m) \in Todo(p) /\ Todo(p)' = Todo(p) \ {ZeroOf(m)}
    /\ count' = [count EXCEPT !["default"][name[p]][m] = 0]

SentItems(metrics) == {SendOf(x[1], x[2]) : x \in metrics}
Sends(p, metrics) ==
    /\ OthersKept(p) /\ torn' = torn
    /\ SentItems(metrics) \subseteq Todo(p) /\ Todo(p)' = Todo(p) \ SentItems(metrics)
    /\ Increment(name[p], metrics)

LEMMA StepKinds ==
    ASSUME CallsInv, [Next]_vars
    PROVE  \/ Idle
           \/ Forgets /\ Empties
           \/ \E p \in Proc :
                \/ Relays(p)
                \/ \E resets \in BOOLEAN : Begins(p, resets)
                \/ \E enabled \in BOOLEAN : Loads(p, enabled) /\ UNCHANGED <<count, torn>>
                \/ \E m \in Used : Adds(p, m)
                \/ \E m \in Metric : Zeroes(p, m)
                \/ \E metrics \in SUBSET (Kind \X Metric) : Sends(p, metrics)
<1>t. Types /\ CallInv /\ TodoInv
  BY DEF CallsInv
<1>1. ASSUME UNCHANGED <<count, torn, todo>>,
             \A q \in Proc : name'[q] = name[q] \/ todo[q] = <<>>
      PROVE  Idle
  <2>1. \A q \in Proc : Todo(q)' = Todo(q)
    BY <1>1 DEF Todo
  <2> QED
    BY <1>1, <2>1, TodoEmpty DEF Idle
<1>2. ASSUME NEW p \in Proc, Execute(p) PROVE Idle
  <2>1. PICK n, e, s : Starts(p, n, e, s)
    BY <1>2, ExecuteStarts
  <2>2. UNCHANGED <<count, torn, todo>> /\ todo[p] = <<>>
    BY <1>t, <2>1 DEF Starts, CallInv
  <2>3. \A q \in Proc : q # p => name'[q] = name[q]
    BY <1>t, <2>1 DEF Starts, Types
  <2> QED
    BY <1>1, <2>2, <2>3
<1>3. ASSUME NEW p \in Proc, ReportEvent(p) PROVE Idle \/ \E resets \in BOOLEAN : Begins(p, resets)
  <2>1. CASE UNCHANGED <<open, counters, name, primary, secondary, todo, calls, upsets, torn, alone, doubtful>>
    BY <1>1, <2>1 DEF counters
  <2> QED
    BY <1>t, <1>3, <2>1, ReportBegins
<1>4. ASSUME NEW p \in Proc, SetClose(p) PROVE \E resets \in BOOLEAN : Begins(p, resets)
  BY <1>t, <1>4, CloseBegins
<1>5. ASSUME NEW p \in Proc, Return(p) PROVE Idle
  BY <1>1, <1>5 DEF Return, counters
<1>6. ASSUME NEW p \in Proc, NEW do, Done(p, do), UNCHANGED call
      PROVE  \E w \in WriteRecord : w.do = do /\ Finishes(p, w)
  BY <1>t, <1>6, DoneFinishes DEF call
<1>7. ASSUME NEW p \in Proc, Add(p) PROVE \E m \in Used : Adds(p, m)
  <2>1. PICK w \in WriteRecord : w.do = "add" /\ Finishes(p, w)
    BY <1>6, <1>7 DEF Add
  <2>2. PICK m : m = w.metric /\ ItemsOf(w) = {AddOf(m)}
    BY <2>1 DEF ItemsOf, AddOf
  <2>3. /\ OthersKept(p) /\ AddOf(m) \in Todo(p) /\ Todo(p)' = Todo(p) \ {AddOf(m)} /\ NoZero(Todo(p))
        /\ w = Head(todo[p])
    BY <2>1, <2>2 DEF Finishes
  <2>4. m \in Used
    <3>1. PICK x : x = AddOf(m) /\ x[1] = "add" /\ x[3] = m /\ x \in Todo(p)
      BY <2>3 DEF AddOf
    <3>2. \A y \in Todo(p) : y[1] = "add" => y[3] \in Used
      BY <1>t DEF TodoInv, TodoOf
    <3> QED
      BY <3>1, <3>2
  <2>5. torn' = torn /\ count' = [count EXCEPT !["default"][name[p]][m] = @ + 1]
    BY <1>7, <2>2, <2>3 DEF Add, history
  <2> QED
    BY <2>3, <2>4, <2>5 DEF Adds
<1>8. ASSUME NEW p \in Proc, Zero(p) PROVE \E m \in Metric : Zeroes(p, m)
  <2>1. PICK w \in WriteRecord : w.do = "zero" /\ Finishes(p, w)
    BY <1>6, <1>8 DEF Zero
  <2>2. PICK m \in Metric : m = w.metric /\ ItemsOf(w) = {ZeroOf(m)}
    BY <2>1 DEF ItemsOf, ZeroOf, WriteRecord
  <2>3. /\ OthersKept(p) /\ ZeroOf(m) \in Todo(p) /\ Todo(p)' = Todo(p) \ {ZeroOf(m)} /\ w = Head(todo[p])
    BY <2>1, <2>2 DEF Finishes
  <2>4. torn' = torn /\ count' = [count EXCEPT !["default"][name[p]][m] = 0]
    BY <1>8, <2>2, <2>3 DEF Zero, history
  <2> QED
    BY <2>3, <2>4 DEF Zeroes
<1>9. ASSUME NEW p \in Proc, SendMetrics(p) PROVE \E metrics \in SUBSET (Kind \X Metric) : Sends(p, metrics)
  <2>1. PICK w \in WriteRecord : w.do = "send" /\ Finishes(p, w)
    BY <1>6, <1>9 DEF SendMetrics
  <2>2. PICK metrics \in SUBSET (Kind \X Metric) : metrics = w.metrics
    BY <2>1 DEF WriteRecord
  <2>3. ItemsOf(w) = SentItems(metrics)
    BY <2>1, <2>2 DEF ItemsOf, SentItems, SendOf
  <2>4. /\ OthersKept(p) /\ SentItems(metrics) \subseteq Todo(p) /\ Todo(p)' = Todo(p) \ SentItems(metrics)
        /\ w = Head(todo[p])
    BY <2>1, <2>3 DEF Finishes
  <2>5. torn' = torn /\ Increment(name[p], metrics)
    BY <1>9, <2>2, <2>4 DEF SendMetrics, history
  <2> QED
    BY <2>4, <2>5 DEF Sends
<1>10. ASSUME NEW p \in Proc, SetGauge(p) \/ GaugeFails(p) PROVE Idle
  <2>1. Done(p, "gauge") /\ UNCHANGED <<count, torn, call>>
    BY <1>10 DEF SetGauge, GaugeFails, counters, history
  <2>2. PICK w \in WriteRecord : w.do = "gauge" /\ Finishes(p, w)
    BY <1>6, <2>1
  <2>3. OthersKept(p) /\ Todo(p)' = Todo(p) \ ItemsOf(w) /\ \A x \in ItemsOf(w) : x[1] = "gauge"
    BY <2>2 DEF Finishes, ItemsOf
  <2> QED
    BY <2>1, <2>3 DEF Idle, OthersKept
<1>11. ASSUME NEW p \in Proc, LoadTiming(p)
       PROVE  \E enabled \in BOOLEAN : Loads(p, enabled) /\ UNCHANGED <<count, torn>>
  <2>1. UNCHANGED <<count, torn>>
    BY <1>11 DEF LoadTiming, counters, history
  <2> QED
    BY <1>t, <1>11, <2>1, LoadTimingLoads
<1>12. ASSUME NEW n \in Name, SetOpen(n) PROVE Idle
  BY <1>1, <1>12 DEF SetOpen, counters, call, history
<1>13. ASSUME Terminated \/ UNCHANGED vars PROVE Idle
  BY <1>1, <1>13 DEF Terminated, vars, counters, call, history
<1>14. ASSUME NEW p \in Proc, ReportForgotten(p) PROVE Relays(p)
  BY <1>t, <1>14, ForgottenRelays
<1>15. ASSUME Flush PROVE Forgets /\ Empties
  BY <1>t, <1>15, FlushForgets, FlushCounts
<1> QED
  BY <1>2, <1>3, <1>4, <1>5, <1>7, <1>8, <1>9, <1>10, <1>11, <1>12, <1>13, <1>14, <1>15 DEF Next

----------------------------------------------------------------------------
(* Who resets.                                                             *)

\* Within, said with items.
LEMMA WithinItems ==
    ASSUME NEW p \in Proc, NEW n, NEW do \in SUBSET {"add", "zero", "loadTiming"},
           NEW q \in Proc, q # p, name[q] = n, NEW x \in Todo(q), x[1] \in do
    PROVE  Within(p, n, do) # {}
<1>1. PICK ws, i : ws = todo[q] /\ i \in DOMAIN ws /\ x \in ItemsOf(ws[i])
  BY DEF Todo, Items
<1>2. ws[i].do = x[1]
  <2>1. CASE ws[i].do = "send"
    <3>1. x[1] = "send"
      BY <1>1, <2>1 DEF ItemsOf
    <3> QED
      BY <3>1
  <2>2. CASE ws[i].do = "gauge"
    <3>1. x[1] = "gauge"
      BY <1>1, <2>2 DEF ItemsOf
    <3> QED
      BY <3>1
  <2>3. CASE ws[i].do \notin {"send", "gauge"}
    BY <1>1, <2>3 DEF ItemsOf
  <2> QED
    BY <2>1, <2>2, <2>3
<1>3. ws[i] \in Range(ws)
  BY <1>1 DEF Range
<1>4. q \in Within(p, n, do)
  BY <1>1, <1>2, <1>3 DEF Within
<1> QED
  BY <1>4

LEMMA ExclusiveStep == ASSUME CallsInv, ExclusiveInv, [Next]_vars PROVE ExclusiveInv'
<1>t. Types /\ CallInv /\ TodoInv
  BY DEF CallsInv
<1>1. ASSUME Idle PROVE ExclusiveInv'
  <2>1. \A q \in Proc : (Zeroing(q)' <=> Zeroing(q)) /\ (WritesDefault(q)' <=> WritesDefault(q))
    BY <1>1 DEF Idle, Zeroing, WritesDefault
  <2>2. \A q \in Proc : Zeroing(q) \/ WritesDefault(q) => name'[q] = name[q]
    BY <1>1 DEF Idle, Zeroing, WritesDefault
  <2>3. torn' = torn
    BY <1>1 DEF Idle
  <2> QED
    BY <2>1, <2>2, <2>3 DEF ExclusiveInv
\* The writes of p only get done.
<1>2. ASSUME NEW p \in Proc, OthersKept(p), torn' = torn,
             \A x \in Todo(p)' : x \in Todo(p) \/ (x[1] = "add" /\ Timing \in Todo(p))
      PROVE  ExclusiveInv'
  <2>1. ASSUME NEW q \in Proc PROVE (Zeroing(q)' => Zeroing(q)) /\ (WritesDefault(q)' => WritesDefault(q))
    <3>1. CASE q # p
      BY <1>2, <3>1 DEF OthersKept, Zeroing, WritesDefault
    <3>2. CASE q = p
      <4>1. Timing[1] = "loadTiming"
        BY DEF Timing
      <4> QED
        BY <1>2, <3>2, <4>1 DEF Zeroing, WritesDefault
    <3> QED
      BY <3>1, <3>2
  <2>2. name' = name
    BY <1>2 DEF OthersKept
  <2> QED
    BY <1>2, <2>1, <2>2 DEF ExclusiveInv
<1>3. ASSUME NEW p \in Proc, NEW resets \in BOOLEAN, Begins(p, resets) PROVE ExclusiveInv'
  <2>0. PICK n \in Name : n = name[p]
    BY <1>t DEF Types
  <2>1. /\ OthersKept(p) /\ Todo(p)' = (IF resets THEN ZeroItems ELSE {}) \cup AllItems(ResultOf(p))
        /\ \A k \in Name : k # n => torn'[k] = torn[k]
        /\ ~torn'[n] => IF resets THEN Updating(p, n) = {} ELSE ~torn[n] /\ Resetting(p, n) = {}
    BY <1>3, <2>0 DEF Begins
  <2>2. name' = name /\ \A q \in Proc : q # p => (Zeroing(q)' <=> Zeroing(q)) /\ (WritesDefault(q)' <=> WritesDefault(q))
    BY <2>1 DEF OthersKept, Zeroing, WritesDefault
  <2>3. ASSUME NEW q \in Proc, q # p, name[q] = n, Zeroing(q) PROVE torn'[n]
    <3>1. PICK x \in Todo(q) : x[1] = "zero"
      BY <2>3 DEF Zeroing
    <3>2. Timing \in Todo(q) /\ Timing[1] = "loadTiming"
      BY <1>t, <3>1 DEF TodoInv, TodoOf, Timing
    <3>3. Resetting(p, n) # {}
      <4>1. x[1] \in {"zero"} /\ {"zero"} \in SUBSET {"add", "zero", "loadTiming"}
        BY <3>1
      <4> QED
        BY <2>3, <4>1, WithinItems DEF Resetting
    <3>4. Updating(p, n) # {}
      <4>1. Timing[1] \in {"add", "loadTiming"} /\ {"add", "loadTiming"} \in SUBSET {"add", "zero", "loadTiming"}
        BY <3>2
      <4> QED
        BY <2>3, <3>2, <4>1, WithinItems DEF Updating
    <3> QED
      BY <2>1, <3>3, <3>4
  <2>4. ASSUME NEW q \in Proc, q # p, name[q] = n, WritesDefault(q), resets PROVE torn'[n]
    <3>1. CASE Zeroing(q)
      BY <2>3, <2>4, <3>1
    <3>2. CASE ~Zeroing(q)
      <4>1. PICK x \in Todo(q) : x[1] \in {"add", "loadTiming"}
        BY <2>4, <3>2 DEF WritesDefault, Zeroing
      <4>2. {"add", "loadTiming"} \in SUBSET {"add", "zero", "loadTiming"}
        OBVIOUS
      <4>3. Updating(p, n) # {}
        BY <2>4, <4>1, <4>2, WithinItems DEF Updating
      <4> QED
        BY <2>1, <2>4, <4>3
    <3> QED
      BY <3>1, <3>2
  <2>5. ~resets => ~Zeroing(p)'
    <3>1. \A x \in AllItems(ResultOf(p)) : x[1] # "zero"
      BY <1>t, <1>3, ItemsOfCall DEF Begins
    <3> QED
      BY <2>1, <3>1 DEF Zeroing
  <2> SUFFICES ASSUME NEW q \in Proc, NEW r \in Proc, q # r, name[q] = name[r], ~torn'[name[q]], Zeroing(q)',
                      WritesDefault(r)'
               PROVE  FALSE
    BY <2>2 DEF ExclusiveInv
  <2>6. name[q] \in Name
    BY <1>t DEF Types
  <2>7. CASE name[q] # n
    <3>1. q # p /\ r # p
      BY <2>0, <2>7
    <3> QED
      BY <2>1, <2>2, <2>6, <2>7, <3>1 DEF ExclusiveInv
  <2>8. CASE name[q] = n /\ q = p
    <3>1. r # p /\ WritesDefault(r)
      BY <2>2, <2>8
    <3> QED
      BY <2>4, <2>5, <2>8, <3>1
  <2>9. CASE name[q] = n /\ q # p
    BY <2>2, <2>3, <2>9
  <2> QED
    BY <2>7, <2>8, <2>9
<1>4. ASSUME NEW p \in Proc, NEW enabled \in BOOLEAN, Loads(p, enabled), UNCHANGED torn PROVE ExclusiveInv'
  <2>1. \A x \in TimingAdds : x[1] = "add"
    <3>1. ASSUME NEW x \in TimingAdds PROVE x[1] = "add"
      <4>1. PICK m \in Durations : x = AddOf(m)
        BY DEF TimingAdds
      <4> QED
        BY <4>1 DEF AddOf
    <3> QED
      BY <3>1
  <2>2. OthersKept(p) /\ \A x \in Todo(p)' : x \in Todo(p) \/ (x[1] = "add" /\ Timing \in Todo(p))
    BY <1>4, <2>1 DEF Loads
  <2> QED
    BY <1>2, <1>4, <2>2
<1>5. ASSUME NEW p \in Proc, NEW m, Adds(p, m) \/ Zeroes(p, m) PROVE ExclusiveInv'
  BY <1>2, <1>5 DEF Adds, Zeroes
<1>6. ASSUME NEW p \in Proc, NEW metrics, Sends(p, metrics) PROVE ExclusiveInv'
  BY <1>2, <1>6 DEF Sends
<1>7. ASSUME NEW items, NEW x \in ForPlugins(items) PROVE x[1] \notin {"add", "zero", "loadTiming"}
  BY DEF ForPlugins
<1>8. ASSUME NEW p \in Proc, Relays(p) PROVE ExclusiveInv'
  <2>1. OthersKept(p) /\ torn' = torn /\ Todo(p)' = ForPlugins(AllItems(ResultOf(p)))
    BY <1>8 DEF Relays
  <2>2. ~Zeroing(p)' /\ ~WritesDefault(p)'
    BY <1>7, <2>1 DEF Zeroing, WritesDefault
  <2>3. \A q \in Proc : q # p => (Zeroing(q)' <=> Zeroing(q)) /\ (WritesDefault(q)' <=> WritesDefault(q))
    BY <2>1 DEF OthersKept, Zeroing, WritesDefault
  <2>4. name' = name
    BY <2>1 DEF OthersKept
  <2> QED
    BY <2>1, <2>2, <2>3, <2>4 DEF ExclusiveInv
<1>9. ASSUME Forgets PROVE ExclusiveInv'
  <2>1. \A q \in Proc : Todo(q)' = ForPlugins(Todo(q))
    BY <1>9 DEF Forgets
  <2>2. \A q \in Proc : ~Zeroing(q)'
    BY <1>7, <2>1 DEF Zeroing
  <2> QED
    BY <2>2 DEF ExclusiveInv
<1> QED
  BY <1>1, <1>3, <1>4, <1>5, <1>6, <1>8, <1>9, StepKinds

LEMMA ExclusiveInit == Init => ExclusiveInv /\ BusyInv
<1> SUFFICES ASSUME Init PROVE ExclusiveInv /\ BusyInv
  OBVIOUS
<1>1. \A p \in Proc : todo[p] = <<>>
  BY DEF Init
<1>2. \A p \in Proc : Todo(p) = {}
  BY <1>1, TodoEmpty
<1>3. {p \in Proc : Busy(p)} = {}
  BY DEF Init, Busy
<1> QED
  BY <1>2, <1>3, FS_EmptySet DEF ExclusiveInv, Zeroing, BusyInv

----------------------------------------------------------------------------
(* Sums.                                                                   *)

LEMMA SumTypes ==
    ASSUME NEW S, IsFiniteSet(S), NEW f, \A x \in S : f[x] \in Nat
    PROVE  /\ Sum(f, S) \in Nat
           /\ \A x \in S : Sum(f, S) = f[x] + Sum(f, S \ {x}) /\ Sum(f, S \ {x}) \in Nat
           /\ S = {} => Sum(f, S) = 0
           /\ (\A x \in S : f[x] = 0) => Sum(f, S) = 0
<1>1. Folding(Plus, f, S) /\ Sum(f, S) = Fold(Plus, f, S)
  BY SumIsFold DEF Sum
<1>2. Sum(f, S) \in Nat
  BY <1>1, FoldType
<1>3. ASSUME NEW x \in S PROVE Sum(f, S) = f[x] + Sum(f, S \ {x}) /\ Sum(f, S \ {x}) \in Nat
  <2>1. PICK T : T = S \ {x}
    OBVIOUS
  <2>2. IsFiniteSet(T) /\ \A y \in T : f[y] \in Nat
    BY <2>1, FS_RemoveElement
  <2>3. Folding(Plus, f, T) /\ Sum(f, T) = Fold(Plus, f, T)
    BY ONLY <2>2, SumIsFold DEF Sum
  <2>4. Sum(f, T) \in Nat
    BY <2>3, FoldType
  <2>5. Fold(Plus, f, S) = Plus[f[x]][Fold(Plus, f, T)]
    <3>1. Commutes(Plus) /\ Folding(Plus, f, S) /\ x \in S
      BY <1>1, PlusFolds
    <3>2. Fold(Plus, f, S) = Plus[f[x]][Fold(Plus, f, S \ {x})]
      BY ONLY <3>1, FoldRemove
    <3> QED
      BY <2>1, <3>2
  <2>6. f[x] \in Nat /\ Plus[f[x]][Sum(f, T)] = f[x] + Sum(f, T)
    BY <2>4 DEF Plus
  <2> QED
    BY <1>1, <2>1, <2>3, <2>4, <2>5, <2>6
<1>4. ASSUME S = {} PROVE Sum(f, S) = 0
  <2>1. Folding(Plus, f, {})
    BY <1>1, <1>4
  <2>2. Fold(Plus, f, {}) = 0
    BY ONLY <2>1, FoldEmpty
  <2> QED
    BY <1>1, <1>4, <2>2
<1>5. ASSUME \A x \in S : f[x] = 0 PROVE Sum(f, S) = 0
  <2>1. Plus[0][0] = 0
    BY DEF Plus
  <2> QED
    BY <1>1, <1>5, <2>1, PlusFolds, FoldZeros
<1> QED
  BY <1>2, <1>3, <1>4, <1>5

LEMMA FourSum ==
    ASSUME NEW f, NEW a, NEW b, NEW c, NEW d,
           f[a] \in Nat, f[b] \in Nat, f[c] \in Nat, f[d] \in Nat,
           a # b, a # c, a # d, b # c, b # d, c # d, NEW A, A = {a, b, c, d},
           NEW v, v = f[a] + f[b] + f[c] + f[d]
    PROVE  Sum(f, A) = v
<1>1. PICK B, C, D : A = {a, b, c, d} /\ B = {b, c, d} /\ C = {c, d} /\ D = {d}
  OBVIOUS
<1>2. A \ {a} = B /\ B \ {b} = C /\ C \ {c} = D /\ D \ {d} = {} /\ a \in A /\ b \in B /\ c \in C /\ d \in D
  BY <1>1
<1>3. IsFiniteSet(D) /\ IsFiniteSet(C) /\ IsFiniteSet(B) /\ IsFiniteSet(A)
  <2>1. IsFiniteSet(D)
    BY <1>1, FS_Singleton
  <2>2. C = D \cup {c} /\ B = C \cup {b} /\ A = B \cup {a}
    BY <1>1
  <2>3. IsFiniteSet(C)
    BY <2>1, <2>2, FS_AddElement
  <2>4. IsFiniteSet(B)
    BY <2>2, <2>3, FS_AddElement
  <2>5. IsFiniteSet(A)
    BY <2>2, <2>4, FS_AddElement
  <2> QED
    BY <2>1, <2>3, <2>4, <2>5
<1>4. /\ \A x \in A : f[x] \in Nat
      /\ \A x \in B : f[x] \in Nat
      /\ \A x \in C : f[x] \in Nat
      /\ \A x \in D : f[x] \in Nat
  BY <1>1
<1>5. Sum(f, A) = f[a] + Sum(f, B) /\ Sum(f, B) \in Nat
  <2>1. \A x \in A : Sum(f, A) = f[x] + Sum(f, A \ {x}) /\ Sum(f, A \ {x}) \in Nat
    BY ONLY <1>3, <1>4, SumTypes
  <2> QED
    BY <1>2, <2>1
<1>6. Sum(f, B) = f[b] + Sum(f, C) /\ Sum(f, C) \in Nat
  <2>1. \A x \in B : Sum(f, B) = f[x] + Sum(f, B \ {x}) /\ Sum(f, B \ {x}) \in Nat
    BY ONLY <1>3, <1>4, SumTypes
  <2> QED
    BY <1>2, <2>1
<1>7. Sum(f, C) = f[c] + Sum(f, D) /\ Sum(f, D) \in Nat
  <2>1. \A x \in C : Sum(f, C) = f[x] + Sum(f, C \ {x}) /\ Sum(f, C \ {x}) \in Nat
    BY ONLY <1>3, <1>4, SumTypes
  <2> QED
    BY <1>2, <2>1
<1>8. Sum(f, D) = f[d] + Sum(f, {}) /\ Sum(f, {}) = 0
  <2>1. \A x \in D : Sum(f, D) = f[x] + Sum(f, D \ {x}) /\ Sum(f, D \ {x}) \in Nat
    BY ONLY <1>3, <1>4, SumTypes
  <2>2. IsFiniteSet({}) /\ \A x \in {} : f[x] \in Nat
    BY FS_EmptySet
  <2>3. Sum(f, {}) = 0
    BY ONLY <2>2, SumTypes
  <2> QED
    BY <1>2, <2>1, <2>3
<1> QED
  BY <1>1, <1>5, <1>6, <1>7, <1>8

LEMMA BalancedEven ==
    ASSUME NEW f, \A m \in Metric : f[m] \in Nat PROVE Balanced(f) <=> Even(f)
<1>1. Sum(f, {"successes", "errors", "contextCanceled", "contextDeadlineExceeded"})
         = f["successes"] + f["errors"] + f["contextCanceled"] + f["contextDeadlineExceeded"]
  <2>1. PICK a, b, c, d : a = "successes" /\ b = "errors" /\ c = "contextCanceled" /\ d = "contextDeadlineExceeded"
    OBVIOUS
  <2>2. /\ f[a] \in Nat /\ f[b] \in Nat /\ f[c] \in Nat /\ f[d] \in Nat
        /\ a # b /\ a # c /\ a # d /\ b # c /\ b # d /\ c # d
    BY <2>1, MetricNames
  <2>3. PICK S : S = {a, b, c, d}
    OBVIOUS
  <2>4. Sum(f, S) = f[a] + f[b] + f[c] + f[d]
    BY ONLY <2>2, <2>3, FourSum
  <2> QED
    BY <2>1, <2>3, <2>4
<1>2. Sum(f, {"failures", "rejects", "shortCircuits", "timeouts"})
         = f["failures"] + f["rejects"] + f["shortCircuits"] + f["timeouts"]
  <2>1. PICK a, b, c, d : a = "failures" /\ b = "rejects" /\ c = "shortCircuits" /\ d = "timeouts"
    OBVIOUS
  <2>2. /\ f[a] \in Nat /\ f[b] \in Nat /\ f[c] \in Nat /\ f[d] \in Nat
        /\ a # b /\ a # c /\ a # d /\ b # c /\ b # d /\ c # d
    BY <2>1, MetricNames
  <2>3. PICK S : S = {a, b, c, d}
    OBVIOUS
  <2>4. Sum(f, S) = f[a] + f[b] + f[c] + f[d]
    BY ONLY <2>2, <2>3, FourSum
  <2> QED
    BY <2>1, <2>3, <2>4
<1> QED
  BY <1>1, <1>2 DEF Balanced, Even, Primaries, Errors

\* One call more: every counter in its result increased by one.
One(m, result) == IF m \in result THEN 1 ELSE 0

LEMMA ResultEven ==
    ASSUME NEW p, p \in PrimaryEvents, NEW s, s \in {"", "fallback-success", "fallback-failure"},
           NEW R, R = BuildResult(p, s)
    PROVE  Even([m \in Metric |-> One(m, R)]) /\ \A m \in Durations : m \notin R
<1>1. /\ "attempts" \in R
      /\ "successes" \in R <=> p = "success"
      /\ "failures" \in R <=> p = "failure"
      /\ "rejects" \in R <=> p = "rejected"
      /\ "shortCircuits" \in R <=> p = "short-circuit"
      /\ "timeouts" \in R <=> p = "timeout"
      /\ "contextCanceled" \in R <=> p = "context_canceled"
      /\ "contextDeadlineExceeded" \in R <=> p = "context_deadline_exceeded"
      /\ "errors" \in R <=> p \in {"failure", "rejected", "short-circuit", "timeout"}
      /\ "totalDuration" \notin R /\ "runDuration" \notin R
  BY DEF BuildResult, CounterOf, PrimaryEvents
<1>2. PICK f : f = [m \in Metric |-> One(m, R)]
  OBVIOUS
<1>3. \A m \in Metric : f[m] = IF m \in R THEN 1 ELSE 0
  BY <1>2 DEF One
<1>4. /\ f["attempts"] = 1
      /\ f["successes"] = IF p = "success" THEN 1 ELSE 0
      /\ f["failures"] = IF p = "failure" THEN 1 ELSE 0
      /\ f["rejects"] = IF p = "rejected" THEN 1 ELSE 0
      /\ f["shortCircuits"] = IF p = "short-circuit" THEN 1 ELSE 0
      /\ f["timeouts"] = IF p = "timeout" THEN 1 ELSE 0
      /\ f["contextCanceled"] = IF p = "context_canceled" THEN 1 ELSE 0
      /\ f["contextDeadlineExceeded"] = IF p = "context_deadline_exceeded" THEN 1 ELSE 0
      /\ f["errors"] = IF p \in {"failure", "rejected", "short-circuit", "timeout"} THEN 1 ELSE 0
      /\ f["totalDuration"] = 0 /\ f["runDuration"] = 0
  BY <1>1, <1>3, MetricNames
<1>5. Even(f)
  <2>1. p \in {"success", "failure", "rejected", "short-circuit", "timeout", "context_canceled",
               "context_deadline_exceeded"}
    BY DEF PrimaryEvents
  <2> QED
    BY ONLY <1>4, <2>1 DEF Even
<1> QED
  BY <1>1, <1>2, <1>5 DEF Durations

\* Balance is kept by adding a balanced change.
LEMMA EvenPlus ==
    ASSUME NEW f, NEW g, NEW h, \A m \in Metric : f[m] \in Nat /\ g[m] \in Nat /\ h[m] = f[m] + g[m], Even(f), Even(g)
    PROVE  Even(h)
BY MetricNames DEF Even


----------------------------------------------------------------------------
(* The counters of the default collector.                                  *)

ZeroedBy(n, m) == \E p \in Proc : name[p] = n /\ ZeroOf(m) \in Todo(p)

LEMMA TotalTypes ==
    ASSUME Types, CallInv, BusyInv, NEW n \in Name, NEW m \in Metric
    PROVE  /\ IsFiniteSet(Adding(n, m)) /\ Cardinality(Adding(n, m)) \in Nat
           /\ count["default"][n][m] \in Nat /\ Counted(n, m) \in Nat
           /\ DefaultTotal(n)[m] = Counted(n, m) + Cardinality(Adding(n, m))
           /\ DefaultTotal(n)[m] \in Nat
<1>1. IsFiniteSet(Adding(n, m))
  <2>1. \A p \in Adding(n, m) : p \in Proc /\ Todo(p) # {}
    BY DEF Adding
  <2> QED
    BY <2>1, TodoBusy
<1>2. Cardinality(Adding(n, m)) \in Nat
  BY <1>1, FS_CardinalityType
<1>3. count["default"][n][m] \in Nat
  <2>1. Keys("default") = Name
    BY DefaultKeys DEF Keys
  <2>2. count["default"] \in [Name -> [Metric -> Nat]]
    BY <2>1, DefaultKeys DEF Types, Keys
  <2> QED
    BY <2>2
<1>4. Counted(n, m) \in Nat
  BY <1>3 DEF Counted
<1>5. DefaultTotal(n)[m] = Counted(n, m) + Cardinality(Adding(n, m))
  BY DEF DefaultTotal
<1> QED
  BY <1>1, <1>2, <1>3, <1>4, <1>5

\* Only p's part changes in who adds, and in who zeroes.
LEMMA AddingStep ==
    ASSUME Types, CallInv, BusyInv, NEW p \in Proc, OthersKept(p), NEW n \in Name, NEW m \in Metric
    PROVE  /\ Cardinality(Adding(n, m)') \in Nat
           /\ Cardinality(Adding(n, m)') = Cardinality(Adding(n, m))
                + (IF name[p] = n /\ AddOf(m) \in Todo(p)' THEN 1 ELSE 0)
                - (IF name[p] = n /\ AddOf(m) \in Todo(p) THEN 1 ELSE 0)
           /\ Counted(n, m)' = IF ZeroedBy(n, m)' THEN 0 ELSE count'["default"][n][m]
           /\ Counted(n, m) = IF ZeroedBy(n, m) THEN 0 ELSE count["default"][n][m]
           /\ DefaultTotal(n)'[m] = Counted(n, m)' + Cardinality(Adding(n, m)')
           /\ (name[p] = n /\ (ZeroOf(m) \in Todo(p)' <=> ZeroOf(m) \in Todo(p))) \/ name[p] # n
                => (ZeroedBy(n, m)' <=> ZeroedBy(n, m))
<1>1. PICK A, B : A = Adding(n, m) /\ B = Adding(n, m)'
  OBVIOUS
<1>2. name' = name /\ \A q \in Proc : q # p => Todo(q)' = Todo(q)
  BY DEF OthersKept
<1>3. IsFiniteSet(A) /\ \A q : q # p => (q \in A <=> q \in B)
  BY <1>1, <1>2, TotalTypes DEF Adding
<1>4. /\ Cardinality(A) \in Nat /\ Cardinality(B) \in Nat
      /\ Cardinality(B) = Cardinality(A) + (IF p \in B THEN 1 ELSE 0) - (IF p \in A THEN 1 ELSE 0)
  BY ONLY <1>3, CardChange
<1>5. /\ p \in A <=> name[p] = n /\ AddOf(m) \in Todo(p)
      /\ p \in B <=> name[p] = n /\ AddOf(m) \in Todo(p)'
  BY <1>1, <1>2 DEF Adding
<1>6. /\ Counted(n, m)' = IF ZeroedBy(n, m)' THEN 0 ELSE count'["default"][n][m]
      /\ Counted(n, m) = IF ZeroedBy(n, m) THEN 0 ELSE count["default"][n][m]
      /\ DefaultTotal(n)'[m] = Counted(n, m)' + Cardinality(Adding(n, m)')
  BY DEF Counted, ZeroedBy, DefaultTotal
<1>7. ASSUME name[p] = n => (ZeroOf(m) \in Todo(p)' <=> ZeroOf(m) \in Todo(p))
      PROVE  ZeroedBy(n, m)' <=> ZeroedBy(n, m)
  BY <1>2, <1>7 DEF ZeroedBy
<1> QED
  BY <1>1, <1>4, <1>5, <1>6, <1>7

\* A step after which all of what is counted will be as before.
LEMMA TotalsKept ==
    ASSUME BalanceInv,
           \A n \in Name : ~torn'[n] => /\ ~torn[n]
                                        /\ \A m \in Metric : DefaultTotal(n)'[m] = DefaultTotal(n)[m]
    PROVE  \A n \in Name : torn'[n] \/ Even(DefaultTotal(n)')
<1> SUFFICES ASSUME NEW n \in Name, ~torn'[n] PROVE Even(DefaultTotal(n)')
  OBVIOUS
<1>1. PICK f, g : f = DefaultTotal(n) /\ g = DefaultTotal(n)'
  OBVIOUS
<1>2. f = [m \in Metric |-> f[m]] /\ g = [m \in Metric |-> g[m]] /\ \A m \in Metric : f[m] = g[m]
  BY <1>1 DEF DefaultTotal
<1>3. f = g
  BY <1>2
<1>4. Even(f)
  BY <1>1 DEF BalanceInv
<1> QED
  BY <1>1, <1>3, <1>4

UnusedZero == \A n \in Name, m \in Metric \ Used : count["default"][n][m] = 0


\* To prove BalanceInv after a step.
LEMMA BalanceAfter ==
    ASSUME \A n \in Name : torn'[n] \/ Even(DefaultTotal(n)'), UnusedZero'
    PROVE  BalanceInv'
BY DEF BalanceInv, Even, UnusedZero

LEMMA IdleBalance == ASSUME BalanceInv, Idle PROVE BalanceInv'
<1>1. /\ torn' = torn /\ count' = count
      /\ \A p \in Proc : /\ name'[p] = name[p] \/ (Todo(p) = {} /\ Todo(p)' = {})
                         /\ \A x : x[1] # "gauge" => (x \in Todo(p)' <=> x \in Todo(p))
  BY DEF Idle
<1>2. ASSUME NEW n \in Name, NEW m \in Metric PROVE DefaultTotal(n)'[m] = DefaultTotal(n)[m]
  <2>1. AddOf(m)[1] # "gauge" /\ ZeroOf(m)[1] # "gauge"
    BY DEF AddOf, ZeroOf
  <2>2. Adding(n, m)' = Adding(n, m)
    <3>1. \A p \in Proc : (name'[p] = n /\ AddOf(m) \in Todo(p)') <=> (name[p] = n /\ AddOf(m) \in Todo(p))
      BY <1>1, <2>1
    <3> QED
      BY <3>1 DEF Adding
  <2>3. ZeroedBy(n, m)' <=> ZeroedBy(n, m)
    <3>1. \A p \in Proc : (name'[p] = n /\ ZeroOf(m) \in Todo(p)') <=> (name[p] = n /\ ZeroOf(m) \in Todo(p))
      BY <1>1, <2>1
    <3> QED
      BY <3>1 DEF ZeroedBy
  <2>4. Counted(n, m)' = Counted(n, m)
    BY <1>1, <2>3 DEF Counted, ZeroedBy
  <2>5. /\ DefaultTotal(n)'[m] = Counted(n, m)' + Cardinality(Adding(n, m)')
        /\ DefaultTotal(n)[m] = Counted(n, m) + Cardinality(Adding(n, m))
    BY DEF DefaultTotal
  <2> QED
    BY <2>2, <2>4, <2>5
<1>3. \A n \in Name : torn'[n] \/ Even(DefaultTotal(n)')
  BY <1>1, <1>2, TotalsKept
<1>4. UnusedZero'
  BY <1>1 DEF BalanceInv, UnusedZero
<1> QED
  BY <1>3, <1>4, BalanceAfter

LEMMA AddsBalance ==
    ASSUME CallsInv, BusyInv, ExclusiveInv, BalanceInv, NEW p \in Proc, NEW a \in Used, Adds(p, a)
    PROVE  BalanceInv'
<1>t. Types /\ CallInv /\ TodoInv
  BY DEF CallsInv
<1>1. /\ OthersKept(p) /\ torn' = torn /\ a \in Metric
      /\ AddOf(a) \in Todo(p) /\ Todo(p)' = Todo(p) \ {AddOf(a)} /\ NoZero(Todo(p))
  BY UsedTypes DEF Adds
<1>2. PICK h \in Name, v \in Nat : h = name[p] /\ v = count["default"][h][a] + 1
  <2>1. name[p] \in Name
    BY <1>t DEF Types
  <2>2. count["default"][name[p]][a] \in Nat
    BY <1>t, <1>1, <2>1, TotalTypes
  <2> QED
    BY <2>1, <2>2
<1>3. /\ count'["default"][h][a] = v
      /\ \A k \in Name, i \in Metric : k # h \/ i # a => count'["default"][k][i] = count["default"][k][i]
  <2>1. WritesCount(h, a, v)
    BY <1>2 DEF Adds, WritesCount
  <2>2. Types /\ a \in Metric /\ v \in Nat /\ h \in Name
    BY <1>t, <1>1, <1>2
  <2> QED
    BY ONLY <2>1, <2>2, CountWritten
<1>4. ASSUME NEW n \in Name, NEW m \in Metric, ~torn[n] PROVE DefaultTotal(n)'[m] = DefaultTotal(n)[m]
  <2>1. /\ Cardinality(Adding(n, m)) \in Nat /\ Counted(n, m) \in Nat /\ count["default"][n][m] \in Nat
        /\ DefaultTotal(n)[m] = Counted(n, m) + Cardinality(Adding(n, m))
    BY <1>t, TotalTypes
  <2>2. /\ Cardinality(Adding(n, m)') \in Nat
        /\ Cardinality(Adding(n, m)') = Cardinality(Adding(n, m))
             + (IF name[p] = n /\ AddOf(m) \in Todo(p)' THEN 1 ELSE 0)
             - (IF name[p] = n /\ AddOf(m) \in Todo(p) THEN 1 ELSE 0)
        /\ Counted(n, m)' = IF ZeroedBy(n, m)' THEN 0 ELSE count'["default"][n][m]
        /\ Counted(n, m) = IF ZeroedBy(n, m) THEN 0 ELSE count["default"][n][m]
        /\ DefaultTotal(n)'[m] = Counted(n, m)' + Cardinality(Adding(n, m)')
        /\ (name[p] = n /\ (ZeroOf(m) \in Todo(p)' <=> ZeroOf(m) \in Todo(p))) \/ name[p] # n
             => (ZeroedBy(n, m)' <=> ZeroedBy(n, m))
    BY <1>t, <1>1, AddingStep
  <2>3. ZeroOf(m) # AddOf(a) /\ (AddOf(m) = AddOf(a) <=> m = a)
    BY DEF ZeroOf, AddOf
  <2>4. ZeroedBy(n, m)' <=> ZeroedBy(n, m)
    BY <1>1, <2>2, <2>3
  <2>5. CASE n = h /\ m = a
    <3>1. ~ZeroedBy(n, m)
      <4>1. SUFFICES ASSUME NEW q \in Proc, name[q] = n, ZeroOf(m) \in Todo(q) PROVE FALSE
        BY DEF ZeroedBy
      <4>2. ZeroOf(m)[1] = "zero" /\ AddOf(a)[1] = "add"
        BY DEF ZeroOf, AddOf
      <4>3. Zeroing(q) /\ WritesDefault(p) /\ q # p
        BY <1>1, <4>1, <4>2 DEF Zeroing, WritesDefault, NoZero
      <4> QED
        BY <1>2, <1>4, <2>5, <4>1, <4>3 DEF ExclusiveInv
    <3>2. Counted(n, m)' = Counted(n, m) + 1
      BY <1>2, <1>3, <2>2, <2>4, <2>5, <3>1
    <3>3. Cardinality(Adding(n, m)') = Cardinality(Adding(n, m)) - 1
      BY <1>1, <1>2, <2>1, <2>2, <2>3, <2>5
    <3> QED
      BY <2>1, <2>2, <3>2, <3>3
  <2>6. CASE ~(n = h /\ m = a)
    <3>1. Counted(n, m)' = Counted(n, m)
      BY <1>3, <2>2, <2>4, <2>6
    <3>2. Cardinality(Adding(n, m)') = Cardinality(Adding(n, m))
      <4>1. name[p] = n => (AddOf(m) \in Todo(p)' <=> AddOf(m) \in Todo(p))
        BY <1>1, <1>2, <2>3, <2>6
      <4> QED
        BY <2>1, <2>2, <4>1
    <3> QED
      BY <2>1, <2>2, <3>1, <3>2
  <2> QED
    BY <2>5, <2>6
<1>5. \A n \in Name : torn'[n] \/ Even(DefaultTotal(n)')
  BY <1>1, <1>4, TotalsKept
<1>6. UnusedZero'
  <2>1. \A n \in Name, m \in Metric \ Used : count["default"][n][m] = 0
    BY DEF BalanceInv
  <2>2. \A n \in Name, m \in Metric \ Used : count'["default"][n][m] = 0
    BY <1>3, <2>1
  <2> QED
    BY <2>2 DEF UnusedZero
<1> QED
  BY <1>5, <1>6, BalanceAfter

LEMMA ZeroesBalance ==
    ASSUME CallsInv, BusyInv, BalanceInv, NEW p \in Proc, NEW a \in Metric, Zeroes(p, a)
    PROVE  BalanceInv'
<1>t. Types /\ CallInv /\ TodoInv
  BY DEF CallsInv
<1>1. /\ OthersKept(p) /\ torn' = torn
      /\ ZeroOf(a) \in Todo(p) /\ Todo(p)' = Todo(p) \ {ZeroOf(a)}
  BY DEF Zeroes
<1>2. PICK h \in Name : h = name[p]
  BY <1>t DEF Types
<1>3. /\ count'["default"][h][a] = 0
      /\ \A k \in Name, i \in Metric : k # h \/ i # a => count'["default"][k][i] = count["default"][k][i]
  <2>1. PICK v \in Nat : v = 0 /\ WritesCount(h, a, v)
    BY <1>2 DEF Zeroes, WritesCount
  <2>2. Types /\ a \in Metric /\ h \in Name
    BY <1>t, <1>2
  <2>3. /\ count'["default"][h][a] = v
        /\ \A k \in Name, i \in Metric : k # h \/ i # a => count'["default"][k][i] = count["default"][k][i]
    BY ONLY <2>1, <2>2, CountWritten
  <2> QED
    BY <2>1, <2>3
<1>4. ASSUME NEW n \in Name, NEW m \in Metric PROVE DefaultTotal(n)'[m] = DefaultTotal(n)[m]
  <2>1. /\ Cardinality(Adding(n, m)) \in Nat /\ Counted(n, m) \in Nat /\ count["default"][n][m] \in Nat
        /\ DefaultTotal(n)[m] = Counted(n, m) + Cardinality(Adding(n, m))
    BY <1>t, TotalTypes
  <2>2. /\ Cardinality(Adding(n, m)') \in Nat
        /\ Cardinality(Adding(n, m)') = Cardinality(Adding(n, m))
             + (IF name[p] = n /\ AddOf(m) \in Todo(p)' THEN 1 ELSE 0)
             - (IF name[p] = n /\ AddOf(m) \in Todo(p) THEN 1 ELSE 0)
        /\ Counted(n, m)' = IF ZeroedBy(n, m)' THEN 0 ELSE count'["default"][n][m]
        /\ Counted(n, m) = IF ZeroedBy(n, m) THEN 0 ELSE count["default"][n][m]
        /\ DefaultTotal(n)'[m] = Counted(n, m)' + Cardinality(Adding(n, m)')
        /\ (name[p] = n /\ (ZeroOf(m) \in Todo(p)' <=> ZeroOf(m) \in Todo(p))) \/ name[p] # n
             => (ZeroedBy(n, m)' <=> ZeroedBy(n, m))
    BY <1>t, <1>1, AddingStep
  <2>3. AddOf(m) # ZeroOf(a) /\ (ZeroOf(m) = ZeroOf(a) <=> m = a)
    BY DEF ZeroOf, AddOf
  <2>4. Cardinality(Adding(n, m)') = Cardinality(Adding(n, m))
    <3>1. AddOf(m) \in Todo(p)' <=> AddOf(m) \in Todo(p)
      BY <1>1, <2>3
    <3> QED
      BY <2>1, <2>2, <3>1
  <2>5. CASE n = h /\ m = a
    <3>1. ZeroedBy(n, m)
      BY <1>1, <1>2, <2>5 DEF ZeroedBy
    <3>2. Counted(n, m)' = 0 /\ Counted(n, m) = 0
      BY <1>3, <2>2, <2>5, <3>1
    <3> QED
      BY <2>1, <2>2, <2>4, <3>2
  <2>6. CASE ~(n = h /\ m = a)
    <3>1. ZeroedBy(n, m)' <=> ZeroedBy(n, m)
      BY <1>1, <1>2, <2>2, <2>3, <2>6
    <3>2. Counted(n, m)' = Counted(n, m)
      BY <1>3, <2>2, <2>6, <3>1
    <3> QED
      BY <2>1, <2>2, <2>4, <3>2
  <2> QED
    BY <2>5, <2>6
<1>5. \A n \in Name : torn'[n] \/ Even(DefaultTotal(n)')
  BY <1>1, <1>4, TotalsKept
<1>6. UnusedZero'
  <2>1. \A n \in Name, m \in Metric \ Used : count["default"][n][m] = 0
    BY DEF BalanceInv
  <2>2. \A n \in Name, m \in Metric \ Used : count'["default"][n][m] = 0
    BY <1>3, <2>1
  <2> QED
    BY <2>2 DEF UnusedZero
<1> QED
  BY <1>5, <1>6, BalanceAfter


\* What the items of a call are.
LEMMA ItemMembers ==
    ASSUME NEW R, NEW m
    PROVE  /\ AddOf(m) \in AllItems(R) <=> m \in R
           /\ Timing \in AllItems(R)
           /\ ZeroOf(m) \notin AllItems(R) /\ (ZeroOf(m) \in ZeroItems <=> m \in Used)
           /\ AddOf(m) \notin ZeroItems /\ Timing \notin ZeroItems
           /\ \A c : SendOf(c, m) \notin ZeroItems
           /\ \A c : SendOf(c, m) \in AllItems(R) <=> c \in Collector /\ c # "default" /\ m \in Reported(c, R)
<1>1. ASSUME NEW x \in AllItems(R) PROVE x[2] \in Collector /\ x \in UpdateItems(x[2], R) /\ x[1] # "zero"
  <2>1. PICK c \in Collector : x \in UpdateItems(c, R)
    BY DEF AllItems
  <2> QED
    BY <2>1, ItemsNameKind
<1>2. ASSUME NEW c \in Collector, NEW x \in UpdateItems(c, R) PROVE x \in AllItems(R)
  BY DEF AllItems
<1>3. AddOf(m) \in AllItems(R) <=> m \in R
  <2>1. AddOf(m)[2] = "default"
    BY DEF AddOf
  <2>2. AddOf(m) \in AllItems(R) => AddOf(m) \in UpdateItems("default", R)
    BY <1>1, <2>1
  <2>3. AddOf(m) \in UpdateItems("default", R) <=> m \in R
    BY DEF UpdateItems, AddOf, Timing
  <2> QED
    BY <1>2, <2>2, <2>3, DefaultKeys
<1>4. Timing \in AllItems(R)
  <2>1. Timing \in UpdateItems("default", R)
    BY DEF UpdateItems
  <2> QED
    BY <1>2, <2>1, DefaultKeys
<1>5. ZeroOf(m) \notin AllItems(R)
  <2>1. ZeroOf(m)[1] = "zero"
    BY DEF ZeroOf
  <2> QED
    BY <1>1, <2>1
<1>6. /\ ZeroOf(m) \in ZeroItems <=> m \in Used
      /\ AddOf(m) \notin ZeroItems /\ Timing \notin ZeroItems
  BY DEF ZeroItems, ZeroOf, AddOf, Timing
<1>7. ASSUME NEW c PROVE SendOf(c, m) \notin ZeroItems
  BY DEF ZeroItems, ZeroOf, SendOf
<1>8. ASSUME NEW c PROVE SendOf(c, m) \in AllItems(R) <=> c \in Collector /\ c # "default" /\ m \in Reported(c, R)
  <2>1. SendOf(c, m)[1] = "send" /\ SendOf(c, m)[2] = c
    BY DEF SendOf
  <2>2. SendOf(c, m) \in AllItems(R) => c \in Collector /\ c # "default" /\ SendOf(c, m) \in UpdateItems(c, R)
    BY <1>1, <2>1, ItemsNameKind
  <2>3. c # "default" => (SendOf(c, m) \in UpdateItems(c, R) <=> m \in Reported(c, R))
    BY DEF UpdateItems, SendOf, GaugeOf
  <2> QED
    BY <1>2, <2>2, <2>3
<1> QED
  BY <1>3, <1>4, <1>5, <1>6, <1>7, <1>8

\* No send is for the default collector.
LEMMA SentTo ==
    ASSUME CallsInv, NEW p \in Proc, NEW metrics \in SUBSET (Kind \X Metric), SentItems(metrics) \subseteq Todo(p)
    PROVE  /\ \A m : <<"default", m>> \notin metrics
           /\ \A x : x[1] # "send" => x \notin SentItems(metrics)
           /\ \A c \in Kind, m \in Metric : SendOf(c, m) \in SentItems(metrics) <=> <<c, m>> \in metrics
<1>1. ASSUME NEW c, NEW m, <<c, m>> \in metrics PROVE SendOf(c, m) \in SentItems(metrics)
  <2>1. PICK x \in metrics : x = <<c, m>>
    BY <1>1
  <2>2. SendOf(x[1], x[2]) \in SentItems(metrics) /\ x[1] = c /\ x[2] = m
    BY <2>1 DEF SentItems
  <2> QED
    BY <2>2
<1>2. ASSUME NEW m, <<"default", m>> \in metrics PROVE FALSE
  <2>1. PICK x : x = SendOf("default", m) /\ x \in Todo(p)
    BY <1>1, <1>2
  <2>2. x[1] = "send" /\ x[2] = "default"
    BY <2>1 DEF SendOf
  <2>3. \A y \in Todo(p) : y[1] = "send" => y[2] # "default"
    BY DEF CallsInv, TodoInv, TodoOf
  <2> QED
    BY <2>1, <2>2, <2>3
<1>3. ASSUME NEW x, x \in SentItems(metrics) PROVE \E y \in metrics : x = SendOf(y[1], y[2])
  BY <1>3 DEF SentItems
<1>4. ASSUME NEW c \in Kind, NEW m \in Metric, SendOf(c, m) \in SentItems(metrics) PROVE <<c, m>> \in metrics
  <2>1. PICK y \in metrics : SendOf(c, m) = SendOf(y[1], y[2])
    BY <1>3, <1>4
  <2>2. y = <<y[1], y[2]>> /\ y[1] = c /\ y[2] = m
    BY <2>1 DEF SendOf
  <2> QED
    BY <2>2
<1>5. ASSUME NEW x, x \in SentItems(metrics) PROVE x[1] = "send"
  <2>1. PICK y \in metrics : x = SendOf(y[1], y[2])
    BY <1>3, <1>5
  <2> QED
    BY <2>1 DEF SendOf
<1> QED
  BY <1>1, <1>2, <1>4, <1>5

LEMMA SendsBalance ==
    ASSUME CallsInv, BusyInv, BalanceInv, NEW p \in Proc, NEW metrics \in SUBSET (Kind \X Metric), Sends(p, metrics)
    PROVE  BalanceInv'
<1>t. Types /\ CallInv /\ TodoInv
  BY DEF CallsInv
<1>1. /\ OthersKept(p) /\ torn' = torn /\ Increment(name[p], metrics)
      /\ SentItems(metrics) \subseteq Todo(p) /\ Todo(p)' = Todo(p) \ SentItems(metrics)
      /\ name[p] \in Name
  BY <1>t DEF Sends, Types
<1>2. ASSUME NEW n \in Name, NEW m \in Metric PROVE count'["default"][n][m] = count["default"][n][m]
  <2>1. \A c \in Collector : \A k \in Keys(c) : \A i \in Metric :
          count'[c][k][i] = count[c][k][i] + IF k = Key(c, name[p]) /\ <<c, i>> \in metrics THEN 1 ELSE 0
    <3>1. CountsSent(name[p], metrics)
      BY <1>t, <1>1, CountSent
    <3> QED
      BY <3>1 DEF CountsSent
  <2>2. "default" \in Collector /\ n \in Keys("default") /\ count["default"][n][m] \in Nat
    BY <1>t, DefaultKeys, TotalTypes DEF Keys
  <2>3. <<"default", m>> \notin metrics
    BY <1>1, SentTo
  <2> QED
    BY <2>1, <2>2, <2>3
<1>3. ASSUME NEW n \in Name, NEW m \in Metric PROVE DefaultTotal(n)'[m] = DefaultTotal(n)[m]
  <2>1. /\ Cardinality(Adding(n, m)) \in Nat /\ Counted(n, m) \in Nat
        /\ DefaultTotal(n)[m] = Counted(n, m) + Cardinality(Adding(n, m))
    BY <1>t, TotalTypes
  <2>2. /\ Cardinality(Adding(n, m)') = Cardinality(Adding(n, m))
             + (IF name[p] = n /\ AddOf(m) \in Todo(p)' THEN 1 ELSE 0)
             - (IF name[p] = n /\ AddOf(m) \in Todo(p) THEN 1 ELSE 0)
        /\ Counted(n, m)' = IF ZeroedBy(n, m)' THEN 0 ELSE count'["default"][n][m]
        /\ Counted(n, m) = IF ZeroedBy(n, m) THEN 0 ELSE count["default"][n][m]
        /\ DefaultTotal(n)'[m] = Counted(n, m)' + Cardinality(Adding(n, m)')
        /\ (name[p] = n /\ (ZeroOf(m) \in Todo(p)' <=> ZeroOf(m) \in Todo(p))) \/ name[p] # n
             => (ZeroedBy(n, m)' <=> ZeroedBy(n, m))
    BY <1>t, <1>1, AddingStep
  <2>3. AddOf(m) \notin SentItems(metrics) /\ ZeroOf(m) \notin SentItems(metrics)
    <3>1. AddOf(m)[1] # "send" /\ ZeroOf(m)[1] # "send"
      BY DEF AddOf, ZeroOf
    <3> QED
      BY <1>1, <3>1, SentTo
  <2>4. Counted(n, m)' = Counted(n, m)
    BY <1>1, <1>2, <2>2, <2>3
  <2>5. Cardinality(Adding(n, m)') = Cardinality(Adding(n, m))
    <3>1. AddOf(m) \in Todo(p)' <=> AddOf(m) \in Todo(p)
      BY <1>1, <2>3
    <3> QED
      BY <2>1, <2>2, <3>1
  <2> QED
    BY <2>1, <2>2, <2>4, <2>5
<1>4. \A n \in Name : torn'[n] \/ Even(DefaultTotal(n)')
  BY <1>1, <1>3, TotalsKept
<1>5. UnusedZero'
  <2>1. \A n \in Name, m \in Metric \ Used : count["default"][n][m] = 0
    BY DEF BalanceInv
  <2> QED
    BY <1>2, <2>1 DEF UnusedZero
<1> QED
  BY <1>4, <1>5, BalanceAfter

LEMMA LoadsBalance ==
    ASSUME CallsInv, BusyInv, BalanceInv, NEW p \in Proc, NEW enabled \in BOOLEAN, Loads(p, enabled),
           UNCHANGED <<count, torn>>
    PROVE  BalanceInv'
<1>t. Types /\ CallInv /\ TodoInv
  BY DEF CallsInv
<1>1. /\ OthersKept(p) /\ torn' = torn /\ count' = count /\ Timing \in Todo(p)
      /\ Todo(p)' = (Todo(p) \ {Timing}) \cup (IF enabled THEN TimingAdds ELSE {})
  BY DEF Loads
<1>2. ASSUME NEW n \in Name, ~torn[n] PROVE Even(DefaultTotal(n)')
  <2>1. PICK f, g, h : /\ f = DefaultTotal(n) /\ h = DefaultTotal(n)'
                       /\ g = [m \in Metric |-> IF name[p] = n /\ enabled /\ m \in Durations THEN 1 ELSE 0]
    OBVIOUS
  <2>2. ASSUME NEW m \in Metric PROVE f[m] \in Nat /\ g[m] \in Nat /\ h[m] = f[m] + g[m]
    <3>1. /\ Cardinality(Adding(n, m)) \in Nat /\ Counted(n, m) \in Nat
          /\ DefaultTotal(n)[m] = Counted(n, m) + Cardinality(Adding(n, m)) /\ DefaultTotal(n)[m] \in Nat
      BY <1>t, TotalTypes
    <3>2. /\ Cardinality(Adding(n, m)') = Cardinality(Adding(n, m))
               + (IF name[p] = n /\ AddOf(m) \in Todo(p)' THEN 1 ELSE 0)
               - (IF name[p] = n /\ AddOf(m) \in Todo(p) THEN 1 ELSE 0)
          /\ Counted(n, m)' = IF ZeroedBy(n, m)' THEN 0 ELSE count'["default"][n][m]
          /\ Counted(n, m) = IF ZeroedBy(n, m) THEN 0 ELSE count["default"][n][m]
          /\ DefaultTotal(n)'[m] = Counted(n, m)' + Cardinality(Adding(n, m)')
          /\ (name[p] = n /\ (ZeroOf(m) \in Todo(p)' <=> ZeroOf(m) \in Todo(p))) \/ name[p] # n
               => (ZeroedBy(n, m)' <=> ZeroedBy(n, m))
      BY <1>t, <1>1, AddingStep
    <3>3. /\ AddOf(m) # Timing /\ ZeroOf(m) # Timing /\ ZeroOf(m) \notin TimingAdds
          /\ AddOf(m) \in TimingAdds <=> m \in Durations
      BY DEF AddOf, ZeroOf, Timing, TimingAdds
    <3>4. Counted(n, m)' = Counted(n, m)
      BY <1>1, <3>2, <3>3
    <3>5. m \in Durations => AddOf(m) \notin Todo(p)
      BY <1>t, <1>1 DEF TodoInv, TodoOf
    <3>6. AddOf(m) \in Todo(p)' <=> AddOf(m) \in Todo(p) \/ (enabled /\ m \in Durations)
      BY <1>1, <3>3
    <3>7. g[m] = IF name[p] = n /\ enabled /\ m \in Durations THEN 1 ELSE 0
      BY <2>1
    <3>8. Cardinality(Adding(n, m)') = Cardinality(Adding(n, m)) + g[m] /\ g[m] \in Nat
      BY <3>1, <3>2, <3>5, <3>6, <3>7
    <3> QED
      BY <2>1, <3>1, <3>2, <3>4, <3>8
  <2>3. Even(f)
    BY <1>2, <2>1 DEF BalanceInv
  <2>4. Even(g)
    <3>1. \A m \in Metric : g[m] = IF name[p] = n /\ enabled /\ m \in Durations THEN 1 ELSE 0
      BY <2>1
    <3>2. /\ g["attempts"] = 0 /\ g["successes"] = 0 /\ g["errors"] = 0 /\ g["contextCanceled"] = 0
          /\ g["contextDeadlineExceeded"] = 0 /\ g["failures"] = 0 /\ g["rejects"] = 0
          /\ g["shortCircuits"] = 0 /\ g["timeouts"] = 0 /\ g["totalDuration"] = g["runDuration"]
      BY <3>1, MetricNames DEF Durations
    <3> QED
      BY ONLY <3>2 DEF Even
  <2>5. Even(h)
    BY ONLY <2>2, <2>3, <2>4, EvenPlus
  <2> QED
    BY <2>1, <2>5
<1>3. \A n \in Name : torn'[n] \/ Even(DefaultTotal(n)')
  BY <1>1, <1>2
<1>4. UnusedZero'
  BY <1>1 DEF BalanceInv, UnusedZero
<1> QED
  BY <1>3, <1>4, BalanceAfter

LEMMA BeginsBalance ==
    ASSUME CallsInv, BusyInv, ExclusiveInv, BalanceInv, NEW p \in Proc, NEW resets \in BOOLEAN, Begins(p, resets)
    PROVE  BalanceInv'
<1>t. Types /\ CallInv /\ TodoInv
  BY DEF CallsInv
<1>1. PICK R, e, s, a : R = ResultOf(p) /\ R = BuildResult(e, s) /\ e = primary[p] /\ s = secondary[p] /\ a = name[p]
  BY DEF ResultOf
<1>2. /\ OthersKept(p) /\ Todo(p) = {} /\ Todo(p)' = (IF resets THEN ZeroItems ELSE {}) \cup AllItems(R)
      /\ \A n \in Name : n # a => torn'[n] = torn[n]
      /\ ~torn'[a] => IF resets THEN Updating(p, a) = {} ELSE ~torn[a] /\ Resetting(p, a) = {}
      /\ count' = count /\ a \in Name
  BY <1>t, <1>1 DEF Begins, counters, Types
<1>3. /\ e \in PrimaryEvents /\ s \in {"", "fallback-success", "fallback-failure"}
      /\ R \subseteq Basic \cup Context /\ R \subseteq Used
  <2>1. e \in PrimaryEvents /\ s \in {"", "fallback-success", "fallback-failure"}
    BY <1>t, <1>1 DEF Types
  <2>2. pc[p] # "idle"
    BY DEF Begins
  <2> QED
    BY <1>t, <1>1, <2>1, <2>2, ResultTypes DEF CallInv
<1>4. PICK g : g = [m \in Metric |-> One(m, R)]
  OBVIOUS
<1>5. Even(g)
  BY <1>1, <1>3, <1>4, ResultEven
<1>6. \A m \in Metric : g[m] = (IF m \in R THEN 1 ELSE 0) /\ g[m] \in Nat
  BY <1>4 DEF One
<1>7. ASSUME NEW n \in Name, NEW m \in Metric
      PROVE  /\ Cardinality(Adding(n, m)) \in Nat /\ Counted(n, m) \in Nat /\ count["default"][n][m] \in Nat
             /\ DefaultTotal(n)[m] = Counted(n, m) + Cardinality(Adding(n, m))
             /\ Cardinality(Adding(n, m)') = Cardinality(Adding(n, m)) + (IF n = a /\ m \in R THEN 1 ELSE 0)
             /\ Counted(n, m)' = IF ZeroedBy(n, m)' THEN 0 ELSE count["default"][n][m]
             /\ Counted(n, m) = IF ZeroedBy(n, m) THEN 0 ELSE count["default"][n][m]
             /\ DefaultTotal(n)'[m] = Counted(n, m)' + Cardinality(Adding(n, m)')
             /\ n # a \/ ~resets => (ZeroedBy(n, m)' <=> ZeroedBy(n, m))
             /\ n = a /\ resets /\ m \in Used => ZeroedBy(n, m)'
  <2>1. /\ Cardinality(Adding(n, m)) \in Nat /\ Counted(n, m) \in Nat /\ count["default"][n][m] \in Nat
        /\ DefaultTotal(n)[m] = Counted(n, m) + Cardinality(Adding(n, m))
    BY <1>t, TotalTypes
  <2>2. /\ Cardinality(Adding(n, m)') = Cardinality(Adding(n, m))
             + (IF name[p] = n /\ AddOf(m) \in Todo(p)' THEN 1 ELSE 0)
             - (IF name[p] = n /\ AddOf(m) \in Todo(p) THEN 1 ELSE 0)
        /\ Counted(n, m)' = IF ZeroedBy(n, m)' THEN 0 ELSE count'["default"][n][m]
        /\ Counted(n, m) = IF ZeroedBy(n, m) THEN 0 ELSE count["default"][n][m]
        /\ DefaultTotal(n)'[m] = Counted(n, m)' + Cardinality(Adding(n, m)')
        /\ (name[p] = n /\ (ZeroOf(m) \in Todo(p)' <=> ZeroOf(m) \in Todo(p))) \/ name[p] # n
             => (ZeroedBy(n, m)' <=> ZeroedBy(n, m))
    BY <1>t, <1>2, AddingStep
  <2>3. AddOf(m) \in Todo(p)' <=> m \in R
    BY <1>2, ItemMembers
  <2>4. ZeroOf(m) \in Todo(p)' <=> resets /\ m \in Used
    BY <1>2, ItemMembers
  <2>5. Cardinality(Adding(n, m)') = Cardinality(Adding(n, m)) + (IF n = a /\ m \in R THEN 1 ELSE 0)
    BY <1>1, <1>2, <2>1, <2>2, <2>3
  <2>6. n # a \/ ~resets => (ZeroedBy(n, m)' <=> ZeroedBy(n, m))
    BY <1>1, <1>2, <2>2, <2>4
  <2>7. n = a /\ resets /\ m \in Used => ZeroedBy(n, m)'
    BY <1>1, <1>2, <2>4 DEF ZeroedBy, OthersKept
  <2> QED
    BY <1>2, <2>1, <2>2, <2>5, <2>6, <2>7
<1>8. ASSUME NEW n \in Name, ~torn'[n] PROVE Even(DefaultTotal(n)')
  <2>1. PICK f, h : f = DefaultTotal(n) /\ h = DefaultTotal(n)'
    OBVIOUS
  <2>2. f = [m \in Metric |-> f[m]] /\ h = [m \in Metric |-> h[m]] /\ g = [m \in Metric |-> g[m]]
    BY <1>4, <2>1 DEF DefaultTotal
  <2>3. CASE n # a
    <3>1. \A m \in Metric : h[m] = f[m]
      BY <1>7, <2>1, <2>3
    <3>2. h = f
      BY <2>2, <3>1
    <3>3. Even(f)
      BY <1>2, <1>8, <2>1, <2>3 DEF BalanceInv
    <3> QED
      BY <2>1, <3>2, <3>3
  <2>4. CASE n = a /\ ~resets
    <3>1. \A m \in Metric : f[m] \in Nat /\ g[m] \in Nat /\ h[m] = f[m] + g[m]
      BY <1>6, <1>7, <2>1, <2>4
    <3>2. Even(f)
      BY <1>2, <1>8, <2>1, <2>4 DEF BalanceInv
    <3>3. Even(h)
      BY ONLY <1>5, <3>1, <3>2, EvenPlus
    <3> QED
      BY <2>1, <3>3
  <2>5. CASE n = a /\ resets
    <3>1. ASSUME NEW m \in Metric PROVE h[m] = g[m]
      <4>1. Adding(n, m) = {}
        <5>1. SUFFICES ASSUME NEW q \in Proc, name[q] = n, AddOf(m) \in Todo(q) PROVE FALSE
          BY DEF Adding
        <5>2. q # p
          BY <1>2, <5>1
        <5>3. AddOf(m)[1] \in {"add", "loadTiming"} /\ {"add", "loadTiming"} \in SUBSET {"add", "zero", "loadTiming"}
          BY DEF AddOf
        <5>4. Updating(p, a) # {}
          BY <2>5, <5>1, <5>2, <5>3, WithinItems DEF Updating
        <5> QED
          BY <1>2, <1>8, <2>5, <5>4
      <4>2. Cardinality(Adding(n, m)) = 0
        BY <4>1, FS_EmptySet
      <4>3. Counted(n, m)' = 0
        <5>1. CASE m \in Used
          BY <1>7, <2>5, <5>1
        <5>2. CASE m \notin Used
          <6>1. count["default"][n][m] = 0
            BY <5>2 DEF BalanceInv
          <6> QED
            BY <1>7, <6>1
        <5> QED
          BY <5>1, <5>2
      <4> QED
        BY <1>6, <1>7, <2>1, <2>5, <4>2, <4>3
    <3>2. h = g
      BY <2>2, <3>1
    <3> QED
      BY <1>5, <2>1, <3>2
  <2> QED
    BY <2>3, <2>4, <2>5
<1>9. UnusedZero'
  BY <1>2 DEF BalanceInv, UnusedZero
<1> QED
  BY <1>8, <1>9, BalanceAfter


\* The default collector gets nothing from what is left for the plugins.
LEMMA PluginItems ==
    ASSUME NEW items, NEW m
    PROVE  /\ AddOf(m) \notin ForPlugins(items) /\ ZeroOf(m) \notin ForPlugins(items)
           /\ Timing \notin ForPlugins(items)
           /\ \A c : SendOf(c, m) \in ForPlugins(items) <=> SendOf(c, m) \in items
BY DEF ForPlugins, AddOf, ZeroOf, Timing, SendOf

LEMMA RelaysBalance ==
    ASSUME CallsInv, BusyInv, BalanceInv, NEW p \in Proc, Relays(p) PROVE BalanceInv'
<1>t. Types /\ CallInv
  BY DEF CallsInv
<1>1. /\ OthersKept(p) /\ torn' = torn /\ count' = count /\ Todo(p) = {}
      /\ Todo(p)' = ForPlugins(AllItems(ResultOf(p)))
  BY DEF Relays
<1>2. ASSUME NEW n \in Name, NEW m \in Metric PROVE DefaultTotal(n)'[m] = DefaultTotal(n)[m]
  <2>1. /\ Cardinality(Adding(n, m)) \in Nat /\ Counted(n, m) \in Nat
        /\ DefaultTotal(n)[m] = Counted(n, m) + Cardinality(Adding(n, m))
    BY <1>t, TotalTypes
  <2>2. /\ Cardinality(Adding(n, m)') = Cardinality(Adding(n, m))
             + (IF name[p] = n /\ AddOf(m) \in Todo(p)' THEN 1 ELSE 0)
             - (IF name[p] = n /\ AddOf(m) \in Todo(p) THEN 1 ELSE 0)
        /\ Counted(n, m)' = IF ZeroedBy(n, m)' THEN 0 ELSE count'["default"][n][m]
        /\ Counted(n, m) = IF ZeroedBy(n, m) THEN 0 ELSE count["default"][n][m]
        /\ DefaultTotal(n)'[m] = Counted(n, m)' + Cardinality(Adding(n, m)')
        /\ (name[p] = n /\ (ZeroOf(m) \in Todo(p)' <=> ZeroOf(m) \in Todo(p))) \/ name[p] # n
             => (ZeroedBy(n, m)' <=> ZeroedBy(n, m))
    BY <1>t, <1>1, AddingStep
  <2>3. /\ AddOf(m) \notin Todo(p)' /\ ZeroOf(m) \notin Todo(p)'
        /\ AddOf(m) \notin Todo(p) /\ ZeroOf(m) \notin Todo(p)
    BY <1>1, PluginItems
  <2>4. Counted(n, m)' = Counted(n, m)
    BY <1>1, <2>2, <2>3
  <2>5. Cardinality(Adding(n, m)') = Cardinality(Adding(n, m))
    BY <2>1, <2>2, <2>3
  <2> QED
    BY <2>1, <2>2, <2>4, <2>5
<1>3. \A n \in Name : torn'[n] \/ Even(DefaultTotal(n)')
  BY <1>1, <1>2, TotalsKept
<1>4. UnusedZero'
  BY <1>1 DEF BalanceInv, UnusedZero
<1> QED
  BY <1>3, <1>4, BalanceAfter

LEMMA ForgetsBalance == ASSUME Forgets, Empties PROVE BalanceInv'
<1>1. \A q \in Proc : Todo(q)' = ForPlugins(Todo(q))
  BY DEF Forgets
<1>2. \A n \in Name, m \in Metric : count'["default"][n][m] = 0
  BY DEF Empties
<1>3. ASSUME NEW n \in Name PROVE Even(DefaultTotal(n)')
  <2>1. PICK f : f = DefaultTotal(n)'
    OBVIOUS
  <2>2. ASSUME NEW m \in Metric PROVE f[m] = 0
    <3>1. Adding(n, m)' = {}
      BY <1>1, PluginItems DEF Adding
    <3>2. Cardinality(Adding(n, m)') = 0
      BY <3>1, FS_EmptySet
    <3>3. Counted(n, m)' = 0
      BY <1>2 DEF Counted
    <3> QED
      BY <2>1, <3>2, <3>3 DEF DefaultTotal
  <2>3. /\ f["attempts"] = 0 /\ f["successes"] = 0 /\ f["errors"] = 0 /\ f["contextCanceled"] = 0
        /\ f["contextDeadlineExceeded"] = 0 /\ f["failures"] = 0 /\ f["rejects"] = 0
        /\ f["shortCircuits"] = 0 /\ f["timeouts"] = 0 /\ f["totalDuration"] = f["runDuration"]
    BY <2>2, MetricNames
  <2>4. Even(f)
    BY ONLY <2>3 DEF Even
  <2> QED
    BY <2>1, <2>4
<1>4. UnusedZero'
  BY <1>2 DEF UnusedZero
<1> QED
  BY <1>3, <1>4, BalanceAfter

LEMMA BalanceStep ==
    ASSUME CallsInv, BusyInv, ExclusiveInv, BalanceInv, [Next]_vars PROVE BalanceInv'
BY StepKinds, IdleBalance, ForgetsBalance, RelaysBalance, BeginsBalance, LoadsBalance, AddsBalance, ZeroesBalance,
   SendsBalance

LEMMA BalanceInit == Init => BalanceInv
<1> SUFFICES ASSUME Init PROVE BalanceInv
  OBVIOUS
<1>1. \A p \in Proc : Todo(p) = {}
  <2>1. \A p \in Proc : todo[p] = <<>>
    BY DEF Init
  <2> QED
    BY <2>1, TodoEmpty
<1>2. \A n \in Name, m \in Metric : count["default"][n][m] = 0
  <2>1. count["default"] = [k \in {Key("default", n) : n \in Name} |-> NewCollector]
    BY DefaultKeys DEF Init, Collector
  <2>2. \A n \in Name : count["default"][n] = NewCollector
    BY <2>1, DefaultKeys
  <2> QED
    BY <2>2 DEF NewCollector
<1>3. ASSUME NEW n \in Name PROVE Even(DefaultTotal(n))
  <2>1. PICK f : f = DefaultTotal(n)
    OBVIOUS
  <2>2. ASSUME NEW m \in Metric PROVE f[m] = 0
    <3>1. Adding(n, m) = {}
      BY <1>1 DEF Adding
    <3>2. Cardinality(Adding(n, m)) = 0
      BY <3>1, FS_EmptySet
    <3>3. Counted(n, m) = 0
      BY <1>2 DEF Counted
    <3> QED
      BY <2>1, <3>2, <3>3 DEF DefaultTotal
  <2>3. /\ f["attempts"] = 0 /\ f["successes"] = 0 /\ f["errors"] = 0 /\ f["contextCanceled"] = 0
        /\ f["contextDeadlineExceeded"] = 0 /\ f["failures"] = 0 /\ f["rejects"] = 0
        /\ f["shortCircuits"] = 0 /\ f["timeouts"] = 0 /\ f["totalDuration"] = f["runDuration"]
    BY <2>2, MetricNames
  <2>4. Even(f)
    BY ONLY <2>3 DEF Even
  <2> QED
    BY <2>1, <2>4
<1> QED
  BY <1>2, <1>3 DEF BalanceInv

\* Module Collectors' BalancedUnlessTorn: whatever the circuits, the events that occur and the
\* number of goroutines and of calls, an error of the default collector is one of a request
\* that it counts too, unless an Update overlapped the last Reset.
THEOREM CountersBalanced == Spec => []BalancedUnlessTorn
<1> DEFINE Inv == CallsInv /\ BusyInv /\ ExclusiveInv /\ BalanceInv
<1>1. Init => Inv
  BY InitTypes, ExclusiveInit, BalanceInit DEF CallsInv
<1>2. Inv /\ [Next]_vars => Inv'
  BY CallsStep, BusyStep, ExclusiveStep, BalanceStep DEF CallsInv
<1>3. Inv => BalancedUnlessTorn
  <2> SUFFICES ASSUME Inv, AtRest, NEW n \in Name, ~torn[n] PROVE Balanced(count["default"][n])
    BY DEF BalancedUnlessTorn
  <2>1. PICK f, g : f = count["default"][n] /\ g = DefaultTotal(n)
    OBVIOUS
  <2>2. \A p \in Proc : Todo(p) = {}
    BY TodoEmpty DEF AtRest, CallsInv, CallInv
  <2>3. ASSUME NEW m \in Metric PROVE f[m] \in Nat /\ g[m] = f[m]
    <3>1. /\ count["default"][n][m] \in Nat
          /\ DefaultTotal(n)[m] = Counted(n, m) + Cardinality(Adding(n, m))
      BY TotalTypes DEF CallsInv
    <3>2. Adding(n, m) = {}
      BY <2>2 DEF Adding
    <3>3. Cardinality(Adding(n, m)) = 0
      BY <3>2, FS_EmptySet
    <3>4. Counted(n, m) = count["default"][n][m]
      BY <2>2 DEF Counted
    <3> QED
      BY <2>1, <3>1, <3>3, <3>4
  <2>4. Even(g)
    BY <2>1 DEF BalanceInv
  <2>5. \A m \in Metric : f[m] \in Nat /\ g[m] = f[m]
    BY <2>3
  <2>6. Even(f)
    BY ONLY <2>4, <2>5, MetricNames DEF Even
  <2>7. Balanced(f)
    BY ONLY <2>5, <2>6, BalancedEven
  <2> QED
    BY <2>1, <2>7
<1> QED
  BY <1>1, <1>2, <1>3, PTL DEF Spec


----------------------------------------------------------------------------
(* The counters of the plugins.                                            *)

Plugin == Collector \ {"default"}

LEMMA HandedTypes ==
    ASSUME Types, CallInv, BusyInv, NEW c \in Collector, NEW k \in Keys(c), NEW m \in Metric
    PROVE  /\ IsFiniteSet(Sending(c, k, m)) /\ Cardinality(Sending(c, k, m)) \in Nat
           /\ count[c][k][m] \in Nat /\ Handed(c, k, m) \in Nat
<1>1. IsFiniteSet(Sending(c, k, m))
  <2>1. \A p \in Sending(c, k, m) : p \in Proc /\ Todo(p) # {}
    BY DEF Sending
  <2> QED
    BY <2>1, TodoBusy
<1>2. Cardinality(Sending(c, k, m)) \in Nat
  BY <1>1, FS_CardinalityType
<1>3. count[c][k][m] \in Nat
  <2>1. count[c] \in [Keys(c) -> [Metric -> Nat]]
    BY DEF Types
  <2> QED
    BY <2>1
<1> QED
  BY <1>1, <1>2, <1>3 DEF Handed

\* Only p's part changes in who sends.
LEMMA SendingStep ==
    ASSUME Types, CallInv, BusyInv, NEW p \in Proc, OthersKept(p),
           NEW c \in Collector, NEW k \in Keys(c), NEW m \in Metric
    PROVE  /\ Cardinality(Sending(c, k, m)') \in Nat
           /\ Cardinality(Sending(c, k, m)') = Cardinality(Sending(c, k, m))
                + (IF Key(c, name[p]) = k /\ SendOf(c, m) \in Todo(p)' THEN 1 ELSE 0)
                - (IF Key(c, name[p]) = k /\ SendOf(c, m) \in Todo(p) THEN 1 ELSE 0)
<1>1. PICK A, B : A = Sending(c, k, m) /\ B = Sending(c, k, m)'
  OBVIOUS
<1>2. name' = name /\ \A q \in Proc : q # p => Todo(q)' = Todo(q)
  BY DEF OthersKept
<1>3. IsFiniteSet(A) /\ \A q : q # p => (q \in A <=> q \in B)
  BY <1>1, <1>2, HandedTypes DEF Sending
<1>4. /\ Cardinality(A) \in Nat /\ Cardinality(B) \in Nat
      /\ Cardinality(B) = Cardinality(A) + (IF p \in B THEN 1 ELSE 0) - (IF p \in A THEN 1 ELSE 0)
  BY ONLY <1>3, CardChange
<1>5. /\ p \in A <=> Key(c, name[p]) = k /\ SendOf(c, m) \in Todo(p)
      /\ p \in B <=> Key(c, name[p]) = k /\ SendOf(c, m) \in Todo(p)'
  BY <1>1, <1>2 DEF Sending
<1> QED
  BY <1>1, <1>4, <1>5

\* What the plugins will have is as before.
HandedKept ==
    \A c \in Plugin : \A k \in Keys(c) : \A m \in Metric : Handed(c, k, m)' = Handed(c, k, m)

LEMMA IdleHanded == ASSUME Idle PROVE HandedKept
<1>1. /\ count' = count
      /\ \A p \in Proc : /\ name'[p] = name[p] \/ (Todo(p) = {} /\ Todo(p)' = {})
                         /\ \A x : x[1] # "gauge" => (x \in Todo(p)' <=> x \in Todo(p))
  BY DEF Idle
<1>2. ASSUME NEW c, NEW k, NEW m PROVE Sending(c, k, m)' = Sending(c, k, m)
  <2>1. SendOf(c, m)[1] # "gauge"
    BY DEF SendOf
  <2>2. \A p \in Proc : (Key(c, name'[p]) = k /\ SendOf(c, m) \in Todo(p)')
                            <=> (Key(c, name[p]) = k /\ SendOf(c, m) \in Todo(p))
    BY <1>1, <2>1
  <2> QED
    BY <2>2 DEF Sending
<1> QED
  BY <1>1, <1>2 DEF HandedKept, Handed

\* A step of p that does not concern the plugins.
LEMMA OtherHanded ==
    ASSUME CallsInv, BusyInv, NEW p \in Proc, OthersKept(p),
           \A c \in Plugin : count'[c] = count[c],
           \A c, m : SendOf(c, m) \in Todo(p)' <=> SendOf(c, m) \in Todo(p)
    PROVE  HandedKept
<1> SUFFICES ASSUME NEW c \in Plugin, NEW k \in Keys(c), NEW m \in Metric
             PROVE  Handed(c, k, m)' = Handed(c, k, m)
  BY DEF HandedKept
<1>t. Types /\ CallInv /\ c \in Collector
  BY DEF CallsInv, Plugin
<1>1. Cardinality(Sending(c, k, m)) \in Nat
  BY <1>t, HandedTypes
<1>2. Cardinality(Sending(c, k, m)') = Cardinality(Sending(c, k, m))
        + (IF Key(c, name[p]) = k /\ SendOf(c, m) \in Todo(p)' THEN 1 ELSE 0)
        - (IF Key(c, name[p]) = k /\ SendOf(c, m) \in Todo(p) THEN 1 ELSE 0)
  BY <1>t, SendingStep
<1>3. Cardinality(Sending(c, k, m)') = Cardinality(Sending(c, k, m))
  BY <1>1, <1>2
<1> QED
  BY <1>3 DEF Handed

LEMMA SendsHanded ==
    ASSUME CallsInv, BusyInv, NEW p \in Proc, NEW metrics \in SUBSET (Kind \X Metric), Sends(p, metrics)
    PROVE  HandedKept
<1> SUFFICES ASSUME NEW c \in Plugin, NEW k \in Keys(c), NEW m \in Metric
             PROVE  Handed(c, k, m)' = Handed(c, k, m)
  BY DEF HandedKept
<1>t. Types /\ CallInv /\ c \in Collector /\ name[p] \in Name
  BY DEF CallsInv, Plugin, Types
<1>k. c \in Kind
  BY <1>t, RegisteredAssumption DEF Collector, Range
<1>1. /\ OthersKept(p) /\ Increment(name[p], metrics)
      /\ SentItems(metrics) \subseteq Todo(p) /\ Todo(p)' = Todo(p) \ SentItems(metrics)
  BY DEF Sends
<1>2. Cardinality(Sending(c, k, m)) \in Nat /\ count[c][k][m] \in Nat
  BY <1>t, HandedTypes
<1>3. /\ Cardinality(Sending(c, k, m)') \in Nat
      /\ Cardinality(Sending(c, k, m)') = Cardinality(Sending(c, k, m))
           + (IF Key(c, name[p]) = k /\ SendOf(c, m) \in Todo(p)' THEN 1 ELSE 0)
           - (IF Key(c, name[p]) = k /\ SendOf(c, m) \in Todo(p) THEN 1 ELSE 0)
  BY <1>t, <1>1, SendingStep
<1>4. count'[c][k][m] = count[c][k][m] + IF k = Key(c, name[p]) /\ <<c, m>> \in metrics THEN 1 ELSE 0
  <2>1. CountsSent(name[p], metrics)
    BY <1>t, <1>1, CountSent
  <2> QED
    BY <1>t, <2>1 DEF CountsSent
<1>5. SendOf(c, m) \in SentItems(metrics) <=> <<c, m>> \in metrics
  BY <1>1, <1>k, SentTo
<1>6. CASE <<c, m>> \in metrics
  <2>1. SendOf(c, m) \in Todo(p) /\ SendOf(c, m) \notin Todo(p)'
    BY <1>1, <1>5, <1>6
  <2> QED
    BY <1>2, <1>3, <1>4, <1>6, <2>1 DEF Handed
<1>7. CASE <<c, m>> \notin metrics
  <2>1. SendOf(c, m) \in Todo(p)' <=> SendOf(c, m) \in Todo(p)
    BY <1>1, <1>5, <1>7
  <2> QED
    BY <1>2, <1>3, <1>4, <1>7, <2>1 DEF Handed
<1> QED
  BY <1>6, <1>7

\* The result of p goes to every plugin, and perhaps to the default collector.
Reports(p) ==
    /\ OthersKept(p) /\ Todo(p) = {} /\ count' = count
    /\ \A c \in Plugin, m \in Metric : SendOf(c, m) \in Todo(p)' <=> m \in Reported(c, ResultOf(p))
    /\ \A m \in Metric : AddOf(m) \in Todo(p)' => m \in ResultOf(p)

LEMMA BeginsReports ==
    ASSUME NEW p \in Proc, (\E resets \in BOOLEAN : Begins(p, resets)) \/ Relays(p) PROVE Reports(p)
<1>1. CASE \E resets \in BOOLEAN : Begins(p, resets)
  <2>1. PICK resets \in BOOLEAN : Begins(p, resets)
    BY <1>1
  <2>2. /\ OthersKept(p) /\ Todo(p) = {} /\ count' = count
        /\ Todo(p)' = (IF resets THEN ZeroItems ELSE {}) \cup AllItems(ResultOf(p))
    BY <2>1 DEF Begins, counters
  <2>3. \A c \in Plugin, m \in Metric : SendOf(c, m) \in Todo(p)' <=> m \in Reported(c, ResultOf(p))
    BY <2>2, ItemMembers DEF Plugin
  <2>4. \A m \in Metric : AddOf(m) \in Todo(p)' => m \in ResultOf(p)
    BY <2>2, ItemMembers
  <2> QED
    BY <2>2, <2>3, <2>4 DEF Reports
<1>2. CASE Relays(p)
  <2>1. /\ OthersKept(p) /\ Todo(p) = {} /\ count' = count
        /\ Todo(p)' = ForPlugins(AllItems(ResultOf(p)))
    BY <1>2 DEF Relays
  <2>2. \A c \in Plugin, m \in Metric : SendOf(c, m) \in Todo(p)' <=> m \in Reported(c, ResultOf(p))
    <3> SUFFICES ASSUME NEW c \in Plugin, NEW m \in Metric
                 PROVE  SendOf(c, m) \in Todo(p)' <=> m \in Reported(c, ResultOf(p))
      OBVIOUS
    <3>1. SendOf(c, m) \in Todo(p)' <=> SendOf(c, m) \in AllItems(ResultOf(p))
      BY <2>1, PluginItems
    <3>2. SendOf(c, m) \in AllItems(ResultOf(p)) <=> m \in Reported(c, ResultOf(p))
      BY ItemMembers DEF Plugin
    <3> QED
      BY <3>1, <3>2
  <2>3. \A m \in Metric : AddOf(m) \notin Todo(p)'
    BY <2>1, PluginItems
  <2> QED
    BY <2>1, <2>2, <2>3 DEF Reports
<1> QED
  BY <1>1, <1>2

LEMMA ReportsHanded ==
    ASSUME CallsInv, BusyInv, NEW p \in Proc, Reports(p), NEW c \in Plugin, NEW k \in Keys(c), NEW m \in Metric
    PROVE  Handed(c, k, m)' = Handed(c, k, m)
             + IF Key(c, name[p]) = k /\ m \in Reported(c, ResultOf(p)) THEN 1 ELSE 0
<1>t. Types /\ CallInv /\ c \in Collector
  BY DEF CallsInv, Plugin
<1>1. OthersKept(p) /\ Todo(p) = {} /\ count' = count
  BY DEF Reports
<1>2. Cardinality(Sending(c, k, m)) \in Nat /\ count[c][k][m] \in Nat
  BY <1>t, HandedTypes
<1>3. /\ Cardinality(Sending(c, k, m)') \in Nat
      /\ Cardinality(Sending(c, k, m)') = Cardinality(Sending(c, k, m))
           + (IF Key(c, name[p]) = k /\ SendOf(c, m) \in Todo(p)' THEN 1 ELSE 0)
           - (IF Key(c, name[p]) = k /\ SendOf(c, m) \in Todo(p) THEN 1 ELSE 0)
  BY <1>t, <1>1, SendingStep
<1>4. SendOf(c, m) \in Todo(p)' <=> m \in Reported(c, ResultOf(p))
  BY DEF Reports
<1>5. SendOf(c, m) \notin Todo(p)
  BY <1>1
<1> QED
  BY <1>1, <1>2, <1>3, <1>4, <1>5 DEF Handed

LEMMA ForgetsHanded == ASSUME Forgets, Empties PROVE HandedKept
<1>1. name' = name /\ \A q \in Proc : Todo(q)' = ForPlugins(Todo(q))
  BY DEF Forgets
<1>2. \A c \in Plugin : count'[c] = count[c]
  BY DEF Empties, Plugin
<1>3. ASSUME NEW c, NEW k, NEW m PROVE Sending(c, k, m)' = Sending(c, k, m)
  BY <1>1, PluginItems DEF Sending
<1> QED
  BY <1>2, <1>3 DEF HandedKept, Handed

\* Every step but the beginning of the writes of a call leaves what the plugins will have.
LEMMA HandedStep ==
    ASSUME CallsInv, BusyInv, [Next]_vars
    PROVE  HandedKept \/ \E p \in Proc : Reports(p)
<1>t. Types /\ CallInv /\ TodoInv
  BY DEF CallsInv
<1>1. ASSUME NEW p \in Proc, NEW enabled \in BOOLEAN, Loads(p, enabled), UNCHANGED <<count, torn>>
      PROVE  HandedKept
  <2>1. /\ OthersKept(p) /\ count' = count
        /\ Todo(p)' = (Todo(p) \ {Timing}) \cup (IF enabled THEN TimingAdds ELSE {})
    BY <1>1 DEF Loads
  <2>2. \A c, m : SendOf(c, m) # Timing /\ SendOf(c, m) \notin TimingAdds
    BY DEF SendOf, Timing, TimingAdds, AddOf
  <2> QED
    BY <2>1, <2>2, OtherHanded
<1>2. ASSUME NEW p \in Proc, NEW a \in Used, Adds(p, a) PROVE HandedKept
  <2>1. /\ OthersKept(p) /\ Todo(p)' = Todo(p) \ {AddOf(a)} /\ name[p] \in Name /\ a \in Metric
    BY <1>t, <1>2, UsedTypes DEF Adds, Types
  <2>2. \A c, m : SendOf(c, m) # AddOf(a)
    BY DEF SendOf, AddOf
  <2>3. count' = [count EXCEPT !["default"][name[p]][a] = @ + 1]
    BY <1>2 DEF Adds
  <2>4. \A c \in Plugin : count'[c] = count[c]
    BY <1>t, <2>3 DEF Types, Plugin
  <2> QED
    BY <2>1, <2>2, <2>4, OtherHanded
<1>3. ASSUME NEW p \in Proc, NEW a \in Metric, Zeroes(p, a) PROVE HandedKept
  <2>1. /\ OthersKept(p) /\ Todo(p)' = Todo(p) \ {ZeroOf(a)}
    BY <1>3 DEF Zeroes
  <2>2. \A c, m : SendOf(c, m) # ZeroOf(a)
    BY DEF SendOf, ZeroOf
  <2>3. count' = [count EXCEPT !["default"][name[p]][a] = 0]
    BY <1>3 DEF Zeroes
  <2>4. \A c \in Plugin : count'[c] = count[c]
    BY <1>t, <2>3 DEF Types, Plugin
  <2> QED
    BY <2>1, <2>2, <2>4, OtherHanded
<1> QED
  BY <1>1, <1>2, <1>3, StepKinds, IdleHanded, ForgetsHanded, SendsHanded, BeginsReports


----------------------------------------------------------------------------
(* What the default collector has, and what Prometheus will have.          *)

LEMMA DueTypes ==
    ASSUME Types, CallInv, BusyInv, NEW n \in Name, NEW m \in Metric
    PROVE  /\ IsFiniteSet(Due(n, m)) /\ Cardinality(Due(n, m)) \in Nat
           /\ count["default"][n][m] \in Nat /\ DefaultLimit(n, m) \in Nat
<1>1. IsFiniteSet(Due(n, m))
  <2>1. \A p \in Due(n, m) : p \in Proc /\ Todo(p) # {}
    BY DEF Due, DueOf
  <2> QED
    BY <2>1, TodoBusy
<1>2. Cardinality(Due(n, m)) \in Nat
  BY <1>1, FS_CardinalityType
<1>3. count["default"][n][m] \in Nat
  BY TotalTypes
<1> QED
  BY <1>1, <1>2, <1>3 DEF DefaultLimit

\* Only p's part changes in what is due.
LEMMA DueStep ==
    ASSUME Types, CallInv, BusyInv, NEW p \in Proc, OthersKept(p), NEW n \in Name, NEW m \in Metric
    PROVE  /\ Cardinality(Due(n, m)') \in Nat
           /\ Cardinality(Due(n, m)') = Cardinality(Due(n, m))
                + (IF DueOf(p, n, m)' THEN 1 ELSE 0) - (IF DueOf(p, n, m) THEN 1 ELSE 0)
<1>1. PICK A, B : A = Due(n, m) /\ B = Due(n, m)'
  OBVIOUS
<1>2. \A q \in Proc : q # p => (DueOf(q, n, m)' <=> DueOf(q, n, m))
  BY DEF OthersKept, DueOf
<1>3. IsFiniteSet(A) /\ \A q : q # p => (q \in A <=> q \in B)
  BY <1>1, <1>2, DueTypes DEF Due
<1>4. /\ Cardinality(A) \in Nat /\ Cardinality(B) \in Nat
      /\ Cardinality(B) = Cardinality(A) + (IF p \in B THEN 1 ELSE 0) - (IF p \in A THEN 1 ELSE 0)
  BY ONLY <1>3, CardChange
<1>5. (p \in A <=> DueOf(p, n, m)) /\ (p \in B <=> DueOf(p, n, m)')
  BY <1>1 DEF Due
<1> QED
  BY <1>1, <1>4, <1>5

\* The default collector will have no more than before.
LimitKept == \A n \in Name, m \in Metric : DefaultLimit(n, m)' \in Nat /\ DefaultLimit(n, m)' <= DefaultLimit(n, m)

LEMMA IdleLimit == ASSUME CallsInv, BusyInv, Idle PROVE LimitKept
<1> SUFFICES ASSUME NEW n \in Name, NEW m \in Metric
             PROVE  DefaultLimit(n, m)' \in Nat /\ DefaultLimit(n, m)' <= DefaultLimit(n, m)
  BY DEF LimitKept
<1>1. /\ count' = count
      /\ \A p \in Proc : /\ name'[p] = name[p] \/ (Todo(p) = {} /\ Todo(p)' = {})
                         /\ \A x : x[1] # "gauge" => (x \in Todo(p)' <=> x \in Todo(p))
  BY DEF Idle
<1>2. AddOf(m)[1] # "gauge" /\ Timing[1] # "gauge"
  BY DEF AddOf, Timing
<1>3. \A p \in Proc : DueOf(p, n, m)' <=> DueOf(p, n, m)
  BY <1>1, <1>2 DEF DueOf
<1>4. Due(n, m)' = Due(n, m)
  BY <1>3 DEF Due
<1>5. DefaultLimit(n, m)' = DefaultLimit(n, m) /\ DefaultLimit(n, m) \in Nat
  BY <1>1, <1>4, DueTypes DEF DefaultLimit, CallsInv
<1> QED
  BY <1>5

LEMMA SendsLimit ==
    ASSUME CallsInv, BusyInv, NEW p \in Proc, NEW metrics \in SUBSET (Kind \X Metric), Sends(p, metrics)
    PROVE  LimitKept
<1> SUFFICES ASSUME NEW n \in Name, NEW m \in Metric
             PROVE  DefaultLimit(n, m)' \in Nat /\ DefaultLimit(n, m)' <= DefaultLimit(n, m)
  BY DEF LimitKept
<1>t. Types /\ CallInv /\ name[p] \in Name
  BY DEF CallsInv, Types
<1>1. /\ OthersKept(p) /\ Increment(name[p], metrics)
      /\ SentItems(metrics) \subseteq Todo(p) /\ Todo(p)' = Todo(p) \ SentItems(metrics)
  BY DEF Sends
<1>2. count'["default"][n][m] = count["default"][n][m]
  <2>1. CountsSent(name[p], metrics)
    BY <1>t, <1>1, CountSent
  <2>2. "default" \in Collector /\ n \in Keys("default") /\ count["default"][n][m] \in Nat
    BY <1>t, DefaultKeys, TotalTypes DEF Keys
  <2>3. <<"default", m>> \notin metrics
    BY <1>1, SentTo
  <2>4. count'["default"][n][m] = count["default"][n][m]
          + IF n = Key("default", name[p]) /\ <<"default", m>> \in metrics THEN 1 ELSE 0
    BY <2>1, <2>2 DEF CountsSent
  <2> QED
    BY <2>2, <2>3, <2>4
<1>3. AddOf(m) \notin SentItems(metrics) /\ Timing \notin SentItems(metrics)
  <2>1. AddOf(m)[1] # "send" /\ Timing[1] # "send"
    BY DEF AddOf, Timing
  <2> QED
    BY <1>1, <2>1, SentTo
<1>4. DueOf(p, n, m)' <=> DueOf(p, n, m)
  BY <1>1, <1>3 DEF DueOf, OthersKept
<1>5. /\ Cardinality(Due(n, m)') = Cardinality(Due(n, m))
           + (IF DueOf(p, n, m)' THEN 1 ELSE 0) - (IF DueOf(p, n, m) THEN 1 ELSE 0)
      /\ Cardinality(Due(n, m)) \in Nat /\ DefaultLimit(n, m) \in Nat
  BY <1>t, <1>1, DueStep, DueTypes
<1>6. Cardinality(Due(n, m)') = Cardinality(Due(n, m))
  BY <1>4, <1>5
<1> QED
  BY <1>2, <1>5, <1>6 DEF DefaultLimit

LEMMA LoadsLimit ==
    ASSUME CallsInv, BusyInv, NEW p \in Proc, NEW enabled \in BOOLEAN, Loads(p, enabled), UNCHANGED <<count, torn>>
    PROVE  LimitKept
<1> SUFFICES ASSUME NEW n \in Name, NEW m \in Metric
             PROVE  DefaultLimit(n, m)' \in Nat /\ DefaultLimit(n, m)' <= DefaultLimit(n, m)
  BY DEF LimitKept
<1>t. Types /\ CallInv
  BY DEF CallsInv
<1>1. /\ OthersKept(p) /\ count' = count /\ Timing \in Todo(p)
      /\ Todo(p)' = (Todo(p) \ {Timing}) \cup (IF enabled THEN TimingAdds ELSE {})
  BY DEF Loads
<1>2. AddOf(m) \in TimingAdds => m \in Durations
  BY DEF TimingAdds, AddOf
<1>3. DueOf(p, n, m)' => DueOf(p, n, m)
  <2>1. Timing \notin Todo(p)'
    BY <1>1 DEF TimingAdds, AddOf, Timing
  <2> QED
    BY <1>1, <1>2, <2>1 DEF DueOf, OthersKept
<1>4. /\ Cardinality(Due(n, m)') = Cardinality(Due(n, m))
           + (IF DueOf(p, n, m)' THEN 1 ELSE 0) - (IF DueOf(p, n, m) THEN 1 ELSE 0)
      /\ Cardinality(Due(n, m)') \in Nat /\ Cardinality(Due(n, m)) \in Nat /\ count["default"][n][m] \in Nat
  BY <1>t, <1>1, DueStep, DueTypes
<1>5. Cardinality(Due(n, m)') <= Cardinality(Due(n, m))
  BY <1>3, <1>4
<1> QED
  BY <1>1, <1>4, <1>5 DEF DefaultLimit

LEMMA AddsLimit ==
    ASSUME CallsInv, BusyInv, NEW p \in Proc, NEW a \in Used, Adds(p, a)
    PROVE  LimitKept
<1> SUFFICES ASSUME NEW n \in Name, NEW m \in Metric
             PROVE  DefaultLimit(n, m)' \in Nat /\ DefaultLimit(n, m)' <= DefaultLimit(n, m)
  BY DEF LimitKept
<1>t. Types /\ CallInv /\ TodoInv
  BY DEF CallsInv
<1>1. /\ OthersKept(p) /\ a \in Metric
      /\ AddOf(a) \in Todo(p) /\ Todo(p)' = Todo(p) \ {AddOf(a)}
  BY UsedTypes DEF Adds
<1>2. PICK h \in Name, v \in Nat : h = name[p] /\ v = count["default"][h][a] + 1
  <2>1. name[p] \in Name
    BY <1>t DEF Types
  <2>2. count["default"][name[p]][a] \in Nat
    BY <1>t, <1>1, <2>1, TotalTypes
  <2> QED
    BY <2>1, <2>2
<1>3. /\ count'["default"][h][a] = v
      /\ \A k \in Name, i \in Metric : k # h \/ i # a => count'["default"][k][i] = count["default"][k][i]
  <2>1. WritesCount(h, a, v)
    BY <1>2 DEF Adds, WritesCount
  <2>2. Types /\ a \in Metric /\ v \in Nat /\ h \in Name
    BY <1>t, <1>1, <1>2
  <2> QED
    BY ONLY <2>1, <2>2, CountWritten
<1>4. /\ Cardinality(Due(n, m)') = Cardinality(Due(n, m))
           + (IF DueOf(p, n, m)' THEN 1 ELSE 0) - (IF DueOf(p, n, m) THEN 1 ELSE 0)
      /\ Cardinality(Due(n, m)') \in Nat /\ Cardinality(Due(n, m)) \in Nat /\ count["default"][n][m] \in Nat
  BY <1>t, <1>1, DueStep, DueTypes
<1>5. AddOf(a) # Timing /\ (AddOf(m) = AddOf(a) <=> m = a)
  BY DEF AddOf, Timing
<1>6. CASE n = h /\ m = a
  <2>1. DueOf(p, n, m)
    BY <1>1, <1>2, <1>6 DEF DueOf
  <2>2. ~DueOf(p, n, m)'
    <3>1. AddOf(m) \notin Todo(p)'
      BY <1>1, <1>6
    <3>2. m \in Durations => Timing \notin Todo(p)
      BY <1>t, <1>1, <1>6 DEF TodoInv, TodoOf
    <3>3. m \in Durations => Timing \notin Todo(p)'
      BY <1>1, <3>2
    <3> QED
      BY <3>1, <3>3 DEF DueOf
  <2>3. Cardinality(Due(n, m)') = Cardinality(Due(n, m)) - 1
    BY <1>4, <2>1, <2>2
  <2>4. count'["default"][n][m] = count["default"][n][m] + 1
    BY <1>2, <1>3, <1>6
  <2> QED
    BY <1>4, <2>3, <2>4 DEF DefaultLimit
<1>7. CASE ~(n = h /\ m = a)
  <2>1. DueOf(p, n, m)' <=> DueOf(p, n, m)
    <3>1. name[p] = n => (AddOf(m) \in Todo(p)' <=> AddOf(m) \in Todo(p))
      BY <1>1, <1>2, <1>5, <1>7
    <3>2. Timing \in Todo(p)' <=> Timing \in Todo(p)
      BY <1>1, <1>5
    <3> QED
      BY <1>1, <3>1, <3>2 DEF DueOf, OthersKept
  <2>2. Cardinality(Due(n, m)') = Cardinality(Due(n, m))
    BY <1>4, <2>1
  <2>3. count'["default"][n][m] = count["default"][n][m]
    BY <1>3, <1>7
  <2> QED
    BY <1>4, <2>2, <2>3 DEF DefaultLimit
<1> QED
  BY <1>6, <1>7

LEMMA ZeroesLimit ==
    ASSUME CallsInv, BusyInv, NEW p \in Proc, NEW a \in Metric, Zeroes(p, a)
    PROVE  LimitKept
<1> SUFFICES ASSUME NEW n \in Name, NEW m \in Metric
             PROVE  DefaultLimit(n, m)' \in Nat /\ DefaultLimit(n, m)' <= DefaultLimit(n, m)
  BY DEF LimitKept
<1>t. Types /\ CallInv
  BY DEF CallsInv
<1>1. /\ OthersKept(p) /\ ZeroOf(a) \in Todo(p) /\ Todo(p)' = Todo(p) \ {ZeroOf(a)}
  BY DEF Zeroes
<1>2. PICK h \in Name : h = name[p]
  BY <1>t DEF Types
<1>3. /\ count'["default"][h][a] = 0
      /\ \A k \in Name, i \in Metric : k # h \/ i # a => count'["default"][k][i] = count["default"][k][i]
  <2>1. PICK v \in Nat : v = 0 /\ WritesCount(h, a, v)
    BY <1>2 DEF Zeroes, WritesCount
  <2>2. Types /\ a \in Metric /\ h \in Name
    BY <1>t, <1>2
  <2>3. /\ count'["default"][h][a] = v
        /\ \A k \in Name, i \in Metric : k # h \/ i # a => count'["default"][k][i] = count["default"][k][i]
    BY ONLY <2>1, <2>2, CountWritten
  <2> QED
    BY <2>1, <2>3
<1>4. /\ Cardinality(Due(n, m)') = Cardinality(Due(n, m))
           + (IF DueOf(p, n, m)' THEN 1 ELSE 0) - (IF DueOf(p, n, m) THEN 1 ELSE 0)
      /\ Cardinality(Due(n, m)') \in Nat /\ Cardinality(Due(n, m)) \in Nat /\ count["default"][n][m] \in Nat
  BY <1>t, <1>1, DueStep, DueTypes
<1>5. AddOf(m) # ZeroOf(a) /\ Timing # ZeroOf(a)
  BY DEF AddOf, ZeroOf, Timing
<1>6. DueOf(p, n, m)' <=> DueOf(p, n, m)
  BY <1>1, <1>5 DEF DueOf, OthersKept
<1>7. Cardinality(Due(n, m)') = Cardinality(Due(n, m))
  BY <1>4, <1>6
<1>8. count'["default"][n][m] \in Nat /\ count'["default"][n][m] <= count["default"][n][m]
  BY <1>3, <1>4
<1> QED
  BY <1>4, <1>7, <1>8 DEF DefaultLimit

\* The beginning of the writes of p adds no more than its result and both durations.
LEMMA ReportsLimit ==
    ASSUME CallsInv, BusyInv, NEW p \in Proc, Reports(p), NEW n \in Name, NEW m \in Metric
    PROVE  /\ DefaultLimit(n, m)' \in Nat
           /\ DefaultLimit(n, m)' <= DefaultLimit(n, m)
                + IF name[p] = n /\ m \in ResultOf(p) \cup Durations THEN 1 ELSE 0
<1>t. Types /\ CallInv
  BY DEF CallsInv
<1>1. OthersKept(p) /\ Todo(p) = {} /\ count' = count
  BY DEF Reports
<1>2. /\ Cardinality(Due(n, m)') = Cardinality(Due(n, m))
           + (IF DueOf(p, n, m)' THEN 1 ELSE 0) - (IF DueOf(p, n, m) THEN 1 ELSE 0)
      /\ Cardinality(Due(n, m)') \in Nat /\ Cardinality(Due(n, m)) \in Nat /\ count["default"][n][m] \in Nat
  BY <1>t, <1>1, DueStep, DueTypes
<1>3. AddOf(m) \in Todo(p)' => m \in ResultOf(p)
  BY DEF Reports
<1>4. DueOf(p, n, m)' => name[p] = n /\ m \in ResultOf(p) \cup Durations
  BY <1>1, <1>3 DEF DueOf, OthersKept
<1>5. ~DueOf(p, n, m)
  BY <1>1 DEF DueOf
<1> QED
  BY <1>1, <1>2, <1>4, <1>5 DEF DefaultLimit

LEMMA ForgetsLimit == ASSUME CallsInv, BusyInv, Forgets, Empties PROVE LimitKept
<1> SUFFICES ASSUME NEW n \in Name, NEW m \in Metric
             PROVE  DefaultLimit(n, m)' \in Nat /\ DefaultLimit(n, m)' <= DefaultLimit(n, m)
  BY DEF LimitKept
<1>1. \A q \in Proc : Todo(q)' = ForPlugins(Todo(q))
  BY DEF Forgets
<1>2. Due(n, m)' = {}
  BY <1>1, PluginItems DEF Due, DueOf
<1>3. Cardinality(Due(n, m)') = 0
  BY <1>2, FS_EmptySet
<1>4. count'["default"][n][m] = 0
  BY DEF Empties
<1>5. DefaultLimit(n, m) \in Nat
  BY DueTypes DEF CallsInv
<1> QED
  BY <1>3, <1>4, <1>5 DEF DefaultLimit

LEMMA LimitStep ==
    ASSUME CallsInv, BusyInv, [Next]_vars
    PROVE  (HandedKept /\ LimitKept) \/ \E p \in Proc : Reports(p)
<1>1. LimitKept \/ \E p \in Proc : Reports(p)
  BY StepKinds, IdleLimit, ForgetsLimit, LoadsLimit, AddsLimit, ZeroesLimit, SendsLimit, BeginsReports
<1> QED
  BY <1>1, HandedStep

----------------------------------------------------------------------------
(* The circuits of a prefix.                                               *)

LEMMA SumSame ==
    ASSUME NEW S, IsFiniteSet(S), NEW f, NEW g, \A x \in S : f[x] \in Nat /\ g[x] = f[x]
    PROVE  Sum(g, S) = Sum(f, S)
<1>1. /\ Folding(Plus, f, S) /\ Sum(f, S) = Fold(Plus, f, S)
      /\ Folding(Plus, g, S) /\ Sum(g, S) = Fold(Plus, g, S)
  <2>1. Folding(Plus, f, S) /\ Sum(f, S) = Fold(Plus, f, S)
    BY SumIsFold DEF Sum
  <2>2. \A x \in S : g[x] \in Nat
    OBVIOUS
  <2>3. Folding(Plus, g, S) /\ Sum(g, S) = Fold(Plus, g, S)
    BY ONLY <2>2, IsFiniteSet(S), SumIsFold DEF Sum
  <2> QED
    BY <2>1, <2>3
<1>2. Commutes(Plus) /\ Monotone(Plus) /\ S \in SUBSET S
  BY PlusFolds
<1>3. /\ \A x \in S : f[x] \in Nat /\ f[x] <= g[x]
      /\ \A x \in S : g[x] \in Nat /\ g[x] <= f[x]
  OBVIOUS
<1>4. Fold(Plus, f, S) <= Fold(Plus, g, S)
  BY ONLY <1>1, <1>2, <1>3, FoldMonotone
<1>5. Fold(Plus, g, S) <= Fold(Plus, f, S)
  BY ONLY <1>1, <1>2, <1>3, FoldMonotone
<1>6. Fold(Plus, f, S) \in Nat /\ Fold(Plus, g, S) \in Nat
  BY <1>1, FoldType
<1> QED
  BY <1>1, <1>4, <1>5, <1>6

\* One circuit has one more.
LEMMA SumOverStep ==
    ASSUME NEW k \in Prefix, NEW f \in [Name -> Nat], NEW g \in [Name -> Nat], NEW a \in Name,
           \A n \in Name : n # a => g[n] = f[n]
    PROVE  /\ SumOver[k][f] \in Nat /\ SumOver[k][g] \in Nat
           /\ Sanitize(a) # k \/ g[a] = f[a] => SumOver[k][g] = SumOver[k][f]
           /\ Sanitize(a) = k /\ g[a] = f[a] + 1 => SumOver[k][g] = SumOver[k][f] + 1
<1>1. PICK S : S = Circuits(k)
  OBVIOUS
<1>2. S \subseteq Name /\ IsFiniteSet(S) /\ (a \in S <=> Sanitize(a) = k)
  BY <1>1, NameAssumption, FS_Subset DEF Circuits
<1>3. SumOver[k][f] = Sum(f, S) /\ SumOver[k][g] = Sum(g, S)
  BY <1>1 DEF SumOver
<1>4. /\ \A x \in S : f[x] \in Nat
      /\ \A x \in S : g[x] \in Nat
  BY <1>2
<1>5. Sum(f, S) \in Nat /\ \A x \in S : Sum(f, S) = f[x] + Sum(f, S \ {x}) /\ Sum(f, S \ {x}) \in Nat
  BY ONLY <1>2, <1>4, SumTypes
<1>6. Sum(g, S) \in Nat /\ \A x \in S : Sum(g, S) = g[x] + Sum(g, S \ {x}) /\ Sum(g, S \ {x}) \in Nat
  BY ONLY <1>2, <1>4, SumTypes
<1>7. ASSUME Sanitize(a) # k \/ g[a] = f[a] PROVE Sum(g, S) = Sum(f, S)
  <2>1. \A x \in S : f[x] \in Nat /\ g[x] = f[x]
    BY <1>2, <1>7
  <2> QED
    BY ONLY <1>2, <2>1, SumSame
<1>8. ASSUME Sanitize(a) = k, g[a] = f[a] + 1 PROVE Sum(g, S) = Sum(f, S) + 1
  <2>1. PICK T : T = S \ {a}
    OBVIOUS
  <2>2. IsFiniteSet(T) /\ \A x \in T : f[x] \in Nat /\ g[x] = f[x]
    BY <1>2, <2>1, FS_RemoveElement
  <2>3. Sum(g, T) = Sum(f, T)
    BY ONLY <2>2, SumSame
  <2>4. Sum(f, S) = f[a] + Sum(f, T) /\ Sum(f, T) \in Nat /\ Sum(g, S) = g[a] + Sum(g, T)
    BY <1>2, <1>5, <1>6, <1>8, <2>1
  <2>5. f[a] \in Nat
    OBVIOUS
  <2> QED
    BY <1>8, <2>3, <2>4, <2>5
<1> QED
  BY <1>3, <1>5, <1>6, <1>7, <1>8

----------------------------------------------------------------------------
(* The plugins agree, if all of them are registered.                       *)

AllRegistered == Collector = Kind

LEMMA PluginKeys ==
    ASSUME AllRegistered
    PROVE  /\ {"prometheus", "datadog", "graphite", "statsd"} \subseteq Plugin
           /\ Keys("prometheus") = Name /\ Keys("datadog") = Name
           /\ Keys("graphite") = Prefix /\ Keys("statsd") = Prefix
           /\ \A n : /\ Key("prometheus", n) = n /\ Key("datadog", n) = n
                     /\ Key("graphite", n) = Sanitize(n) /\ Key("statsd", n) = Sanitize(n)
<1>1. {"prometheus", "datadog", "graphite", "statsd"} \subseteq Plugin
  BY DEF AllRegistered, Plugin, Kind
<1>2. \A n : /\ Key("prometheus", n) = n /\ Key("datadog", n) = n
             /\ Key("graphite", n) = Sanitize(n) /\ Key("statsd", n) = Sanitize(n)
  BY DEF Key, NewGraphiteCollector, NewStatsdCollector
<1> QED
  BY <1>1, <1>2 DEF Keys, Prefix

LEMMA PluginTypes ==
    ASSUME AllRegistered, CallsInv, BusyInv, NEW m \in Metric
    PROVE  /\ \A n \in Name : Handed("prometheus", n, m) \in Nat /\ Handed("datadog", n, m) \in Nat
           /\ \A k \in Prefix : Handed("graphite", k, m) \in Nat /\ Handed("statsd", k, m) \in Nat
<1>1. \A c \in Plugin : c \in Collector
  BY DEF Plugin
<1>2. \A c \in Plugin : \A k \in Keys(c) : Handed(c, k, m) \in Nat
  BY <1>1, HandedTypes DEF CallsInv
<1> QED
  BY <1>2, PluginKeys

\* A step after which every plugin will have what it would have had before.
LEMMA KeptSinks ==
    ASSUME AllRegistered, CallsInv, BusyInv, SinksInv, HandedKept, LimitKept
    PROVE  SinksInv'
<1>1. ASSUME NEW m \in Metric
      PROVE  /\ \A n \in Name : /\ Handed("prometheus", n, m)' = Handed("prometheus", n, m)
                                /\ Handed("datadog", n, m)' = Handed("datadog", n, m)
             /\ \A k \in Prefix : /\ Handed("graphite", k, m)' = Handed("graphite", k, m)
                                  /\ Handed("statsd", k, m)' = Handed("statsd", k, m)
  BY PluginKeys DEF HandedKept
<1>2. Common \subseteq Metric
  BY DEF Common, Metric
<1>3. ASSUME NEW n \in Name PROVE Even(PluginTotal("prometheus", n)')
  <2>1. PICK f, g : f = PluginTotal("prometheus", n) /\ g = PluginTotal("prometheus", n)'
    OBVIOUS
  <2>2. \A m \in Metric : f[m] = Handed("prometheus", n, m) /\ g[m] = Handed("prometheus", n, m)'
    BY <2>1 DEF PluginTotal
  <2>3. \A m \in Metric : f[m] = g[m]
    BY <1>1, <2>2
  <2>4. Even(f)
    BY <2>1 DEF SinksInv
  <2>5. Even(g)
    BY ONLY <2>3, <2>4, MetricNames DEF Even
  <2> QED
    BY <2>1, <2>5
<1>4. ASSUME NEW n \in Name, NEW m \in Metric PROVE DefaultLimit(n, m)' <= Handed("prometheus", n, m)'
  <2>1. /\ DefaultLimit(n, m)' \in Nat /\ DefaultLimit(n, m)' <= DefaultLimit(n, m)
        /\ DefaultLimit(n, m) \in Nat
    BY DueTypes DEF LimitKept, CallsInv
  <2>2. DefaultLimit(n, m) <= Handed("prometheus", n, m) /\ Handed("prometheus", n, m) \in Nat
    BY PluginTypes DEF SinksInv
  <2> QED
    BY <1>1, <2>1, <2>2
<1>5. ASSUME NEW m \in Common
      PROVE  /\ \A n \in Name : Handed("datadog", n, m)' = Handed("prometheus", n, m)'
             /\ \A k \in Prefix : Handed("statsd", k, m)' = Handed("graphite", k, m)'
             /\ \A k \in Prefix, f \in [Name -> Nat] :
                  (\A n \in Name : f[n] = Handed("prometheus", n, m)') => Handed("graphite", k, m)' = SumOver[k][f]
  <2>1. m \in Metric
    BY <1>2
  <2>2. /\ \A n \in Name : Handed("datadog", n, m) = Handed("prometheus", n, m)
        /\ \A k \in Prefix : Handed("statsd", k, m) = Handed("graphite", k, m)
        /\ \A k \in Prefix, f \in [Name -> Nat] :
             (\A n \in Name : f[n] = Handed("prometheus", n, m)) => Handed("graphite", k, m) = SumOver[k][f]
    BY DEF SinksInv
  <2> QED
    BY <1>1, <2>1, <2>2
<1> QED
  BY <1>3, <1>4, <1>5 DEF SinksInv, Even

LEMMA ReportsSinks ==
    ASSUME AllRegistered, CallsInv, BusyInv, SinksInv, NEW p \in Proc, Reports(p)
    PROVE  SinksInv'
<1>t. Types /\ CallInv
  BY DEF CallsInv
<1>1. PICK R, e, s, a, D : /\ R = ResultOf(p) /\ R = BuildResult(e, s) /\ e = primary[p] /\ s = secondary[p]
                           /\ a = name[p] /\ D = R \cup Durations
  BY DEF ResultOf
<1>2. /\ e \in PrimaryEvents /\ s \in {"", "fallback-success", "fallback-failure"} /\ a \in Name
  BY <1>t, <1>1 DEF Types
<1>3. Common \subseteq Metric
  BY DEF Common, Metric
<1>4. /\ Reported("prometheus", R) = D
      /\ \A c, m : m \in Common => (m \in Reported(c, R) <=> m \in D)
  BY <1>1 DEF Reported, Common
<1>5. ASSUME NEW c \in Plugin, NEW k \in Keys(c), NEW m \in Metric
      PROVE  Handed(c, k, m)' = Handed(c, k, m) + IF Key(c, a) = k /\ m \in Reported(c, R) THEN 1 ELSE 0
  BY <1>1, ReportsHanded
<1>6. ASSUME NEW n \in Name, NEW m \in Metric
      PROVE  Handed("prometheus", n, m)' = Handed("prometheus", n, m) + IF a = n /\ m \in D THEN 1 ELSE 0
  BY <1>4, <1>5, PluginKeys
<1>7. ASSUME NEW n \in Name PROVE Even(PluginTotal("prometheus", n)')
  <2>1. PICK f, g, h, r : /\ f = PluginTotal("prometheus", n) /\ h = PluginTotal("prometheus", n)'
                          /\ g = [m \in Metric |-> IF a = n /\ m \in D THEN 1 ELSE 0]
                          /\ r = [m \in Metric |-> One(m, R)]
    OBVIOUS
  <2>2. ASSUME NEW m \in Metric
        PROVE  f[m] \in Nat /\ g[m] \in Nat /\ h[m] = f[m] + g[m]
    <3>1. f[m] = Handed("prometheus", n, m) /\ h[m] = Handed("prometheus", n, m)'
      BY <2>1 DEF PluginTotal
    <3>2. g[m] = IF a = n /\ m \in D THEN 1 ELSE 0
      BY <2>1
    <3>3. Handed("prometheus", n, m) \in Nat
      BY PluginTypes
    <3> QED
      BY <1>6, <3>1, <3>2, <3>3
  <2>3. Even(f)
    BY <2>1 DEF SinksInv
  <2>4. Even(r) /\ \A m \in Durations : m \notin R
    BY <1>1, <1>2, <2>1, ResultEven
  <2>5. Even(g)
    <3>1. CASE a # n
      <4>1. \A m \in Metric : g[m] = 0
        BY <2>1, <3>1
      <4> QED
        BY ONLY <4>1, MetricNames DEF Even
    <3>2. CASE a = n
      <4>1. \A m \in Metric : g[m] = (IF m \in D THEN 1 ELSE 0) /\ r[m] = (IF m \in R THEN 1 ELSE 0)
        BY <2>1, <3>2 DEF One
      <4>2. \A m \in Metric : (m \in D <=> m \in R) \/ m \in Durations
        BY <1>1
      <4>3. \A m \in Metric : g[m] = r[m] \/ m \in Durations
        BY <4>1, <4>2
      <4>4. g["totalDuration"] = 1 /\ g["runDuration"] = 1
        BY <1>1, <4>1, MetricNames DEF Durations
      <4>5. /\ g["attempts"] = r["attempts"] /\ g["successes"] = r["successes"] /\ g["errors"] = r["errors"]
            /\ g["contextCanceled"] = r["contextCanceled"]
            /\ g["contextDeadlineExceeded"] = r["contextDeadlineExceeded"]
            /\ g["failures"] = r["failures"] /\ g["rejects"] = r["rejects"]
            /\ g["shortCircuits"] = r["shortCircuits"] /\ g["timeouts"] = r["timeouts"]
        BY <4>3, MetricNames DEF Durations
      <4> QED
        BY ONLY <2>4, <4>4, <4>5 DEF Even
    <3> QED
      BY <3>1, <3>2
  <2>6. Even(h)
    BY ONLY <2>2, <2>3, <2>5, EvenPlus
  <2> QED
    BY <2>1, <2>6
<1>8. ASSUME NEW n \in Name, NEW m \in Metric PROVE DefaultLimit(n, m)' <= Handed("prometheus", n, m)'
  <2>1. /\ DefaultLimit(n, m)' \in Nat
        /\ DefaultLimit(n, m)' <= DefaultLimit(n, m) + IF a = n /\ m \in D THEN 1 ELSE 0
    BY <1>1, ReportsLimit
  <2>2. /\ DefaultLimit(n, m) \in Nat /\ Handed("prometheus", n, m) \in Nat
        /\ DefaultLimit(n, m) <= Handed("prometheus", n, m)
    BY <1>t, DueTypes, PluginTypes DEF SinksInv
  <2> QED
    BY <1>6, <2>1, <2>2
<1>9. ASSUME NEW m \in Common
      PROVE  /\ \A n \in Name : Handed("datadog", n, m)' = Handed("prometheus", n, m)'
             /\ \A k \in Prefix : Handed("statsd", k, m)' = Handed("graphite", k, m)'
             /\ \A k \in Prefix, f \in [Name -> Nat] :
                  (\A n \in Name : f[n] = Handed("prometheus", n, m)') => Handed("graphite", k, m)' = SumOver[k][f]
  <2>1. m \in Metric
    BY <1>3
  <2>2. /\ \A n \in Name : Handed("datadog", n, m) = Handed("prometheus", n, m)
        /\ \A k \in Prefix : Handed("statsd", k, m) = Handed("graphite", k, m)
        /\ \A k \in Prefix, f \in [Name -> Nat] :
             (\A n \in Name : f[n] = Handed("prometheus", n, m)) => Handed("graphite", k, m) = SumOver[k][f]
    BY DEF SinksInv
  <2>3. \A n \in Name :
          Handed("datadog", n, m)' = Handed("datadog", n, m) + IF a = n /\ m \in D THEN 1 ELSE 0
    BY <1>4, <1>5, <2>1, PluginKeys
  <2>4. \A k \in Prefix :
          /\ Handed("graphite", k, m)' = Handed("graphite", k, m) + IF Sanitize(a) = k /\ m \in D THEN 1 ELSE 0
          /\ Handed("statsd", k, m)' = Handed("statsd", k, m) + IF Sanitize(a) = k /\ m \in D THEN 1 ELSE 0
    BY <1>4, <1>5, <2>1, PluginKeys
  <2>5. ASSUME NEW k \in Prefix, NEW f \in [Name -> Nat], \A n \in Name : f[n] = Handed("prometheus", n, m)'
        PROVE  Handed("graphite", k, m)' = SumOver[k][f]
    <3>1. PICK d : d = [n \in Name |-> Handed("prometheus", n, m)]
      OBVIOUS
    <3>2. d \in [Name -> Nat] /\ \A n \in Name : d[n] = Handed("prometheus", n, m)
      BY <2>1, <3>1, PluginTypes
    <3>3. Handed("graphite", k, m) = SumOver[k][d]
      BY <2>2, <3>2
    <3>4. \A n \in Name : f[n] = d[n] + IF a = n /\ m \in D THEN 1 ELSE 0
      BY <1>6, <2>1, <2>5, <3>2
    <3>5. /\ \A n \in Name : n # a => f[n] = d[n]
          /\ f[a] = d[a] + IF m \in D THEN 1 ELSE 0
          /\ d[a] \in Nat
      <4>1. \A n \in Name : d[n] \in Nat
        BY <3>2
      <4>2. \A n \in Name : n # a => f[n] = d[n]
        BY <3>4, <4>1
      <4>3. f[a] = d[a] + IF m \in D THEN 1 ELSE 0
        BY <1>2, <3>4
      <4> QED
        BY <1>2, <4>1, <4>2, <4>3
    <3>6. /\ SumOver[k][d] \in Nat /\ SumOver[k][f] \in Nat
          /\ Sanitize(a) # k \/ f[a] = d[a] => SumOver[k][f] = SumOver[k][d]
          /\ Sanitize(a) = k /\ f[a] = d[a] + 1 => SumOver[k][f] = SumOver[k][d] + 1
      BY <1>2, <3>2, <3>5, SumOverStep
    <3>7. SumOver[k][f] = SumOver[k][d] + IF Sanitize(a) = k /\ m \in D THEN 1 ELSE 0
      BY <3>5, <3>6
    <3> QED
      BY <2>4, <3>3, <3>7
  <2>6. \A n \in Name : Handed("datadog", n, m)' = Handed("prometheus", n, m)'
    BY <1>6, <2>1, <2>2, <2>3
  <2>7. \A k \in Prefix : Handed("statsd", k, m)' = Handed("graphite", k, m)'
    BY <2>2, <2>4
  <2> QED
    BY <2>5, <2>6, <2>7
<1> QED
  BY <1>7, <1>8, <1>9 DEF SinksInv, Even

LEMMA SinksStep == ASSUME AllRegistered, CallsInv, BusyInv, SinksInv, [Next]_vars PROVE SinksInv'
BY LimitStep, KeptSinks, ReportsSinks

LEMMA SinksInit == ASSUME AllRegistered, Init PROVE SinksInv
<1>1. \A p \in Proc : Todo(p) = {}
  <2>1. \A p \in Proc : todo[p] = <<>>
    BY DEF Init
  <2> QED
    BY <2>1, TodoEmpty
<1>2. ASSUME NEW c \in Collector, NEW k \in Keys(c), NEW m \in Metric PROVE count[c][k][m] = 0
  <2>1. count[c] = [i \in {Key(c, n) : n \in Name} |-> NewCollector]
    BY DEF Init, Collector
  <2>2. count[c][k] = NewCollector
    BY <2>1 DEF Keys
  <2> QED
    BY <2>2 DEF NewCollector
<1>3. ASSUME NEW c \in Collector, NEW k \in Keys(c), NEW m \in Metric PROVE Handed(c, k, m) = 0
  <2>1. Sending(c, k, m) = {}
    BY <1>1 DEF Sending
  <2>2. Cardinality(Sending(c, k, m)) = 0
    BY <2>1, FS_EmptySet
  <2> QED
    BY <1>2, <2>2 DEF Handed
<1>4. ASSUME NEW m \in Metric
      PROVE  /\ \A n \in Name : Handed("prometheus", n, m) = 0 /\ Handed("datadog", n, m) = 0
             /\ \A k \in Prefix : Handed("graphite", k, m) = 0 /\ Handed("statsd", k, m) = 0
  BY <1>3, PluginKeys DEF Plugin
<1>5. ASSUME NEW n \in Name, NEW m \in Metric PROVE DefaultLimit(n, m) = 0
  <2>1. Due(n, m) = {}
    BY <1>1 DEF Due, DueOf
  <2>2. Cardinality(Due(n, m)) = 0
    BY <2>1, FS_EmptySet
  <2>3. "default" \in Collector /\ n \in Keys("default")
    BY DefaultKeys DEF Keys
  <2> QED
    BY <1>2, <2>2, <2>3 DEF DefaultLimit
<1>6. ASSUME NEW n \in Name PROVE Even(PluginTotal("prometheus", n))
  <2>1. PICK f : f = PluginTotal("prometheus", n)
    OBVIOUS
  <2>2. \A m \in Metric : f[m] = 0
    BY <1>4, <2>1 DEF PluginTotal
  <2>3. Even(f)
    BY ONLY <2>2, MetricNames DEF Even
  <2> QED
    BY <2>1, <2>3
<1>7. ASSUME NEW m \in Common, NEW k \in Prefix, NEW f \in [Name -> Nat],
             \A n \in Name : f[n] = Handed("prometheus", n, m)
      PROVE  Handed("graphite", k, m) = SumOver[k][f]
  <2>1. m \in Metric
    BY DEF Common, Metric
  <2>2. PICK S : S = Circuits(k)
    OBVIOUS
  <2>3. IsFiniteSet(S) /\ S \subseteq Name
    BY <2>2, NameAssumption, FS_Subset DEF Circuits
  <2>4. /\ \A x \in S : f[x] \in Nat
        /\ \A x \in S : f[x] = 0
    BY <1>4, <1>7, <2>1, <2>3
  <2>5. Sum(f, S) = 0
    BY ONLY <2>3, <2>4, SumTypes
  <2> QED
    BY <1>4, <2>1, <2>2, <2>5 DEF SumOver
<1>8. Common \subseteq Metric
  BY DEF Common, Metric
<1> QED
  BY <1>4, <1>5, <1>6, <1>7, <1>8 DEF SinksInv


\* What the plugins have once nobody is writing.
LEMMA SinksAtRest ==
    ASSUME AllRegistered, CallsInv, BusyInv, SinksInv, AtRest
    PROVE  /\ \A n \in Name : /\ Balanced(count["prometheus"][n])
                              /\ \A m \in Metric : count["default"][n][m] <= count["prometheus"][n][m]
           /\ \A k \in Prefix : \A m \in Basic \cup Durations :
                LET total(c) == Sum([n \in Name |-> count[c][n][m]], Circuits(k))
                IN  {count["graphite"][k][m], count["statsd"][k][m], total("datadog")} = {total("prometheus")}
<1>t. Types /\ CallInv
  BY DEF CallsInv
<1>1. \A p \in Proc : Todo(p) = {}
  BY <1>t, TodoEmpty DEF AtRest, CallInv
<1>2. ASSUME NEW c, NEW k, NEW m, count[c][k][m] \in Nat PROVE Handed(c, k, m) = count[c][k][m]
  <2>1. Sending(c, k, m) = {}
    BY <1>1 DEF Sending
  <2>2. Cardinality(Sending(c, k, m)) = 0
    BY <2>1, FS_EmptySet
  <2> QED
    BY <1>2, <2>2 DEF Handed
<1>3. ASSUME NEW c \in Plugin, NEW k \in Keys(c), NEW m \in Metric
      PROVE  count[c][k][m] \in Nat /\ Handed(c, k, m) = count[c][k][m]
  <2>1. c \in Collector
    BY DEF Plugin
  <2>2. count[c][k][m] \in Nat
    BY <1>t, <2>1, HandedTypes
  <2> QED
    BY <1>2, <2>2
<1>4. ASSUME NEW m \in Metric
      PROVE  /\ \A n \in Name : /\ count["prometheus"][n][m] \in Nat
                                /\ Handed("prometheus", n, m) = count["prometheus"][n][m]
                                /\ Handed("datadog", n, m) = count["datadog"][n][m]
             /\ \A k \in Prefix : /\ Handed("graphite", k, m) = count["graphite"][k][m]
                                  /\ Handed("statsd", k, m) = count["statsd"][k][m]
  BY <1>3, PluginKeys
<1>5. ASSUME NEW n \in Name PROVE Balanced(count["prometheus"][n])
  <2>1. PICK f, g : f = count["prometheus"][n] /\ g = PluginTotal("prometheus", n)
    OBVIOUS
  <2>2. \A m \in Metric : f[m] \in Nat /\ g[m] = f[m]
    BY <1>4, <2>1 DEF PluginTotal
  <2>3. Even(g)
    BY <2>1 DEF SinksInv
  <2>4. Even(f)
    BY ONLY <2>2, <2>3, MetricNames DEF Even
  <2>5. Balanced(f)
    BY ONLY <2>2, <2>4, BalancedEven
  <2> QED
    BY <2>1, <2>5
<1>6. ASSUME NEW n \in Name, NEW m \in Metric PROVE count["default"][n][m] <= count["prometheus"][n][m]
  <2>1. Due(n, m) = {}
    BY <1>1 DEF Due, DueOf
  <2>2. Cardinality(Due(n, m)) = 0
    BY <2>1, FS_EmptySet
  <2>3. DefaultLimit(n, m) = count["default"][n][m]
    BY <1>t, <2>2, DueTypes DEF DefaultLimit
  <2>4. DefaultLimit(n, m) <= Handed("prometheus", n, m)
    BY DEF SinksInv
  <2> QED
    BY <1>4, <2>3, <2>4
<1>7. ASSUME NEW k \in Prefix, NEW m \in Basic \cup Durations
      PROVE  LET total(c) == Sum([n \in Name |-> count[c][n][m]], Circuits(k))
             IN  {count["graphite"][k][m], count["statsd"][k][m], total("datadog")} = {total("prometheus")}
  <2>1. m \in Common /\ m \in Metric
    BY DEF Common, Metric
  <2>2. PICK f, g : f = [n \in Name |-> count["prometheus"][n][m]] /\ g = [n \in Name |-> count["datadog"][n][m]]
    OBVIOUS
  <2>3. /\ \A n \in Name : Handed("datadog", n, m) = Handed("prometheus", n, m)
        /\ \A i \in Prefix : Handed("statsd", i, m) = Handed("graphite", i, m)
        /\ \A i \in Prefix, h \in [Name -> Nat] :
             (\A n \in Name : h[n] = Handed("prometheus", n, m)) => Handed("graphite", i, m) = SumOver[i][h]
    BY <2>1 DEF SinksInv
  <2>4. \A n \in Name : count["datadog"][n][m] = count["prometheus"][n][m]
    BY <1>4, <2>1, <2>3
  <2>5. g = f
    BY <2>2, <2>4
  <2>6. f \in [Name -> Nat] /\ \A n \in Name : f[n] = Handed("prometheus", n, m)
    BY <1>4, <2>1, <2>2
  <2>7. Handed("graphite", k, m) = SumOver[k][f]
    BY <2>3, <2>6
  <2>8. SumOver[k][f] = Sum(f, Circuits(k))
    BY <2>6 DEF SumOver
  <2>9. count["graphite"][k][m] = Sum(f, Circuits(k)) /\ count["statsd"][k][m] = Sum(f, Circuits(k))
    BY <1>4, <2>1, <2>3, <2>7, <2>8
  <2> QED
    BY <2>2, <2>5, <2>9
<1> QED
  BY <1>5, <1>6, <1>7

\* Module Collectors' SinksAgree, where all five collectors are registered: whatever the
\* circuits, also where many names become one prefix, the events, the goroutines and the
\* number of calls, no step of an Update is lost on one plugin and counted by another.
THEOREM SinksAgreeing == ASSUME Range(Registered) = Kind PROVE Spec => []SinksAgree
<1> DEFINE Inv == CallsInv /\ BusyInv /\ SinksInv
<1>a. AllRegistered
  BY DEF AllRegistered, Collector
<1>1. Init => Inv
  BY <1>a, InitTypes, ExclusiveInit, SinksInit DEF CallsInv
<1>2. Inv /\ [Next]_vars => Inv'
  BY <1>a, CallsStep, BusyStep, SinksStep DEF CallsInv
<1>3. Inv => SinksAgree
  BY <1>a, SinksAtRest DEF SinksAgree
<1> QED
  BY <1>1, <1>2, <1>3, PTL DEF Spec
=============================================================================
