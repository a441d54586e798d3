--------------------------- MODULE HistoryProofs ---------------------------
(* Proofs about the store and its history: every row is what the checks in   *)
(* it fold to in the order of their commits, and a warm start remembers.     *)
EXTENDS History, FiniteSetTheorems, SequenceTheorems, NaturalsInduction,
        WellFoundedInduction, TLAPS

-----------------------------------------------------------------------------
(* What a serial run of upserts leaves.                                     *)

LEMMA LeastIndex ==
  ASSUME NEW P, P \subseteq Nat, P # {}
  PROVE  \E k \in P : \A m \in P : k <= m
<1>1. PICK k \in P : \A m \in P : <<m, k>> \notin OpToRel(<, Nat)
  BY WFMin, NatLessThanWellFounded, Zenon
<1>2. ASSUME NEW m \in P, m < k
      PROVE  FALSE
  BY <1>1, <1>2, m \in Nat, k \in Nat, Zenon DEF OpToRel
<1>. QED BY <1>2

\* f runs through the rows that upserting q sample by sample leaves.
Runs(f, q, n) ==
  f = [k \in 1..n |-> IF k = 1 THEN inserted(q[1]) ELSE folded(f[k - 1], q[k])]

LEMMA RunExtends ==
  ASSUME NEW q, NEW n \in Nat, NEW f, Runs(f, q, n)
  PROVE  \E g : Runs(g, q, n + 1)
<1>. DEFINE s == IF n + 1 = 1 THEN inserted(q[1]) ELSE folded(f[n], q[n + 1])
            g == [k \in 1..(n + 1) |-> IF k = n + 1 THEN s ELSE f[k]]
<1>1. \A k \in 1..n : f[k] = IF k = 1 THEN inserted(q[1]) ELSE folded(f[k - 1], q[k])
  BY DEF Runs
<1>2. ASSUME NEW k \in 1..(n + 1)
      PROVE  g[k] = IF k = 1 THEN inserted(q[1]) ELSE folded(g[k - 1], q[k])
  <2>1. CASE k = n + 1
    <3>1. g[k] = s
      BY <2>1
    <3>2. k # 1 => g[k - 1] = f[n]
      BY <2>1
    <3>. QED BY <2>1, <3>1, <3>2
  <2>2. CASE k # n + 1
    <3>1. k \in 1..n /\ g[k] = f[k]
      BY <2>2
    <3>2. k # 1 => g[k - 1] = f[k - 1]
      BY <3>1
    <3>. HIDE DEF g, s
    <3>. QED BY <1>1, <3>1, <3>2
  <2>. QED BY <2>1, <2>2
<1>3. Runs(g, q, n + 1)
  <2>. HIDE DEF s
  <2>1. g = [k \in 1..(n + 1) |-> g[k]]
    OBVIOUS
  <2>. HIDE DEF g
  <2>. QED BY <1>2, <2>1 DEF Runs
<1>. QED BY <1>3

LEMMA RunExists ==
  ASSUME NEW q, NEW n \in Nat
  PROVE  \E f : Runs(f, q, n)
<1>. DEFINE Stuck == {m \in Nat : ~\E f : Runs(f, q, m)}
<1>1. SUFFICES ASSUME Stuck # {}
               PROVE  FALSE
  OBVIOUS
<1>2. PICK m \in Stuck : \A l \in Stuck : m <= l
  <2>1. Stuck \subseteq Nat
    OBVIOUS
  <2>. QED BY <1>1, <2>1, LeastIndex
<1>3. m # 0
  <2>1. Runs([k \in 1..0 |-> 0], q, 0)
    BY DEF Runs
  <2>. QED BY <2>1
<1>4. m - 1 \in Nat /\ m - 1 \notin Stuck /\ (m - 1) + 1 = m
  BY <1>2, <1>3
<1>5. PICK f : Runs(f, q, m - 1)
  BY <1>4
<1>6. \E g : Runs(g, q, (m - 1) + 1)
  <2>1. m - 1 \in Nat
    BY <1>4
  <2>. HIDE DEF Stuck
  <2>. QED BY <1>5, <2>1, RunExtends
<1>. QED BY <1>2, <1>4, <1>6

LEMMA RunUnique ==
  ASSUME NEW q, NEW p, NEW n \in Nat, NEW N \in Nat, n <= N,
         NEW f, NEW g, Runs(f, q, n), Runs(g, p, N),
         \A k \in 1..n : q[k] = p[k]
  PROVE  \A k \in 1..n : f[k] = g[k]
<1>. DEFINE Odd == {k \in 1..n : f[k] # g[k]}
<1>1. SUFFICES ASSUME Odd # {}
               PROVE  FALSE
  OBVIOUS
<1>2. PICK k \in Odd : \A m \in Odd : k <= m
  <2>1. Odd \subseteq Nat
    OBVIOUS
  <2>. QED BY <1>1, <2>1, LeastIndex
<1>3. k \in 1..n /\ k \in 1..N /\ q[k] = p[k]
  BY <1>2
<1>4. f[k] = IF k = 1 THEN inserted(q[1]) ELSE folded(f[k - 1], q[k])
  BY <1>3 DEF Runs
<1>5. g[k] = IF k = 1 THEN inserted(p[1]) ELSE folded(g[k - 1], p[k])
  BY <1>3 DEF Runs
<1>6. k # 1 => f[k - 1] = g[k - 1]
  <2>1. k # 1 => k - 1 \in 1..n /\ ~(k <= k - 1)
    BY <1>3
  <2>. QED BY <1>2, <2>1
<1>7. f[k] # g[k]
  BY <1>2
<1>. HIDE DEF Odd
<1>. QED BY <1>3, <1>4, <1>5, <1>6, <1>7

\* The fold is the last row of a run.
LEMMA FoldsIsRun ==
  ASSUME NEW S, NEW q \in Seq(S), q # <<>>
  PROVE  \E f : Runs(f, q, Len(q)) /\ Folds(q) = f[Len(q)]
<1>. DEFINE R(f) == f = [k \in DOMAIN q |-> IF k = 1 THEN inserted(q[1]) ELSE folded(f[k - 1], q[k])]
<1>1. Len(q) \in Nat /\ DOMAIN q = 1..Len(q)
  OBVIOUS
<1>2. PICK h : Runs(h, q, Len(q))
  BY <1>1, RunExists
<1>3. R(h)
  BY <1>1, <1>2 DEF Runs
<1>4. R(CHOOSE f : R(f))
  BY <1>3
<1>5. Folds(q) = (CHOOSE f : R(f))[Len(q)]
  BY DEF Folds
<1>6. Runs(CHOOSE f : R(f), q, Len(q))
  BY <1>1, <1>4 DEF Runs
<1>. QED BY <1>5, <1>6

LEMMA FoldsOne ==
  ASSUME NEW S, NEW s \in S
  PROVE  Folds(<<s>>) = inserted(s)
<1>1. <<s>> \in Seq(S) /\ <<s>> # <<>> /\ Len(<<s>>) = 1 /\ <<s>>[1] = s
  OBVIOUS
<1>2. PICK f : Runs(f, <<s>>, 1) /\ Folds(<<s>>) = f[1]
  BY <1>1, FoldsIsRun
<1>. QED BY <1>1, <1>2 DEF Runs

LEMMA FoldsAppend ==
  ASSUME NEW S, NEW q \in Seq(S), q # <<>>, NEW s \in S
  PROVE  Folds(Append(q, s)) = folded(Folds(q), s)
<1>. DEFINE p == Append(q, s)
            n == Len(q)
<1>1. n \in Nat /\ n # 0
  OBVIOUS
<1>2. p \in Seq(S) /\ p # <<>>
  OBVIOUS
<1>3. Len(p) = n + 1
  OBVIOUS
<1>4. p[n + 1] = s
  OBVIOUS
<1>5. \A k \in 1..n : q[k] = p[k]
  OBVIOUS
<1>6. PICK f : Runs(f, q, n) /\ Folds(q) = f[n]
  BY FoldsIsRun
<1>. HIDE DEF p
<1>7. PICK g : Runs(g, p, n + 1) /\ Folds(p) = g[n + 1]
  BY <1>2, <1>3, FoldsIsRun
<1>. HIDE DEF n
<1>8. f[n] = g[n]
  <2>1. n + 1 \in Nat /\ n <= n + 1 /\ n \in 1..n
    BY <1>1
  <2>2. \A k \in 1..n : f[k] = g[k]
    BY <1>1, <1>5, <1>6, <1>7, <2>1, RunUnique
  <2>. QED BY <2>1, <2>2
<1>9. g[n + 1] = folded(g[n], p[n + 1])
  <2>1. n + 1 \in 1..(n + 1) /\ n + 1 # 1 /\ (n + 1) - 1 = n
    BY <1>1
  <2>. QED BY <1>7, <2>1 DEF Runs
<1>. QED BY <1>4, <1>6, <1>7, <1>8, <1>9 DEF p
-----------------------------------------------------------------------------
(* The inductive invariant.  A row has a log: the checks committed to it, in *)
(* order.  A check in a log is settled, so it never gets there again.       *)

Order == Seq(Nat)
SamplesOf(q) == [k \in DOMAIN q |-> checks[q[k]].sample]
Lists(q, i) == \E k \in DOMAIN q : q[k] = i

\* No task is still to write check i, and no failed write left it behind.
Settled(i) ==
  /\ i \in DOMAIN checks
  /\ checks[i].verdict = "err" => backend = "redis"
  /\ \A t \in Task : task[t].at \in {"waiting", "writing"} => task[t].id # i

\* The store has executed the upsert of check i, and its task may know.
Committed(i) ==
  \/ checks[i].verdict = "ok"
  \/ \E t \in Task : task[t].at = "committed" /\ task[t].id = i

\* q lists settled checks of address a, each once.
IsLog(q, a) ==
  /\ q # <<>>
  /\ \A k, m \in DOMAIN q : q[k] = q[m] => k = m
  /\ \A k \in DOMAIN q : Settled(q[k]) /\ checks[q[k]].addr = a

\* q accounts for the row of a and misses no committed check.
LogOfRow(q, a) ==
  /\ IsLog(q, a)
  /\ rows[a] = Folds(SamplesOf(q))
  /\ \A i \in DOMAIN checks : checks[i].addr = a /\ Committed(i) => Lists(q, i)

\* q accounts for the remembered proxy of a and misses no remembered check.
LogOfProxy(q, a) ==
  /\ IsLog(q, a)
  /\ Shows(Kept[a], Folds(SamplesOf(q)))
  /\ \A i \in remembered : checks[i].addr = a => Lists(q, i)

RowsInv ==
  \A a \in Addr :
    IF a \in DOMAIN rows
      THEN \E q \in Order : LogOfRow(q, a)
      ELSE \A i \in DOMAIN checks : checks[i].addr = a => ~Committed(i)

Warm(i) ==
  /\ checks[i].addr \in DOMAIN Kept
  /\ \E q \in Order : LogOfProxy(q, checks[i].addr)

\* While Redis is read, what is remembered was read or is yet to be.
PoolInv ==
  /\ remembered \subseteq Acked
  /\ Running /\ ~args.countries => \A i \in remembered : Warm(i)
  /\ phase = "loading" =>
       /\ backend = "redis"
       /\ pool = NoProxies
       /\ todo \subseteq DOMAIN rows
       /\ \A i \in remembered : checks[i].addr \in todo \/ Warm(i)

Sample == UNION {Samples[t] : t \in Task}
Check == [addr : Addr, sample : Sample, verdict : {"open", "ok", "err"}]

TaskType ==
  {Idle} \cup [at : {"waiting"}, addr : Addr, sample : Sample, id : Nat]
         \cup [at : {"writing", "committed", "silent"}, addr : Addr, sample : Sample, id : Nat, left : Nat]

\* A task inside upsert works for one open check, and no two for the same.
TaskOwns ==
  \A t \in Task : task[t].at # "idle" =>
    /\ task[t].id \in DOMAIN checks
    /\ checks[task[t].id].addr = task[t].addr
    /\ checks[task[t].id].sample = task[t].sample
    /\ checks[task[t].id].verdict = "open"

TaskApart ==
  \A t, u \in Task :
    task[t].at # "idle" /\ task[u].at # "idle" /\ task[t].id = task[u].id => t = u

\* Without --state only the re-checker writes, into this process's memory.
MemoryAlone ==
  ~Durable => remembered = {} /\ \A t \in Task : t # "r" => task[t].at = "idle"

TasksInv ==
  /\ checks \in Seq(Check)
  /\ task \in [Task -> TaskType]
  /\ TaskOwns
  /\ TaskApart
  /\ MemoryAlone

IInv == TypeOK /\ TasksInv /\ RowsInv /\ PoolInv

-----------------------------------------------------------------------------
(* Types.                                                                   *)

LEMMA SampleTyped ==
  ASSUME NEW s \in Sample
  PROVE  /\ s.requests \in Nat /\ s.errors \in Nat /\ s.latency \in Nat
         /\ s.types \in {x.types : x \in UNION {Samples[t] : t \in Task}} \cup {{}}
         /\ s.latency * Scale \in Nat
         /\ success(s) \in 0..Scale
<1>1. s.requests \in Nat /\ s.errors \in Nat /\ s.latency \in Nat
  BY HistoryAssumption DEF Sample
<1>2. s.types \in {x.types : x \in UNION {Samples[t] : t \in Task}} \cup {{}}
  BY DEF Sample
<1>3. Scale \in Nat
  BY ScaleAssumption
<1>4. s.latency * Scale \in Nat
  <2>1. \A m, n \in Nat : m * n \in Nat
    OBVIOUS
  <2>. QED BY <1>1, <1>3, <2>1
<1>5. success(s) \in 0..Scale
  BY <1>3 DEF success
<1>. QED BY <1>1, <1>2, <1>4, <1>5

\* An average stays between the least and the greatest value averaged.
LEMMA AverageBetween ==
  ASSUME NEW lo \in Nat, NEW hi \in Nat, NEW p \in lo..hi, NEW n \in lo..hi
  PROVE  fold_ewma(p, n) \in lo..hi
BY DEF fold_ewma

LEMMA InsertedTyped ==
  ASSUME NEW s \in Sample
  PROVE  inserted(s) \in Row
BY SampleTyped DEF inserted, Row

LEMMA FoldedTyped ==
  ASSUME NEW s \in Sample, NEW r \in Row
  PROVE  folded(r, s) \in Row
<1>. DEFINE T == {x.types : x \in UNION {Samples[t] : t \in Task}} \cup {{}}
<1>1. /\ r.types \in T /\ r.requests \in Nat /\ r.errors \in Nat
      /\ r.ewma \in 0..Scale /\ r.latency \in Nat /\ r.uptime \in Nat
  BY DEF Row
<1>2. /\ s.types \in T /\ s.requests \in Nat /\ s.errors \in Nat
      /\ s.latency * Scale \in Nat /\ success(s) \in 0..Scale
  BY SampleTyped
<1>3. fold_ewma(r.ewma, success(s)) \in 0..Scale
  BY <1>1, <1>2, ScaleAssumption, AverageBetween
<1>4. fold_ewma(r.latency, s.latency * Scale) \in Nat
  BY <1>1, <1>2 DEF fold_ewma
<1>. HIDE DEF T
<1>5. folded(r, s) \in [types : T, requests : Nat, errors : Nat, ewma : 0..Scale,
                        latency : Nat, uptime : Nat]
  BY <1>1, <1>2, <1>3, <1>4 DEF folded
<1>. QED BY <1>5 DEF Row, T

AreRows(R) == DOMAIN R \subseteq Addr /\ \A b \in DOMAIN R : R[b] \in Row

LEMMA UpsertTyped ==
  ASSUME NEW R, AreRows(R), NEW a \in Addr, NEW s \in Sample
  PROVE  /\ AreRows(upsert(R, a, s))
         /\ \A b : b \in DOMAIN upsert(R, a, s) <=> b \in DOMAIN R \/ b = a
         /\ \A b \in DOMAIN R \ {a} : upsert(R, a, s)[b] = R[b]
         /\ upsert(R, a, s)[a] = IF a \in DOMAIN R THEN folded(R[a], s) ELSE inserted(s)
<1>1. CASE a \in DOMAIN R
  <2>1. upsert(R, a, s) = [R EXCEPT ![a] = folded(R[a], s)]
    BY <1>1 DEF upsert
  <2>2. folded(R[a], s) \in Row
    BY <1>1, FoldedTyped DEF AreRows
  <2>. QED BY <1>1, <2>1, <2>2 DEF AreRows
<1>2. CASE a \notin DOMAIN R
  <2>1. upsert(R, a, s) = [b \in DOMAIN R \cup {a} |-> IF b = a THEN inserted(s) ELSE R[b]]
    BY <1>2 DEF upsert
  <2>2. inserted(s) \in Row
    BY InsertedTyped
  <2>. QED BY <1>2, <2>1, <2>2 DEF AreRows
<1>. QED BY <1>1, <1>2

LEMMA RestoredTyped ==
  ASSUME NEW r \in Row
  PROVE  /\ restored(r).requests \in Nat
         /\ restored(r).ewma \in 0..Scale
         /\ Shows(restored(r), r)
<1>1. r.requests \in Nat /\ r.ewma \in 0..Scale /\ r.latency \in Nat
  BY DEF Row
<1>2. (IF r.latency > 0 THEN {r.latency} ELSE {}) = {r.latency} \ {0}
  BY <1>1
<1>. QED BY <1>1, <1>2 DEF restored, Shows

LEMMA CheckTyped ==
  ASSUME NEW c \in Seq(Check), NEW i \in DOMAIN c
  PROVE  c[i].addr \in Addr /\ c[i].sample \in Sample
<1>1. c[i] \in Check
  OBVIOUS
<1>. QED BY <1>1 DEF Check

\* What telling a verdict does to the record of the checks.
LEMMA ToldCheck ==
  ASSUME NEW c \in Seq(Check), NEW i \in DOMAIN c, NEW v \in {"open", "ok", "err"},
         NEW d, d = [c EXCEPT ![i].verdict = v]
  PROVE  /\ d \in Seq(Check)
         /\ DOMAIN d = DOMAIN c
         /\ \A k \in DOMAIN c : d[k].addr = c[k].addr /\ d[k].sample = c[k].sample
         /\ \A k \in DOMAIN c : k # i => d[k] = c[k]
         /\ d[i].verdict = v
<1>. DEFINE x == [c[i] EXCEPT !.verdict = v]
<1>1. c[i] \in Check
  OBVIOUS
<1>2. x \in Check /\ x.addr = c[i].addr /\ x.sample = c[i].sample /\ x.verdict = v
  BY <1>1 DEF Check
<1>3. d = [c EXCEPT ![i] = x]
  OBVIOUS
<1>. HIDE DEF x
<1>4. d \in Seq(Check)
  BY <1>2, <1>3
<1>5. DOMAIN d = DOMAIN c
  BY <1>3
<1>6. \A k \in DOMAIN c : k # i => d[k] = c[k]
  BY <1>3
<1>7. d[i] = x
  BY <1>3
<1>8. \A k \in DOMAIN c : d[k].addr = c[k].addr /\ d[k].sample = c[k].sample
  BY <1>2, <1>6, <1>7
<1>. QED BY <1>2, <1>4, <1>5, <1>6, <1>7, <1>8

-----------------------------------------------------------------------------
(* Logs survive.                                                            *)

\* A step never changes what a recorded check was, and never unsettles it.
Keeps ==
  /\ backend' = backend
  /\ \A i \in DOMAIN checks : /\ i \in DOMAIN checks'
                              /\ checks'[i].addr = checks[i].addr
                              /\ checks'[i].sample = checks[i].sample
  /\ \A i \in DOMAIN checks : Settled(i) => Settled(i)'

\* A step commits nothing but, perhaps, the check j.
CommitsOnly(j) ==
  \A i \in DOMAIN checks' : Committed(i)' => i \in DOMAIN checks /\ (Committed(i) \/ i = j)

LEMMA LogKept ==
  ASSUME NEW q \in Order, NEW a, IsLog(q, a), Keeps
  PROVE  IsLog(q, a)' /\ SamplesOf(q)' = SamplesOf(q)
<1>1. \A k \in DOMAIN q : q[k] \in DOMAIN checks
  BY DEF IsLog, Settled
<1>2. \A k \in DOMAIN q : Settled(q[k])' /\ (checks[q[k]].addr = a)'
  BY <1>1 DEF IsLog, Keeps
<1>3. IsLog(q, a)'
  BY <1>2 DEF IsLog
<1>4. \A k \in DOMAIN q : checks'[q[k]].sample = checks[q[k]].sample
  BY <1>1 DEF Keeps
<1>5. SamplesOf(q)' = SamplesOf(q)
  BY <1>4 DEF SamplesOf
<1>. QED BY <1>3, <1>5

LEMMA RowKept ==
  ASSUME NEW q \in Order, NEW a, LogOfRow(q, a), Keeps, NEW j, CommitsOnly(j),
         j \in DOMAIN checks => checks[j].addr # a,
         rows'[a] = rows[a]
  PROVE  LogOfRow(q, a)'
<1>1. IsLog(q, a)' /\ SamplesOf(q)' = SamplesOf(q)
  BY LogKept DEF LogOfRow
<1>2. (rows[a] = Folds(SamplesOf(q)))'
  BY <1>1 DEF LogOfRow
<1>3. ASSUME NEW i \in DOMAIN checks', checks'[i].addr = a, Committed(i)'
      PROVE  Lists(q, i)
  <2>1. i \in DOMAIN checks /\ (Committed(i) \/ i = j)
    BY <1>3 DEF CommitsOnly
  <2>2. checks[i].addr = a
    BY <1>3, <2>1 DEF Keeps
  <2>. QED BY <2>1, <2>2 DEF LogOfRow
<1>4. (\A i \in DOMAIN checks : checks[i].addr = a /\ Committed(i) => Lists(q, i))'
  BY <1>3 DEF Lists
<1>. QED BY <1>1, <1>2, <1>4 DEF LogOfRow

LEMMA NoRowKept ==
  ASSUME NEW a, \A i \in DOMAIN checks : checks[i].addr = a => ~Committed(i),
         Keeps, NEW j, CommitsOnly(j), j \in DOMAIN checks => checks[j].addr # a
  PROVE  (\A i \in DOMAIN checks : checks[i].addr = a => ~Committed(i))'
<1>1. ASSUME NEW i \in DOMAIN checks', checks'[i].addr = a, Committed(i)'
      PROVE  FALSE
  <2>1. i \in DOMAIN checks /\ (Committed(i) \/ i = j)
    BY <1>1 DEF CommitsOnly
  <2>. QED BY <1>1, <2>1 DEF Keeps
<1>. QED BY <1>1

\* No check has the place 0, so CommitsOnly(0) says that nothing is committed.
LEMMA RowsKept ==
  ASSUME RowsInv, Keeps, CommitsOnly(0), checks \in Seq(Check), rows' = rows
  PROVE  RowsInv'
<1>1. 0 \notin DOMAIN checks
  OBVIOUS
<1>2. ASSUME NEW a \in Addr, a \in DOMAIN rows
      PROVE  (\E q \in Order : LogOfRow(q, a))'
  <2>1. PICK q \in Order : LogOfRow(q, a)
    BY <1>2 DEF RowsInv
  <2>2. LogOfRow(q, a)'
    BY <1>1, <2>1, RowKept
  <2>. QED BY <2>2 DEF Order
<1>3. ASSUME NEW a \in Addr, a \notin DOMAIN rows
      PROVE  (\A i \in DOMAIN checks : checks[i].addr = a => ~Committed(i))'
  BY <1>1, <1>3, NoRowKept DEF RowsInv
<1>. QED BY <1>2, <1>3 DEF RowsInv

LEMMA WarmKept ==
  ASSUME NEW i \in remembered, remembered \subseteq Acked, Warm(i), Keeps,
         remembered' = remembered,
         checks[i].addr \in DOMAIN Kept',
         Kept'[checks[i].addr] = Kept[checks[i].addr]
  PROVE  Warm(i)'
<1>0. PICK a : a = checks[i].addr
  OBVIOUS
<1>1. i \in DOMAIN checks /\ \A k \in remembered : k \in DOMAIN checks
  BY DEF Acked
<1>2. checks'[i].addr = a
  BY <1>0, <1>1 DEF Keeps
<1>3. PICK q \in Order : LogOfProxy(q, a)
  BY <1>0 DEF Warm
<1>4. IsLog(q, a)' /\ SamplesOf(q)' = SamplesOf(q)
  BY <1>3, LogKept DEF LogOfProxy
<1>5. Shows(Kept'[a], Folds(SamplesOf(q)'))
  BY <1>0, <1>3, <1>4 DEF LogOfProxy
<1>6. \A k \in remembered : checks'[k].addr = checks[k].addr
  BY <1>1 DEF Keeps
<1>7. \A k \in remembered' : checks'[k].addr = a => Lists(q, k)
  BY <1>3, <1>6 DEF LogOfProxy
<1>8. LogOfProxy(q, a)'
  BY <1>4, <1>5, <1>7 DEF LogOfProxy, Lists
<1>9. LogOfProxy(q, checks[i].addr)'
  BY <1>2, <1>8
<1>. QED BY <1>0, <1>2, <1>9 DEF Warm, Order
\* Committing a check that was not settled extends the log of its row by it.
LEMMA RowExtended ==
  ASSUME NEW q \in Order, NEW a, LogOfRow(q, a), Keeps, checks \in Seq(Check),
         NEW j \in DOMAIN checks, checks[j].addr = a, ~Settled(j), Settled(j)',
         CommitsOnly(j), rows'[a] = folded(rows[a], checks[j].sample)
  PROVE  LogOfRow(Append(q, j), a)'
<1>. DEFINE p == Append(q, j)
            n == Len(q)
<1>0. j \in Nat
  OBVIOUS
<1>1. n \in Nat /\ DOMAIN q = 1..n
  BY DEF Order
<1>2. DOMAIN p = 1..(n + 1) /\ p # <<>>
  BY <1>0 DEF Order
<1>3. \A k \in 1..n : p[k] = q[k]
  BY <1>0 DEF Order
<1>4. p[n + 1] = j
  BY <1>0 DEF Order
<1>. HIDE DEF p
<1>5. IsLog(q, a)' /\ SamplesOf(q)' = SamplesOf(q)
  BY LogKept DEF LogOfRow
<1>6. /\ q # <<>>
      /\ \A k \in 1..n : Settled(q[k])
      /\ \A k, m \in 1..n : q[k] = q[m] => k = m
  BY <1>1 DEF LogOfRow, IsLog
<1>7. \A k \in 1..n : Settled(q[k])' /\ checks'[q[k]].addr = a
  BY <1>1, <1>5 DEF IsLog
<1>8. checks'[j].addr = a /\ checks'[j].sample = checks[j].sample
  BY DEF Keeps
<1>9. \A k \in 1..n : q[k] # j
  BY <1>6
<1>10. \A k \in 1..(n + 1) : k \in 1..n \/ k = n + 1
  BY <1>1
<1>. HIDE DEF n
<1>11. IsLog(p, a)'
  <2>1. \A k, m \in 1..(n + 1) : p[k] = p[m] => k = m
    BY <1>3, <1>4, <1>6, <1>9, <1>10
  <2>2. \A k \in 1..(n + 1) : Settled(p[k])' /\ checks'[p[k]].addr = a
    <3>1. SUFFICES ASSUME NEW k \in 1..(n + 1)
                   PROVE  Settled(p[k])' /\ checks'[p[k]].addr = a
      OBVIOUS
    <3>2. CASE k \in 1..n
      <4>1. p[k] = q[k]
        BY <1>3, <3>2
      <4>. QED BY <1>7, <3>2, <4>1 DEF p
    <3>3. CASE k = n + 1
      <4>1. p[k] = j
        BY <1>4, <3>3
      <4>. QED BY <1>8, <4>1 DEF p
    <3>. QED BY <1>10, <3>2, <3>3
  <2>. QED BY <1>2, <2>1, <2>2 DEF IsLog, p
<1>12. SamplesOf(p)' = Append(SamplesOf(q), checks[j].sample)
  <2>1. \A k \in 1..n : checks'[q[k]].sample = checks[q[k]].sample
    BY <1>6 DEF Keeps, Settled
  <2>. DEFINE f == [k \in 1..n |-> checks[q[k]].sample]
              s == checks[j].sample
  <2>2. SamplesOf(q) = f
    BY <1>1 DEF SamplesOf, n
  <2>3. SamplesOf(p)' = [k \in 1..(n + 1) |-> checks'[p[k]].sample]
    BY <1>2 DEF SamplesOf, p
  <2>4. [k \in 1..(n + 1) |-> checks'[p[k]].sample]
          = [k \in 1..(n + 1) |-> IF k = n + 1 THEN s ELSE f[k]]
    BY <1>3, <1>4, <1>8, <1>10, <2>1
  <2>5. f \in Seq(Sample) /\ Len(f) = n
    <3>1. \A k \in 1..n : checks[q[k]].sample \in Sample
      BY <1>6, CheckTyped DEF Settled
    <3>. QED BY <1>1, <3>1 DEF n
  <2>6. s \in Sample
    BY CheckTyped
  <2>. HIDE DEF f, s
  <2>7. Append(f, s) = [k \in 1..(n + 1) |-> IF k = n + 1 THEN s ELSE f[k]]
    <3>. DEFINE g == Append(f, s)
    <3>1. g \in Seq(Sample) /\ Len(g) = n + 1 /\ g[n + 1] = s
      BY <2>5, <2>6, AppendProperties
    <3>2. \A k \in 1..n : g[k] = f[k]
      BY <2>5, <2>6, AppendProperties
    <3>. HIDE DEF g
    <3>3. g = [k \in 1..(n + 1) |-> g[k]]
      BY <3>1
    <3>4. [k \in 1..(n + 1) |-> g[k]] = [k \in 1..(n + 1) |-> IF k = n + 1 THEN s ELSE f[k]]
      BY <1>10, <3>1, <3>2
    <3>. QED BY <3>3, <3>4 DEF g
  <2>. QED BY <2>2, <2>3, <2>4, <2>7 DEF s
<1>13. (rows[a] = Folds(SamplesOf(p)))'
  <2>1. SamplesOf(q) \in Seq(Sample) /\ SamplesOf(q) # <<>>
    <3>1. \A k \in 1..n : checks[q[k]].sample \in Sample
      BY <1>6, CheckTyped DEF Settled
    <3>2. SamplesOf(q) = [k \in 1..n |-> checks[q[k]].sample]
      BY <1>1 DEF SamplesOf, n
    <3>3. n # 0
      BY <1>6 DEF Order, n
    <3>. QED BY <1>1, <3>1, <3>2, <3>3 DEF n
  <2>2. checks[j].sample \in Sample
    BY CheckTyped
  <2>3. Folds(Append(SamplesOf(q), checks[j].sample))
          = folded(Folds(SamplesOf(q)), checks[j].sample)
    BY <2>1, <2>2, FoldsAppend
  <2>. QED BY <1>12, <2>3 DEF LogOfRow, p
<1>14. ASSUME NEW i \in DOMAIN checks', checks'[i].addr = a, Committed(i)'
       PROVE  Lists(p, i)
  <2>1. i \in DOMAIN checks /\ (Committed(i) \/ i = j)
    BY <1>14 DEF CommitsOnly
  <2>2. checks[i].addr = a
    BY <1>14, <2>1 DEF Keeps
  <2>3. CASE i = j
    BY <1>1, <1>2, <1>4, <2>3 DEF Lists, n
  <2>4. CASE Committed(i)
    <3>1. PICK k \in 1..n : q[k] = i
      BY <1>1, <2>1, <2>2, <2>4 DEF LogOfRow, Lists, n
    <3>. QED BY <1>1, <1>2, <1>3, <3>1 DEF Lists, n
  <2>. QED BY <2>1, <2>3, <2>4
<1>15. (\A i \in DOMAIN checks : checks[i].addr = a /\ Committed(i) => Lists(p, i))'
  BY <1>14 DEF Lists, p
<1>. QED BY <1>11, <1>13, <1>15 DEF LogOfRow, p

\* The first check committed for an address is the whole log of its row.
LEMMA RowStarted ==
  ASSUME NEW a, \A i \in DOMAIN checks : checks[i].addr = a => ~Committed(i),
         Keeps, checks \in Seq(Check),
         NEW j \in DOMAIN checks, checks[j].addr = a, Settled(j)',
         CommitsOnly(j), rows'[a] = inserted(checks[j].sample)
  PROVE  LogOfRow(<<j>>, a)'
<1>. DEFINE p == <<j>>
<1>1. p # <<>> /\ DOMAIN p = {1} /\ p[1] = j
  OBVIOUS
<1>2. checks'[j].addr = a /\ checks'[j].sample = checks[j].sample
  BY DEF Keeps
<1>3. IsLog(p, a)'
  BY <1>2 DEF IsLog
<1>4. SamplesOf(p)' = <<checks[j].sample>>
  BY <1>2 DEF SamplesOf
<1>5. (rows[a] = Folds(SamplesOf(p)))'
  <2>1. checks[j].sample \in Sample
    BY CheckTyped
  <2>. QED BY <1>4, <2>1, FoldsOne
<1>6. ASSUME NEW i \in DOMAIN checks', checks'[i].addr = a, Committed(i)'
      PROVE  Lists(p, i)
  <2>1. i \in DOMAIN checks /\ (Committed(i) \/ i = j)
    BY <1>6 DEF CommitsOnly
  <2>2. checks[i].addr = a
    BY <1>6, <2>1 DEF Keeps
  <2>3. i = j
    BY <2>1, <2>2
  <2>. QED BY <1>1, <2>3 DEF Lists
<1>7. (\A i \in DOMAIN checks : checks[i].addr = a /\ Committed(i) => Lists(p, i))'
  BY <1>6 DEF Lists
<1>. QED BY <1>1, <1>3, <1>5, <1>7 DEF LogOfRow

LEMMA RowsFolded ==
  ASSUME RowsInv, Keeps, TypeOK, checks \in Seq(Check),
         NEW j \in DOMAIN checks, ~Settled(j), Settled(j)', CommitsOnly(j),
         rows' = upsert(rows, checks[j].addr, checks[j].sample)
  PROVE  /\ RowsInv'
         /\ DOMAIN rows \subseteq DOMAIN rows' /\ DOMAIN rows' \subseteq Addr
         /\ \A b \in DOMAIN rows' : rows'[b] \in Row
<1>0. PICK a : a = checks[j].addr
  OBVIOUS
<1>1. a \in Addr /\ checks[j].sample \in Sample
  BY <1>0, CheckTyped
<1>2. /\ DOMAIN rows' = DOMAIN rows \cup {a}
      /\ \A b \in DOMAIN rows' : rows'[b] \in Row
      /\ \A b \in DOMAIN rows \ {a} : rows'[b] = rows[b]
      /\ rows'[a] = IF a \in DOMAIN rows THEN folded(rows[a], checks[j].sample)
                                         ELSE inserted(checks[j].sample)
  <2>1. AreRows(rows)
    BY DEF TypeOK, AreRows
  <2>2. PICK R, s : R = rows /\ s = checks[j].sample
    OBVIOUS
  <2>3. AreRows(R) /\ s \in Sample
    BY <1>1, <2>1, <2>2
  <2>4. AreRows(upsert(R, a, s))
    BY <1>1, <2>3, UpsertTyped
  <2>5. \A b : b \in DOMAIN upsert(R, a, s) <=> b \in DOMAIN R \/ b = a
    BY <1>1, <2>3, UpsertTyped
  <2>6. \A b \in DOMAIN R \ {a} : upsert(R, a, s)[b] = R[b]
    BY <1>1, <2>3, UpsertTyped
  <2>7. upsert(R, a, s)[a] = IF a \in DOMAIN R THEN folded(R[a], s) ELSE inserted(s)
    BY <1>1, <2>3, UpsertTyped
  <2>8. rows' = upsert(R, a, s)
    BY <1>0, <2>2
  <2>9. DOMAIN rows' = DOMAIN rows \cup {a}
    BY <2>2, <2>5, <2>8
  <2>10. \A b \in DOMAIN rows' : rows'[b] \in Row
    BY <2>4, <2>8 DEF AreRows
  <2>. QED BY <2>2, <2>6, <2>7, <2>8, <2>9, <2>10
<1>3. ASSUME NEW b \in Addr, b # a, b \in DOMAIN rows
      PROVE  (\E q \in Order : LogOfRow(q, b))'
  <2>1. PICK q \in Order : LogOfRow(q, b)
    BY <1>3 DEF RowsInv
  <2>2. rows'[b] = rows[b] /\ checks[j].addr # b
    BY <1>0, <1>2, <1>3
  <2>3. LogOfRow(q, b)'
    BY <2>1, <2>2, RowKept
  <2>. QED BY <2>3 DEF Order
<1>4. ASSUME NEW b \in Addr, b # a, b \notin DOMAIN rows
      PROVE  (\A i \in DOMAIN checks : checks[i].addr = b => ~Committed(i))'
  <2>1. \A i \in DOMAIN checks : checks[i].addr = b => ~Committed(i)
    BY <1>4 DEF RowsInv
  <2>2. checks[j].addr # b
    BY <1>0, <1>4
  <2>. QED BY <2>1, <2>2, NoRowKept
<1>5. CASE a \in DOMAIN rows
  <2>1. PICK q \in Order : LogOfRow(q, a)
    BY <1>1, <1>5 DEF RowsInv
  <2>2. LogOfRow(Append(q, j), a)'
    BY <1>0, <1>2, <1>5, <2>1, RowExtended
  <2>3. Append(q, j) \in Order
    BY DEF Order
  <2>4. (\E r \in Order : LogOfRow(r, a))'
    BY <2>2, <2>3 DEF Order
  <2>. QED BY <1>1, <1>2, <1>3, <1>4, <2>4 DEF RowsInv, TypeOK
<1>6. CASE a \notin DOMAIN rows
  <2>1. \A i \in DOMAIN checks : checks[i].addr = a => ~Committed(i)
    BY <1>1, <1>6 DEF RowsInv
  <2>2. LogOfRow(<<j>>, a)'
    BY <1>0, <1>2, <1>6, <2>1, RowStarted
  <2>3. <<j>> \in Order
    BY DEF Order
  <2>4. (\E r \in Order : LogOfRow(r, a))'
    BY <2>2, <2>3 DEF Order
  <2>. QED BY <1>1, <1>2, <1>3, <1>4, <2>4 DEF RowsInv, TypeOK
<1>. QED BY <1>5, <1>6
LEMMA PoolKept ==
  ASSUME PoolInv, Keeps, DOMAIN rows \subseteq DOMAIN rows',
         \A i \in Acked : i \in DOMAIN checks' /\ checks'[i].verdict = "ok",
         UNCHANGED <<phase, todo, fillVars, remembered>>
  PROVE  PoolInv'
<1>0. Kept' = Kept /\ UNCHANGED <<args, pool>>
  BY DEF Kept, union_dedup, fillVars
<1>1. remembered \subseteq Acked /\ \A i \in remembered : i \in DOMAIN checks
  BY DEF PoolInv, Acked
<1>2. \A i \in remembered : checks'[i].addr = checks[i].addr
  BY <1>1 DEF Keeps
<1>3. ASSUME NEW i \in remembered, Warm(i)
      PROVE  Warm(i)'
  <2>1. checks[i].addr \in DOMAIN Kept' /\ Kept'[checks[i].addr] = Kept[checks[i].addr]
    BY <1>0, <1>3 DEF Warm
  <2>. QED BY <1>1, <1>3, <2>1, WarmKept
<1>4. (remembered \subseteq Acked)'
  BY <1>1 DEF Acked
<1>5. (Running /\ ~args.countries => \A i \in remembered : Warm(i))'
  BY <1>0, <1>3 DEF PoolInv, Running
<1>6. (phase = "loading" =>
         /\ backend = "redis"
         /\ pool = NoProxies
         /\ todo \subseteq DOMAIN rows
         /\ \A i \in remembered : checks[i].addr \in todo \/ Warm(i))'
  BY <1>0, <1>2, <1>3 DEF PoolInv, Keeps, NoProxies
<1>. QED BY <1>4, <1>5, <1>6 DEF PoolInv

-----------------------------------------------------------------------------
(* What the steps of a task do.                                             *)

LEMMA TaskShape ==
  ASSUME NEW x \in TaskType
  PROVE  /\ x.at \in {"idle", "waiting", "writing", "committed", "silent"}
         /\ x.at = "idle" => x = Idle
         /\ x.at # "idle" => x.addr \in Addr /\ x.sample \in Sample /\ x.id \in Nat
         /\ x.at \in {"writing", "committed", "silent"} =>
              x \in [at : {"writing", "committed", "silent"}, addr : Addr, sample : Sample,
                     id : Nat, left : Nat]
BY DEF TaskType, Idle

\* Task t goes on with its check: x is its next state.
LEMMA Advances ==
  ASSUME TasksInv, NEW t \in Task, task[t].at # "idle",
         NEW x \in TaskType, x.at # "idle",
         x.id = task[t].id, x.addr = task[t].addr, x.sample = task[t].sample,
         x.at \in {"waiting", "writing"} => task[t].at \in {"waiting", "writing"},
         task' = [task EXCEPT ![t] = x],
         UNCHANGED <<backend, checks, remembered>>
  PROVE  TasksInv' /\ Keeps
<1>1. task' \in [Task -> TaskType]
  BY DEF TasksInv
<1>2. task'[t] = x /\ \A u \in Task : u # t => task'[u] = task[u]
  BY DEF TasksInv
<1>3. \A u \in Task : /\ task'[u].at # "idle" <=> task[u].at # "idle"
                      /\ task[u].at # "idle" => /\ task'[u].id = task[u].id
                                                /\ task'[u].addr = task[u].addr
                                                /\ task'[u].sample = task[u].sample
                      /\ task'[u].at \in {"waiting", "writing"} =>
                           task[u].at \in {"waiting", "writing"}
  BY <1>2
<1>4. TaskOwns'
  BY <1>3 DEF TasksInv, TaskOwns
<1>5. TaskApart'
  BY <1>3 DEF TasksInv, TaskApart
<1>6. MemoryAlone'
  BY <1>3 DEF TasksInv, MemoryAlone, Durable
<1>7. TasksInv'
  BY <1>1, <1>4, <1>5, <1>6 DEF TasksInv
<1>8. ASSUME NEW i \in DOMAIN checks, Settled(i)
      PROVE  Settled(i)'
  BY <1>3, <1>8 DEF Settled
<1>. QED BY <1>7, <1>8 DEF Keeps

\* Task t is told the outcome of its upsert.
LEMMA Told ==
  ASSUME TasksInv, NEW t \in Task, task[t].at # "idle",
         NEW v \in {"ok", "err"}, v = "ok" \/ task[t].at = "writing",
         Tell(t, v), UNCHANGED <<backend, remembered>>
  PROVE  /\ TasksInv' /\ Keeps
         /\ DOMAIN checks' = DOMAIN checks
         /\ \A i \in DOMAIN checks : i # task[t].id => checks'[i] = checks[i]
         /\ checks'[task[t].id].verdict = v
         /\ task'[t].at = "idle" /\ \A u \in Task : u # t => task'[u] = task[u]
<1>1. PICK j : j = task[t].id
  OBVIOUS
<1>2. j \in DOMAIN checks
  BY <1>1 DEF TasksInv, TaskOwns
<1>3. /\ checks' \in Seq(Check)
      /\ DOMAIN checks' = DOMAIN checks
      /\ \A k \in DOMAIN checks : /\ checks'[k].addr = checks[k].addr
                                  /\ checks'[k].sample = checks[k].sample
      /\ \A k \in DOMAIN checks : k # j => checks'[k] = checks[k]
      /\ checks'[j].verdict = v
  <2>1. checks \in Seq(Check) /\ v \in {"open", "ok", "err"}
    BY DEF TasksInv
  <2>2. checks' = [checks EXCEPT ![j].verdict = v]
    BY <1>1 DEF Tell
  <2>. QED BY <1>2, <2>1, <2>2, ToldCheck
<1>4. task' = [task EXCEPT ![t] = Idle]
  BY DEF Tell
<1>5. task' \in [Task -> TaskType]
  BY <1>4 DEF TasksInv, TaskType
<1>6. task'[t].at = "idle" /\ \A u \in Task : u # t => task'[u] = task[u]
  BY <1>4 DEF TasksInv, Idle
<1>7. \A u \in Task : task'[u].at # "idle" => u # t /\ task'[u] = task[u] /\ task[u].id # j
  BY <1>1, <1>6 DEF TasksInv, TaskApart
<1>8. TaskOwns'
  BY <1>3, <1>7 DEF TasksInv, TaskOwns
<1>9. TaskApart'
  BY <1>7 DEF TasksInv, TaskApart
<1>10. MemoryAlone'
  BY <1>6 DEF TasksInv, MemoryAlone, Durable
<1>11. TasksInv'
  BY <1>3, <1>5, <1>8, <1>9, <1>10 DEF TasksInv
<1>12. ASSUME NEW i \in DOMAIN checks, Settled(i)
       PROVE  Settled(i)'
  <2>1. \A u \in Task : task'[u].at \in {"waiting", "writing"} => task'[u].id # i
    BY <1>6, <1>12 DEF Settled
  <2>2. checks'[i].verdict = "err" => backend' = "redis"
    <3>1. CASE i # j
      BY <1>3, <1>12, <3>1 DEF Settled
    <3>2. CASE i = j
      BY <1>1, <1>3, <1>12, <3>2 DEF Settled
    <3>. QED BY <3>1, <3>2
  <2>. QED BY <1>3, <2>1, <2>2 DEF Settled
<1>13. Keeps
  BY <1>3, <1>12 DEF Keeps
<1>. QED BY <1>1, <1>3, <1>6, <1>11, <1>13
-----------------------------------------------------------------------------
(* Each action keeps the invariant.                                         *)

\* A step that changes neither the checks nor the tasks keeps every log.
LEMMA StillKeeps ==
  ASSUME UNCHANGED <<backend, checks, task>>
  PROVE  Keeps /\ CommitsOnly(0)
BY DEF Keeps, CommitsOnly, Settled, Committed

LEMMA StillTasks ==
  ASSUME TasksInv, UNCHANGED <<backend, checks, task>>,
         ~Durable => remembered' = {}
  PROVE  TasksInv'
BY DEF TasksInv, TaskOwns, TaskApart, MemoryAlone, Durable

LEMMA HeldTyped ==
  ASSUME TypeOK, NEW t \in Task, NEW b \in BOOLEAN, held' = [held EXCEPT ![ConnOf(t)] = b],
         UNCHANGED <<rows, phase, todo, fillVars>>
  PROVE  TypeOK'
<1>1. held' \in [Conn -> BOOLEAN]
  BY DEF TypeOK
<1>. QED BY <1>1 DEF TypeOK, Row, fillVars, ArePooled

LEMMA CheckEndsKeeps ==
  ASSUME IInv, NEW t \in Task, CheckEnds(t)
  PROVE  IInv'
<1>. USE DEF IInv
<1>1. PICK a \in (IF t = "r" THEN DOMAIN pool \cup found ELSE Addr), s \in Samples[t] :
        /\ checks' = Append(checks, [addr |-> a, sample |-> s, verdict |-> "open"])
        /\ task' = [task EXCEPT ![t] =
             [at |-> "waiting", addr |-> a, sample |-> Fresh(t, a, s), id |-> Len(checks) + 1]]
  BY DEF CheckEnds
<1>. DEFINE c == [addr |-> a, sample |-> s, verdict |-> "open"]
            n == Len(checks)
            x == [at |-> "waiting", addr |-> a, sample |-> s, id |-> n + 1]
<1>2. a \in Addr /\ s \in Sample
  BY DEF TypeOK, ArePooled, Sample
<1>3. c \in Check /\ x \in TaskType /\ n \in Nat /\ checks \in Seq(Check)
  BY <1>2 DEF Check, TaskType, TasksInv
<1>4. task[t] = Idle /\ task' = [task EXCEPT ![t] = x]
  BY <1>1 DEF CheckEnds, Fresh
<1>5. UNCHANGED <<backend, rows, phase, todo, fillVars, held, starts, remembered>>
  BY DEF CheckEnds
<1>6. /\ c.addr = a /\ c.sample = s /\ c.verdict = "open"
      /\ x.at = "waiting" /\ x.addr = a /\ x.sample = s /\ x.id = n + 1
  OBVIOUS
<1>. HIDE DEF c, x
<1>7. checks' \in Seq(Check)
  BY <1>1, <1>3 DEF c
<1>8. \A i \in DOMAIN checks : i \in DOMAIN checks' /\ checks'[i] = checks[i] /\ i # n + 1
  BY <1>1, <1>3
<1>9. n + 1 \in DOMAIN checks' /\ checks'[n + 1] = c
  BY <1>1, <1>3 DEF c
<1>10. \A i \in DOMAIN checks' : i \in DOMAIN checks \/ i = n + 1
  BY <1>1, <1>3
<1>. HIDE DEF n
<1>11. task'[t] = x /\ \A u \in Task : u # t => task'[u] = task[u]
  BY <1>4 DEF TasksInv
<1>12. task[t].at = "idle"
  BY <1>4 DEF Idle
<1>13. TasksInv'
  <2>1. task' \in [Task -> TaskType]
    BY <1>3, <1>4 DEF TasksInv
  <2>2. \A u \in Task : task[u].at # "idle" => task[u].id \in DOMAIN checks
    BY DEF TasksInv, TaskOwns
  <2>3. TaskOwns'
    <3>1. SUFFICES ASSUME NEW u \in Task, task'[u].at # "idle"
                   PROVE  /\ task'[u].id \in DOMAIN checks'
                          /\ checks'[task'[u].id].addr = task'[u].addr
                          /\ checks'[task'[u].id].sample = task'[u].sample
                          /\ checks'[task'[u].id].verdict = "open"
      BY DEF TaskOwns
    <3>2. CASE u = t
      BY <1>6, <1>9, <1>11, <3>2
    <3>3. CASE u # t
      <4>1. task'[u] = task[u] /\ task[u].id \in DOMAIN checks
        BY <1>11, <2>2, <3>1, <3>3
      <4>. QED BY <1>8, <3>1, <4>1 DEF TasksInv, TaskOwns
    <3>. QED BY <3>2, <3>3
  <2>4. TaskApart'
    <3>1. SUFFICES ASSUME NEW u \in Task, NEW w \in Task,
                          task'[u].at # "idle", task'[w].at # "idle", task'[u].id = task'[w].id
                   PROVE  u = w
      BY DEF TaskApart
    <3>. QED BY <1>6, <1>8, <1>11, <2>2, <3>1 DEF TasksInv, TaskApart
  <2>5. MemoryAlone'
    <3>1. ~Durable => t = "r"
      BY DEF CheckEnds, CanCheck, Task
    <3>. QED BY <1>5, <1>11, <3>1 DEF TasksInv, MemoryAlone, Durable
  <2>. QED BY <1>7, <2>1, <2>3, <2>4, <2>5 DEF TasksInv
<1>14. Keeps
  <2>1. ASSUME NEW i \in DOMAIN checks, Settled(i)
        PROVE  Settled(i)'
    BY <1>5, <1>6, <1>8, <1>11, <2>1 DEF Settled
  <2>. QED BY <1>5, <1>8, <2>1 DEF Keeps
<1>15. CommitsOnly(0)
  <2>1. SUFFICES ASSUME NEW i \in DOMAIN checks', Committed(i)'
                 PROVE  i \in DOMAIN checks /\ Committed(i)
    BY DEF CommitsOnly
  <2>2. CASE i = n + 1
    <3>1. checks'[i].verdict # "ok"
      BY <1>6, <1>9, <2>2
    <3>2. PICK u \in Task : task'[u].at = "committed" /\ task'[u].id = i
      BY <2>1, <3>1 DEF Committed
    <3>3. u # t /\ task'[u] = task[u]
      BY <1>6, <1>11, <3>2
    <3>. QED BY <1>8, <2>2, <3>2, <3>3 DEF TasksInv, TaskOwns
  <2>3. CASE i \in DOMAIN checks
    BY <1>6, <1>8, <1>11, <2>1, <2>3 DEF Committed
  <2>. QED BY <1>10, <2>2, <2>3
<1>16. RowsInv'
  BY <1>3, <1>5, <1>14, <1>15, RowsKept
<1>17. PoolInv'
  BY <1>5, <1>8, <1>14, PoolKept DEF Acked
<1>18. TypeOK'
  BY <1>5 DEF TypeOK, Row, fillVars, ArePooled
<1>. QED BY <1>13, <1>16, <1>17, <1>18

LEMMA LockKeeps ==
  ASSUME IInv, NEW t \in Task, Lock(t)
  PROVE  IInv'
<1>. USE DEF IInv
<1>1. PICK x : x = [at |-> "writing", addr |-> task[t].addr, sample |-> task[t].sample,
                    id |-> task[t].id, left |-> RetryDelays]
  OBVIOUS
<1>2. task[t].at = "waiting" /\ task' = [task EXCEPT ![t] = x]
  BY <1>1 DEF Lock
<1>3. task[t] \in TaskType
  BY DEF TasksInv
<1>4. x \in TaskType /\ x.at = "writing"
  <2>1. task[t].addr \in Addr /\ task[t].sample \in Sample /\ task[t].id \in Nat
    BY <1>2, <1>3, TaskShape
  <2>. QED BY <1>1, <2>1, HistoryAssumption DEF TaskType
<1>5. x.id = task[t].id /\ x.addr = task[t].addr /\ x.sample = task[t].sample
  BY <1>1
<1>6. UNCHANGED <<backend, rows, phase, todo, fillVars, checks, starts, remembered>>
  BY DEF Lock
<1>7. TasksInv' /\ Keeps
  BY <1>2, <1>4, <1>5, <1>6, Advances
<1>8. CommitsOnly(0)
  <2>1. \A u \in Task : task'[u].at = "committed" => task'[u] = task[u]
    BY <1>2, <1>4 DEF TasksInv
  <2>. QED BY <1>6, <2>1 DEF CommitsOnly, Committed
<1>9. RowsInv'
  BY <1>6, <1>7, <1>8, RowsKept DEF TasksInv
<1>10. PoolInv'
  BY <1>6, <1>7, PoolKept DEF Acked
<1>11. TypeOK'
  BY <1>6, HeldTyped DEF Lock
<1>. QED BY <1>7, <1>9, <1>10, <1>11

\* The check a writing task works for is not settled: no log holds it.
LEMMA WritingIsFresh ==
  ASSUME TasksInv, NEW t \in Task, task[t].at = "writing"
  PROVE  /\ task[t].id \in DOMAIN checks
         /\ ~Settled(task[t].id)
         /\ checks[task[t].id].addr = task[t].addr
         /\ checks[task[t].id].sample = task[t].sample
         /\ checks[task[t].id].verdict = "open"
         /\ \A u \in Task : u # t /\ task[u].at # "idle" => task[u].id # task[t].id
<1>1. task[t].at # "idle"
  OBVIOUS
<1>2. ~Settled(task[t].id)
  BY DEF Settled
<1>3. \A u \in Task : u # t /\ task[u].at # "idle" => task[u].id # task[t].id
  BY <1>1 DEF TasksInv, TaskApart
<1>. QED BY <1>1, <1>2, <1>3 DEF TasksInv, TaskOwns

LEMMA CommitKeeps ==
  ASSUME IInv, NEW t \in Task, Commit(t)
  PROVE  IInv'
<1>. USE DEF IInv
<1>1. task[t] \in TaskType /\ task[t].at = "writing"
  BY DEF TasksInv, Commit
<1>2. PICK x : x = [task[t] EXCEPT !.at = "committed"]
  OBVIOUS
<1>3. task' = [task EXCEPT ![t] = x]
  BY <1>2 DEF Commit
<1>4. task[t] \in [at : {"writing", "committed", "silent"}, addr : Addr, sample : Sample,
                   id : Nat, left : Nat]
  BY <1>1, TaskShape
<1>5. /\ x \in TaskType /\ x.at = "committed"
      /\ x.id = task[t].id /\ x.addr = task[t].addr /\ x.sample = task[t].sample
  BY <1>2, <1>4 DEF TaskType
<1>6. UNCHANGED <<backend, phase, todo, fillVars, held, checks, starts, remembered>>
  BY DEF Commit
<1>7. TasksInv' /\ Keeps
  BY <1>1, <1>3, <1>5, <1>6, Advances
<1>8. PICK j : j = task[t].id
  OBVIOUS
<1>9. /\ j \in DOMAIN checks /\ ~Settled(j)
      /\ checks[j].addr = task[t].addr /\ checks[j].sample = task[t].sample
      /\ checks[j].verdict = "open"
      /\ \A u \in Task : u # t /\ task[u].at # "idle" => task[u].id # j
  BY <1>1, <1>8, WritingIsFresh
<1>10. task'[t] = x /\ \A u \in Task : u # t => task'[u] = task[u]
  BY <1>3 DEF TasksInv
<1>11. Settled(j)'
  BY <1>5, <1>6, <1>9, <1>10 DEF Settled
<1>12. CommitsOnly(j)
  BY <1>5, <1>6, <1>8, <1>10 DEF CommitsOnly, Committed
<1>13. rows' = upsert(rows, checks[j].addr, checks[j].sample)
  BY <1>9 DEF Commit, Execute
<1>14. /\ RowsInv'
       /\ DOMAIN rows \subseteq DOMAIN rows' /\ DOMAIN rows' \subseteq Addr
       /\ \A b \in DOMAIN rows' : rows'[b] \in Row
  BY <1>7, <1>9, <1>11, <1>12, <1>13, RowsFolded DEF TasksInv
<1>15. PoolInv'
  BY <1>6, <1>7, <1>14, PoolKept DEF Acked
<1>16. TypeOK'
  BY <1>6, <1>14 DEF TypeOK, Row, fillVars, ArePooled
<1>. QED BY <1>7, <1>14, <1>15, <1>16

\* A verdict that commits nothing: an upsert that was committed before, or
\* one that failed without a trace.
LEMMA VerdictKeeps ==
  ASSUME IInv, NEW t \in Task, NEW v \in {"ok", "err"}, Tell(t, v),
         \/ v = "ok" /\ task[t].at = "committed"
         \/ v = "err" /\ task[t].at = "writing",
         UNCHANGED <<backend, rows, phase, todo, fillVars, starts, remembered>>
  PROVE  IInv'
<1>. USE DEF IInv
<1>1. task[t].at # "idle" /\ (v = "ok" \/ task[t].at = "writing")
  OBVIOUS
<1>2. PICK j : j = task[t].id
  OBVIOUS
<1>3. /\ TasksInv' /\ Keeps
      /\ DOMAIN checks' = DOMAIN checks
      /\ \A i \in DOMAIN checks : i # j => checks'[i] = checks[i]
      /\ checks'[j].verdict = v
      /\ task'[t].at = "idle" /\ \A u \in Task : u # t => task'[u] = task[u]
  BY <1>1, <1>2, Told
<1>4. CommitsOnly(0)
  <2>1. SUFFICES ASSUME NEW i \in DOMAIN checks', Committed(i)'
                 PROVE  i \in DOMAIN checks /\ Committed(i)
    BY DEF CommitsOnly
  <2>2. CASE \E u \in Task : task'[u].at = "committed" /\ task'[u].id = i
    BY <1>3, <2>2 DEF Committed
  <2>3. CASE checks'[i].verdict = "ok" /\ i # j
    BY <1>3, <2>3 DEF Committed
  <2>4. CASE checks'[i].verdict = "ok" /\ i = j
    <3>1. task[t].at = "committed" /\ task[t].id = i
      BY <1>2, <1>3, <2>4
    <3>. QED BY <1>3, <3>1 DEF Committed
  <2>. QED BY <2>1, <2>2, <2>3, <2>4 DEF Committed
<1>5. RowsInv'
  BY <1>3, <1>4, RowsKept DEF TasksInv
<1>6. checks[j].verdict = "open"
  BY <1>1, <1>2 DEF TasksInv, TaskOwns
<1>7. PoolInv'
  <2>1. \A i \in Acked : i \in DOMAIN checks' /\ checks'[i].verdict = "ok"
    BY <1>3, <1>6 DEF Acked
  <2>. QED BY <1>3, <2>1, PoolKept
<1>8. TypeOK'
  BY HeldTyped DEF Tell
<1>. QED BY <1>3, <1>5, <1>7, <1>8

LEMMA ReturnKeeps ==
  ASSUME IInv, NEW t \in Task, Return(t)
  PROVE  IInv'
<1>1. Tell(t, "ok") /\ task[t].at = "committed"
  BY DEF Return
<1>2. UNCHANGED <<backend, rows, phase, todo, fillVars, starts, remembered>>
  BY DEF Return
<1>. QED BY <1>1, <1>2, VerdictKeeps

LEMMA RefusedKeeps ==
  ASSUME IInv, NEW t \in Task, Refused(t)
  PROVE  IInv'
<1>1. Tell(t, "err") /\ task[t].at = "writing"
  BY DEF Refused
<1>2. UNCHANGED <<backend, rows, phase, todo, fillVars, starts, remembered>>
  BY DEF Refused
<1>. QED BY <1>1, <1>2, VerdictKeeps

LEMMA BusyKeeps ==
  ASSUME IInv, NEW t \in Task, Busy(t)
  PROVE  IInv'
<1>. USE DEF IInv
<1>1. task[t].at = "writing" /\ task[t] \in TaskType
  BY DEF Busy, TasksInv
<1>2. UNCHANGED <<backend, rows, phase, todo, fillVars, starts, remembered>>
  BY DEF Busy
<1>3. CASE ~(task[t].left > 0)
  <2>1. Tell(t, "err")
    BY <1>3 DEF Busy
  <2>. HIDE DEF IInv
  <2>. QED BY <1>1, <1>2, <2>1, VerdictKeeps
<1>4. CASE task[t].left > 0
  <2>1. PICK x : x = [task[t] EXCEPT !.left = @ - 1]
    OBVIOUS
  <2>2. task' = [task EXCEPT ![t] = x] /\ UNCHANGED <<held, checks>>
    BY <1>4, <2>1 DEF Busy
  <2>3. task[t] \in [at : {"writing", "committed", "silent"}, addr : Addr, sample : Sample,
                     id : Nat, left : Nat]
    BY <1>1, TaskShape
  <2>4. task[t].left - 1 \in Nat
    BY <1>4, <2>3
  <2>5. /\ x \in TaskType /\ x.at = "writing"
        /\ x.id = task[t].id /\ x.addr = task[t].addr /\ x.sample = task[t].sample
    BY <1>1, <2>1, <2>3, <2>4 DEF TaskType
  <2>6. TasksInv' /\ Keeps
    BY <1>1, <1>2, <2>2, <2>5, Advances
  <2>7. CommitsOnly(0)
    <3>1. \A u \in Task : task'[u].at = "committed" => task'[u] = task[u]
      BY <2>2, <2>5 DEF TasksInv
    <3>. QED BY <2>2, <3>1 DEF CommitsOnly, Committed
  <2>8. RowsInv'
    BY <1>2, <2>6, <2>7, RowsKept DEF TasksInv
  <2>9. PoolInv'
    BY <1>2, <2>2, <2>6, PoolKept DEF Acked
  <2>10. TypeOK'
    BY <1>2, <2>2 DEF TypeOK, Row, fillVars, ArePooled
  <2>. QED BY <2>6, <2>8, <2>9, <2>10
<1>. QED BY <1>3, <1>4

LEMMA ReplyLostKeeps ==
  ASSUME IInv, NEW t \in Task, ReplyLost(t)
  PROVE  IInv'
<1>. USE DEF IInv
<1>1. task[t].at = "writing" /\ backend = "redis" /\ Tell(t, "err")
  BY DEF ReplyLost
<1>2. UNCHANGED <<backend, phase, todo, fillVars, starts, remembered>>
  BY DEF ReplyLost
<1>3. PICK j : j = task[t].id
  OBVIOUS
<1>4. /\ j \in DOMAIN checks /\ ~Settled(j)
      /\ checks[j].addr = task[t].addr /\ checks[j].sample = task[t].sample
      /\ checks[j].verdict = "open"
      /\ \A u \in Task : u # t /\ task[u].at # "idle" => task[u].id # j
  BY <1>1, <1>3, WritingIsFresh
<1>5. /\ TasksInv' /\ Keeps
      /\ DOMAIN checks' = DOMAIN checks
      /\ \A i \in DOMAIN checks : i # j => checks'[i] = checks[i]
      /\ checks'[j].verdict = "err"
      /\ task'[t].at = "idle" /\ \A u \in Task : u # t => task'[u] = task[u]
  BY <1>1, <1>2, <1>3, Told
<1>6. Settled(j)'
  BY <1>1, <1>2, <1>4, <1>5 DEF Settled
<1>7. CommitsOnly(j)
  BY <1>5 DEF CommitsOnly, Committed
<1>8. rows' = upsert(rows, checks[j].addr, checks[j].sample)
  BY <1>4 DEF ReplyLost, Execute
<1>9. /\ RowsInv'
      /\ DOMAIN rows \subseteq DOMAIN rows' /\ DOMAIN rows' \subseteq Addr
      /\ \A b \in DOMAIN rows' : rows'[b] \in Row
  BY <1>4, <1>5, <1>6, <1>7, <1>8, RowsFolded DEF TasksInv
<1>10. PoolInv'
  <2>1. \A i \in Acked : i \in DOMAIN checks' /\ checks'[i].verdict = "ok"
    BY <1>4, <1>5 DEF Acked
  <2>. QED BY <1>2, <1>5, <1>9, <2>1, PoolKept
<1>11. TypeOK'
  <2>1. held' \in [Conn -> BOOLEAN]
    BY <1>1 DEF Tell, TypeOK
  <2>. QED BY <1>2, <1>9, <2>1 DEF TypeOK, Row, fillVars, ArePooled
<1>. QED BY <1>5, <1>9, <1>10, <1>11

\* A silent server has folded the check in, or will never do so: either way
\* the check is settled.
LEMMA SilenceKeeps ==
  ASSUME IInv, NEW t \in Task, Silence(t)
  PROVE  IInv'
<1>. USE DEF IInv
<1>1. task[t] \in TaskType /\ task[t].at = "writing"
  BY DEF TasksInv, Silence
<1>2. PICK x : x = [task[t] EXCEPT !.at = "silent"]
  OBVIOUS
<1>3. task' = [task EXCEPT ![t] = x]
  BY <1>2 DEF Silence
<1>4. task[t] \in [at : {"writing", "committed", "silent"}, addr : Addr, sample : Sample,
                   id : Nat, left : Nat]
  BY <1>1, TaskShape
<1>5. /\ x \in TaskType /\ x.at = "silent"
      /\ x.id = task[t].id /\ x.addr = task[t].addr /\ x.sample = task[t].sample
  BY <1>2, <1>4 DEF TaskType
<1>6. UNCHANGED <<backend, phase, todo, fillVars, held, checks, starts, remembered>>
  BY DEF Silence
<1>7. TasksInv' /\ Keeps
  BY <1>1, <1>3, <1>5, <1>6, Advances
<1>8. PICK j : j = task[t].id
  OBVIOUS
<1>9. /\ j \in DOMAIN checks /\ ~Settled(j)
      /\ checks[j].addr = task[t].addr /\ checks[j].sample = task[t].sample
      /\ checks[j].verdict = "open"
      /\ \A u \in Task : u # t /\ task[u].at # "idle" => task[u].id # j
  BY <1>1, <1>8, WritingIsFresh
<1>10. task'[t] = x /\ \A u \in Task : u # t => task'[u] = task[u]
  BY <1>3 DEF TasksInv
<1>11. Settled(j)'
  BY <1>5, <1>6, <1>9, <1>10 DEF Settled
<1>12. CommitsOnly(0) /\ CommitsOnly(j)
  <2>1. \A u \in Task : task'[u].at = "committed" => task'[u] = task[u]
    BY <1>5, <1>10
  <2>. QED BY <1>6, <2>1 DEF CommitsOnly, Committed
<1>13. CASE UNCHANGED rows
  <2>1. RowsInv'
    BY <1>7, <1>12, <1>13, RowsKept DEF TasksInv
  <2>2. PoolInv'
    BY <1>6, <1>7, <1>13, PoolKept DEF Acked
  <2>3. TypeOK'
    BY <1>6, <1>13 DEF TypeOK, Row, fillVars, ArePooled
  <2>. QED BY <1>7, <2>1, <2>2, <2>3
<1>14. CASE Execute(t)
  <2>1. rows' = upsert(rows, checks[j].addr, checks[j].sample)
    BY <1>9, <1>14 DEF Execute
  <2>2. /\ RowsInv'
        /\ DOMAIN rows \subseteq DOMAIN rows' /\ DOMAIN rows' \subseteq Addr
        /\ \A b \in DOMAIN rows' : rows'[b] \in Row
    BY <1>7, <1>9, <1>11, <1>12, <2>1, RowsFolded DEF TasksInv
  <2>3. PoolInv'
    BY <1>6, <1>7, <2>2, PoolKept DEF Acked
  <2>4. TypeOK'
    BY <1>6, <2>2 DEF TypeOK, Row, fillVars, ArePooled
  <2>. QED BY <1>7, <2>2, <2>3, <2>4
<1>. QED BY <1>13, <1>14 DEF Silence

\* A proxy read from a row carries the row's log.
LEMMA ReadIsWarm ==
  ASSUME IInv, NEW i \in Acked, remembered' \subseteq Acked,
         UNCHANGED <<backend, checks, task>>,
         checks[i].addr \in DOMAIN Kept',
         Kept'[checks[i].addr] = restored(rows[checks[i].addr])
  PROVE  Warm(i)'
<1>. USE DEF IInv
<1>1. PICK a : a = checks[i].addr
  OBVIOUS
<1>2. i \in DOMAIN checks /\ Committed(i) /\ \A k \in Acked : k \in DOMAIN checks /\ Committed(k)
  BY DEF Acked, Committed
<1>3. a \in Addr
  BY <1>1, <1>2, CheckTyped DEF TasksInv
<1>4. a \in DOMAIN rows
  BY <1>1, <1>2, <1>3 DEF RowsInv
<1>5. PICK q \in Order : LogOfRow(q, a)
  BY <1>3, <1>4 DEF RowsInv
<1>6. Keeps
  BY StillKeeps
<1>7. IsLog(q, a)' /\ SamplesOf(q)' = SamplesOf(q)
  BY <1>5, <1>6, LogKept DEF LogOfRow
<1>8. Shows(Kept'[a], Folds(SamplesOf(q)'))
  <2>1. rows[a] \in Row
    BY <1>4 DEF TypeOK
  <2>2. Shows(restored(rows[a]), rows[a])
    BY <2>1, RestoredTyped
  <2>. QED BY <1>1, <1>5, <1>7, <2>2 DEF LogOfRow
<1>9. \A k \in remembered' : checks'[k].addr = a => Lists(q, k)
  BY <1>2, <1>5 DEF LogOfRow
<1>10. LogOfProxy(q, a)'
  BY <1>7, <1>8, <1>9 DEF LogOfProxy, Lists
<1>11. LogOfProxy(q, checks[i].addr)'
  BY <1>1, <1>10
<1>. QED BY <1>1, <1>11 DEF Warm, Order

LEMMA AckedHasRow ==
  ASSUME IInv, NEW i \in Acked
  PROVE  checks[i].addr \in DOMAIN rows
<1>1. i \in DOMAIN checks /\ Committed(i)
  BY DEF Acked, Committed
<1>2. checks[i].addr \in Addr
  BY <1>1, CheckTyped DEF IInv, TasksInv
<1>. QED BY <1>1, <1>2 DEF IInv, RowsInv

LEMMA UnionTyped ==
  ASSUME NEW P, ArePooled(P)
  PROVE  /\ ArePooled(union_dedup(P, FromFile))
         /\ \A a \in DOMAIN P : /\ a \in DOMAIN union_dedup(P, FromFile)
                                /\ union_dedup(P, FromFile)[a] = P[a]
<1>1. DOMAIN FromFile \subseteq Addr
  BY HistoryAssumption DEF FromFile
<1>2. \A a \in DOMAIN FromFile : FromFile[a].requests = 0 /\ FromFile[a].ewma = 0
  BY DEF FromFile, unscored
<1>3. 0 \in Nat /\ 0 \in 0..Scale
  BY ScaleAssumption
<1>4. union_dedup(P, FromFile) = [a \in DOMAIN P \cup DOMAIN FromFile |->
                                    IF a \in DOMAIN P THEN P[a] ELSE FromFile[a]]
  BY DEF union_dedup
<1>. QED BY <1>1, <1>2, <1>3, <1>4 DEF ArePooled

\* What the pool is handed, without an allow-list, is kept.
LEMMA FillKeeps ==
  ASSUME NEW h, ArePooled(h), NEW flags \in [load : BOOLEAN, countries : BOOLEAN],
         Fill(h, flags)
  PROVE  /\ ArePooled(history)' /\ ArePooled(pool)' /\ found' = {} /\ phase' = "filling"
         /\ ~flags.countries => \A a \in DOMAIN h : a \in DOMAIN Kept' /\ Kept'[a] = h[a]
<1>1. phase' = "filling" /\ found' = {}
  BY DEF Fill
<1>2. PICK P : P = union_dedup(h, FromFile)
  OBVIOUS
<1>3. /\ ArePooled(P)
      /\ \A a \in DOMAIN h : a \in DOMAIN P /\ P[a] = h[a]
  BY <1>2, UnionTyped
<1>4. ArePooled(NoProxies) /\ DOMAIN NoProxies = {}
  BY DEF ArePooled, NoProxies
<1>5. Kept' = [a \in DOMAIN history' \cup DOMAIN pool' |->
                 IF a \in DOMAIN history' THEN history'[a] ELSE pool'[a]]
  BY DEF Kept, union_dedup
<1>6. CASE flags.load
  <2>1. history' = NoProxies /\ pool' = Admitted(P, flags)
    BY <1>2, <1>6 DEF Fill
  <2>2. pool' = [a \in {b \in DOMAIN P : flags.countries => P[b].listed} |-> P[a]]
    BY <2>1 DEF Admitted, country_ok
  <2>3. ArePooled(pool') /\ ArePooled(history')
    BY <1>3, <1>4, <2>1, <2>2 DEF ArePooled
  <2>4. ~flags.countries => \A a \in DOMAIN h : a \in DOMAIN Kept' /\ Kept'[a] = h[a]
    BY <1>3, <1>4, <1>5, <2>1, <2>2
  <2>. QED BY <1>1, <2>3, <2>4 DEF ArePooled
<1>7. CASE ~flags.load
  <2>1. history' = h /\ pool' = NoProxies
    BY <1>7 DEF Fill
  <2>2. ArePooled(pool') /\ ArePooled(history')
    BY <1>4, <2>1
  <2>3. \A a \in DOMAIN h : a \in DOMAIN Kept' /\ Kept'[a] = h[a]
    BY <1>5, <2>1
  <2>. QED BY <1>1, <2>2, <2>3 DEF ArePooled
<1>. QED BY <1>6, <1>7

LEMMA OpenKeeps ==
  ASSUME IInv, open_state
  PROVE  IInv'
<1>. USE DEF IInv
<1>1. UNCHANGED <<backend, rows, held, task, checks>>
  BY DEF open_state
<1>2. remembered' = IF Durable THEN Acked ELSE {}
  BY DEF open_state
<1>3. TasksInv'
  BY <1>1, <1>2, StillTasks
<1>4. RowsInv'
  BY <1>1, StillKeeps, RowsKept DEF TasksInv
<1>5. (remembered \subseteq Acked)'
  BY <1>1, <1>2 DEF Acked
<1>6. remembered' \subseteq Acked
  BY <1>2 DEF Acked
<1>7. args' \in [load : BOOLEAN, countries : BOOLEAN]
  BY HistoryAssumption DEF open_state
<1>8. CASE backend = "redis"
  <2>1. /\ phase' = "loading" /\ todo' = DOMAIN rows
        /\ history' = NoProxies /\ pool' = NoProxies /\ found' = {}
    BY <1>8 DEF open_state
  <2>2. \A i \in remembered' : checks[i].addr \in todo'
    <3>. HIDE DEF IInv
    <3>. QED BY <1>6, <2>1, AckedHasRow
  <2>3. PoolInv'
    BY <1>1, <1>5, <1>8, <2>1, <2>2 DEF PoolInv, Running, NoProxies
  <2>4. TypeOK'
    BY <1>1, <1>7, <2>1 DEF TypeOK, ArePooled, NoProxies, Row
  <2>. QED BY <1>3, <1>4, <2>3, <2>4
<1>9. CASE backend # "redis"
  <2>1. PICK P : P = [a \in DOMAIN rows |-> restored(rows[a])]
    OBVIOUS
  <2>2. Fill(P, args') /\ UNCHANGED todo
    BY <1>9, <2>1 DEF open_state
  <2>3. ArePooled(P)
    BY <2>1, RestoredTyped DEF ArePooled, TypeOK
  <2>4. /\ ArePooled(history)' /\ ArePooled(pool)' /\ found' = {} /\ phase' = "filling"
        /\ ~args'.countries => \A a \in DOMAIN P : a \in DOMAIN Kept' /\ Kept'[a] = P[a]
    <3>. HIDE DEF IInv
    <3>1. PICK flags : flags = args'
      OBVIOUS
    <3>. QED BY <1>7, <2>2, <2>3, <3>1, FillKeeps
  <2>5. ASSUME NEW i \in remembered', ~args'.countries
        PROVE  Warm(i)'
    <3>. HIDE DEF IInv
    <3>1. i \in Acked
      BY <1>6
    <3>2. checks[i].addr \in DOMAIN rows
      BY <3>1, AckedHasRow
    <3>3. /\ checks[i].addr \in DOMAIN Kept'
          /\ Kept'[checks[i].addr] = restored(rows[checks[i].addr])
      BY <2>1, <2>4, <2>5, <3>2
    <3>. QED BY <1>1, <1>6, <3>1, <3>3, ReadIsWarm
  <2>6. (~args.countries => \A i \in remembered : Warm(i))'
    BY <2>5
  <2>7. PoolInv'
    BY <1>5, <2>4, <2>6 DEF PoolInv
  <2>8. TypeOK'
    BY <1>1, <1>7, <2>2, <2>4 DEF TypeOK, Row
  <2>. QED BY <1>3, <1>4, <2>7, <2>8
<1>. QED BY <1>8, <1>9

LEMMA LoadHashKeeps ==
  ASSUME IInv, NEW a \in Addr, LoadHash(a)
  PROVE  IInv'
<1>. USE DEF IInv
<1>1. UNCHANGED <<backend, rows, phase, args, pool, found, held, task, checks, starts,
                  remembered>>
  BY DEF LoadHash
<1>2. phase = "loading" /\ a \in todo /\ todo' = todo \ {a}
  BY DEF LoadHash
<1>3. history' = [b \in DOMAIN history \cup {a} |->
                    IF b = a THEN restored(rows[a]) ELSE history[b]]
  BY DEF LoadHash
<1>4. a \in DOMAIN rows
  BY <1>2 DEF PoolInv
<1>5. TasksInv'
  BY <1>1, StillTasks DEF TasksInv, MemoryAlone
<1>6. Keeps /\ CommitsOnly(0)
  BY <1>1, StillKeeps
<1>7. RowsInv'
  BY <1>1, <1>6, RowsKept DEF TasksInv
<1>8. remembered \subseteq Acked
  BY DEF PoolInv
<1>9. ASSUME NEW i \in remembered, checks[i].addr = a
      PROVE  Warm(i)'
  <2>1. checks[i].addr \in DOMAIN Kept' /\ Kept'[checks[i].addr] = restored(rows[checks[i].addr])
    BY <1>3, <1>9 DEF Kept, union_dedup
  <2>2. i \in Acked /\ remembered' \subseteq Acked
    BY <1>1, <1>8
  <2>. HIDE DEF IInv
  <2>. QED BY <1>1, <2>1, <2>2, ReadIsWarm
<1>10. ASSUME NEW i \in remembered, checks[i].addr # a, Warm(i)
       PROVE  Warm(i)'
  <2>1. checks[i].addr \in DOMAIN Kept
    BY <1>10 DEF Warm
  <2>2. checks[i].addr \in DOMAIN Kept' /\ Kept'[checks[i].addr] = Kept[checks[i].addr]
    BY <1>1, <1>3, <1>10, <2>1 DEF Kept, union_dedup
  <2>. QED BY <1>1, <1>6, <1>8, <1>10, <2>2, WarmKept
<1>11. PoolInv'
  <2>1. (remembered \subseteq Acked)'
    BY <1>1, <1>8 DEF Acked
  <2>2. backend = "redis" /\ todo \subseteq DOMAIN rows /\ pool = NoProxies
        /\ \A i \in remembered : checks[i].addr \in todo \/ Warm(i)
    BY <1>2 DEF PoolInv
  <2>3. (\A i \in remembered : checks[i].addr \in todo \/ Warm(i))'
    BY <1>1, <1>2, <1>9, <1>10, <2>2
  <2>. QED BY <1>1, <1>2, <2>1, <2>2, <2>3 DEF PoolInv, Running, NoProxies
<1>12. TypeOK'
  <2>1. restored(rows[a]).requests \in Nat /\ restored(rows[a]).ewma \in 0..Scale
    BY <1>4, RestoredTyped DEF TypeOK
  <2>2. ArePooled(history)' /\ ArePooled(pool)'
    BY <1>1, <1>3, <2>1 DEF TypeOK, ArePooled
  <2>. QED BY <1>1, <1>2, <2>2 DEF TypeOK, Row
<1>. QED BY <1>5, <1>7, <1>11, <1>12

LEMMA EndLoadKeeps ==
  ASSUME IInv, EndLoad
  PROVE  IInv'
<1>. USE DEF IInv
<1>1. UNCHANGED <<backend, rows, todo, args, held, task, checks, starts, remembered>>
  BY DEF EndLoad
<1>2. phase = "loading" /\ todo = {} /\ Fill(history, args)
  BY DEF EndLoad
<1>3. TasksInv'
  BY <1>1, StillTasks DEF TasksInv, MemoryAlone
<1>4. Keeps /\ CommitsOnly(0)
  BY <1>1, StillKeeps
<1>5. RowsInv'
  BY <1>1, <1>4, RowsKept DEF TasksInv
<1>6. /\ ArePooled(history)' /\ ArePooled(pool)' /\ found' = {} /\ phase' = "filling"
      /\ ~args.countries => \A a \in DOMAIN history : a \in DOMAIN Kept' /\ Kept'[a] = history[a]
  <2>1. ArePooled(history) /\ args \in [load : BOOLEAN, countries : BOOLEAN]
    BY DEF TypeOK
  <2>2. PICK h, flags : h = history /\ flags = args
    OBVIOUS
  <2>. HIDE DEF IInv
  <2>. QED BY <1>2, <2>1, <2>2, FillKeeps
<1>7. /\ remembered \subseteq Acked /\ \A i \in remembered : Warm(i)
      /\ pool = NoProxies
  BY <1>2 DEF PoolInv
<1>8. ASSUME NEW i \in remembered, ~args.countries
      PROVE  Warm(i)'
  <2>1. checks[i].addr \in DOMAIN history /\ Kept[checks[i].addr] = history[checks[i].addr]
    BY <1>7 DEF Warm, Kept, union_dedup, NoProxies
  <2>2. checks[i].addr \in DOMAIN Kept' /\ Kept'[checks[i].addr] = Kept[checks[i].addr]
    BY <1>6, <1>8, <2>1
  <2>. QED BY <1>1, <1>4, <1>7, <2>2, WarmKept
<1>9. PoolInv'
  <2>1. (remembered \subseteq Acked)'
    BY <1>1, <1>7 DEF Acked
  <2>2. (~args.countries => \A i \in remembered : Warm(i))'
    BY <1>1, <1>8
  <2>. QED BY <1>6, <2>1, <2>2 DEF PoolInv
<1>10. TypeOK'
  BY <1>1, <1>6 DEF TypeOK, Row
<1>. QED BY <1>3, <1>5, <1>9, <1>10

\* A step of the importer: what was kept is kept, unless the screen rejects it.
LEMMA ImportKeeps ==
  ASSUME IInv, UNCHANGED <<backend, rows, phase, todo, args, held, task, checks, starts, remembered>>,
         Running, ArePooled(history)', ArePooled(pool)', found' \subseteq Addr,
         ~args.countries => Kept' = Kept
  PROVE  IInv'
<1>. USE DEF IInv
<1>1. TasksInv'
  BY StillTasks DEF TasksInv, MemoryAlone
<1>2. Keeps /\ CommitsOnly(0)
  BY StillKeeps
<1>3. RowsInv'
  BY <1>2, RowsKept DEF TasksInv
<1>4. remembered \subseteq Acked
  BY DEF PoolInv
<1>5. ASSUME NEW i \in remembered, ~args.countries
      PROVE  Warm(i)'
  <2>1. Warm(i)
    BY <1>5 DEF PoolInv
  <2>2. checks[i].addr \in DOMAIN Kept' /\ Kept'[checks[i].addr] = Kept[checks[i].addr]
    BY <1>5, <2>1 DEF Warm
  <2>. QED BY <1>2, <1>4, <2>1, <2>2, WarmKept
<1>6. PoolInv'
  <2>1. (remembered \subseteq Acked)'
    BY <1>4 DEF Acked
  <2>2. (~args.countries => \A i \in remembered : Warm(i))'
    BY <1>5
  <2>. QED BY <2>1, <2>2 DEF PoolInv, Running
<1>7. TypeOK'
  BY DEF TypeOK, Row
<1>. QED BY <1>1, <1>3, <1>6, <1>7

LEMMA ImportHistoryKeeps ==
  ASSUME IInv, NEW a \in Addr, ImportHistory(a)
  PROVE  IInv'
<1>1. /\ UNCHANGED <<backend, rows, phase, todo, args, found, held, task, checks, starts, remembered>>
      /\ Running /\ a \in DOMAIN history
      /\ history' = [b \in DOMAIN history \ {a} |-> history[b]]
      /\ pool' = IF country_ok(history[a], args)
                   THEN [b \in DOMAIN pool \cup {a} |-> IF b = a THEN history[a] ELSE pool[b]]
                   ELSE pool
  BY DEF ImportHistory
<1>2. ArePooled(history) /\ ArePooled(pool) /\ found \subseteq Addr
  BY DEF IInv, TypeOK
<1>3. ArePooled(history')
  BY <1>1, <1>2 DEF ArePooled
<1>4. ArePooled(pool')
  BY <1>1, <1>2 DEF ArePooled
<1>5. ASSUME ~args.countries PROVE Kept' = Kept
  <2>1. pool' = [b \in DOMAIN pool \cup {a} |-> IF b = a THEN history[a] ELSE pool[b]]
    BY <1>1, <1>5 DEF country_ok
  <2>. QED BY <1>1, <2>1 DEF Kept, union_dedup
<1>. QED BY <1>1, <1>2, <1>3, <1>4, <1>5, ImportKeeps DEF ArePooled

LEMMA ImportFoundKeeps ==
  ASSUME IInv, NEW a \in Addr, ImportFound(a)
  PROVE  IInv'
<1>1. /\ UNCHANGED <<backend, rows, phase, todo, args, held, task, checks, starts, remembered>>
      /\ UNCHANGED <<history, pool>> /\ Running /\ found' = found \cup {a}
  BY DEF ImportFound
<1>2. ArePooled(history) /\ ArePooled(pool) /\ found \subseteq Addr
  BY DEF IInv, TypeOK
<1>3. ArePooled(history)' /\ ArePooled(pool)' /\ found' \subseteq Addr
  BY <1>1, <1>2 DEF ArePooled
<1>4. Kept' = Kept
  BY <1>1 DEF Kept, union_dedup
<1>. QED BY <1>1, <1>3, <1>4, ImportKeeps

LEMMA RecheckStoreKeeps ==
  ASSUME IInv, recheck_store
  PROVE  IInv'
<1>. USE DEF IInv
<1>1. UNCHANGED <<backend, rows, todo, fillVars, held, task, checks, starts, remembered>>
  BY DEF recheck_store
<1>2. phase = "filling" /\ phase' = "serving"
  BY DEF recheck_store
<1>3. TasksInv'
  BY <1>1, StillTasks DEF TasksInv, MemoryAlone
<1>4. Keeps /\ CommitsOnly(0)
  BY <1>1, StillKeeps
<1>5. RowsInv'
  BY <1>1, <1>4, RowsKept DEF TasksInv
<1>6. /\ remembered \subseteq Acked
      /\ ~args.countries => \A i \in remembered : Warm(i)
  BY <1>2 DEF PoolInv, Running
<1>7. ASSUME NEW i \in remembered, ~args.countries
      PROVE  Warm(i)'
  <2>0. Kept' = Kept
    BY <1>1 DEF Kept, union_dedup, fillVars
  <2>1. checks[i].addr \in DOMAIN Kept' /\ Kept'[checks[i].addr] = Kept[checks[i].addr]
    BY <1>6, <1>7, <2>0 DEF Warm
  <2>. QED BY <1>1, <1>4, <1>6, <1>7, <2>1, WarmKept
<1>8. PoolInv'
  <2>1. (remembered \subseteq Acked)'
    BY <1>1, <1>6 DEF Acked
  <2>2. (~args.countries => \A i \in remembered : Warm(i))'
    BY <1>1, <1>7 DEF fillVars
  <2>. QED BY <1>2, <2>1, <2>2 DEF PoolInv, Running
<1>9. TypeOK'
  BY <1>1, <1>2 DEF TypeOK, Row, fillVars, ArePooled
<1>. QED BY <1>3, <1>5, <1>8, <1>9

\* The tasks of the process end with it; what they committed stays.
LEMMA ProcessEndsKeeps ==
  ASSUME IInv, ProcessEnds
  PROVE  IInv'
<1>. USE DEF IInv
<1>1. /\ UNCHANGED <<backend, starts, remembered>>
      /\ phase' = "down" /\ todo' = {} /\ args' = NoFlags
      /\ history' = NoProxies /\ pool' = NoProxies /\ found' = {}
  BY DEF ProcessEnds
<1>2. task' = [t \in Task |-> IF t \in Ours THEN Idle ELSE task[t]]
  BY DEF ProcessEnds
<1>3. \A t \in Task : task'[t] = Idle \/ task'[t] = task[t]
  BY <1>2
<1>4. task' \in [Task -> TaskType]
  BY <1>2 DEF TasksInv, TaskType
<1>5. Idle.at = "idle"
  BY DEF Idle
<1>6. held' \in [Conn -> BOOLEAN]
  BY DEF ProcessEnds, TypeOK
<1>7. MemoryAlone'
  BY <1>1, <1>3, <1>5 DEF TasksInv, MemoryAlone, Durable
<1>8. CASE Durable
  <2>1. rows' = rows /\ checks' = checks
    BY <1>8 DEF ProcessEnds
  <2>2. TaskOwns'
    BY <1>3, <1>5, <2>1 DEF TasksInv, TaskOwns
  <2>3. TaskApart'
    BY <1>3, <1>5 DEF TasksInv, TaskApart
  <2>4. Keeps
    <3>1. ASSUME NEW i \in DOMAIN checks, Settled(i)
          PROVE  Settled(i)'
      BY <1>1, <1>3, <1>5, <2>1, <3>1 DEF Settled
    <3>. QED BY <1>1, <2>1, <3>1 DEF Keeps
  <2>5. CommitsOnly(0)
    BY <1>3, <1>5, <2>1 DEF CommitsOnly, Committed
  <2>6. RowsInv'
    BY <2>1, <2>4, <2>5, RowsKept DEF TasksInv
  <2>7. PoolInv'
    BY <1>1, <2>1 DEF PoolInv, Acked, Running
  <2>8. TypeOK'
    BY <1>1, <1>6, <2>1 DEF TypeOK, NoProxies, NoFlags, ArePooled, Row
  <2>. QED BY <1>4, <1>7, <2>1, <2>2, <2>3, <2>6, <2>7, <2>8 DEF TasksInv
<1>9. CASE ~Durable
  <2>1. rows' = NoProxies /\ checks' = <<>>
    BY <1>9 DEF ProcessEnds
  <2>2. remembered = {} /\ \A t \in Task : task'[t].at = "idle"
    BY <1>2, <1>5, <1>9 DEF TasksInv, MemoryAlone, Ours
  <2>3. TaskOwns' /\ TaskApart'
    BY <2>2 DEF TaskOwns, TaskApart
  <2>4. RowsInv'
    BY <2>1 DEF RowsInv, NoProxies
  <2>5. PoolInv'
    BY <1>1, <2>2 DEF PoolInv, Running
  <2>6. TypeOK'
    BY <1>1, <1>6, <2>1 DEF TypeOK, NoProxies, NoFlags, ArePooled, Row
  <2>7. checks' \in Seq(Check)
    BY <2>1
  <2>. QED BY <1>4, <1>7, <2>3, <2>4, <2>5, <2>6, <2>7 DEF TasksInv
<1>. QED BY <1>8, <1>9

LEMMA InitHolds == Init => IInv
<1>1. SUFFICES ASSUME Init PROVE IInv
  OBVIOUS
<1>2. TypeOK
  BY <1>1 DEF Init, TypeOK, NoProxies, NoFlags, ArePooled, Conn
<1>3. \A t \in Task : task[t].at = "idle"
  BY <1>1 DEF Init, Idle
<1>4. TasksInv
  <2>1. task \in [Task -> TaskType]
    BY <1>1 DEF Init, TaskType
  <2>2. checks \in Seq(Check)
    BY <1>1 DEF Init
  <2>3. remembered = {}
    BY <1>1 DEF Init
  <2>. QED BY <1>3, <2>1, <2>2, <2>3 DEF TasksInv, TaskOwns, TaskApart, MemoryAlone
<1>5. RowsInv
  BY <1>1 DEF Init, RowsInv, NoProxies
<1>6. PoolInv
  BY <1>1 DEF Init, PoolInv, Running
<1>. QED BY <1>2, <1>4, <1>5, <1>6 DEF IInv

LEMMA NextKeeps ==
  ASSUME IInv, [Next]_vars
  PROVE  IInv'
<1>1. CASE open_state
  BY <1>1, OpenKeeps
<1>2. ASSUME NEW a \in Addr, LoadHash(a) PROVE IInv'
  BY <1>2, LoadHashKeeps
<1>3. CASE EndLoad
  BY <1>3, EndLoadKeeps
<1>4. CASE recheck_store
  BY <1>4, RecheckStoreKeeps
<1>5. CASE ProcessEnds
  BY <1>5, ProcessEndsKeeps
<1>6. ASSUME NEW t \in Task, CheckEnds(t) PROVE IInv'
  BY <1>6, CheckEndsKeeps
<1>7. ASSUME NEW t \in Task, Lock(t) PROVE IInv'
  BY <1>7, LockKeeps
<1>8. ASSUME NEW t \in Task, Commit(t) PROVE IInv'
  BY <1>8, CommitKeeps
<1>9. ASSUME NEW t \in Task, Return(t) PROVE IInv'
  BY <1>9, ReturnKeeps
<1>10. ASSUME NEW t \in Task, Busy(t) PROVE IInv'
  BY <1>10, BusyKeeps
<1>11. ASSUME NEW t \in Task, Refused(t) PROVE IInv'
  BY <1>11, RefusedKeeps
<1>12. ASSUME NEW t \in Task, ReplyLost(t) PROVE IInv'
  BY <1>12, ReplyLostKeeps
<1>13. ASSUME NEW t \in Task, Silence(t) PROVE IInv'
  BY <1>13, SilenceKeeps
<1>14. ASSUME NEW a \in Addr, ImportHistory(a) \/ ImportFound(a) PROVE IInv'
  BY <1>14, ImportHistoryKeeps, ImportFoundKeeps
<1>15. CASE UNCHANGED vars
  <2>. USE DEF IInv
  <2>1. UNCHANGED <<backend, rows, phase, todo, fillVars, held, task, checks, starts, remembered>>
    BY <1>15 DEF vars
  <2>2. TasksInv'
    BY <2>1, StillTasks DEF TasksInv, MemoryAlone
  <2>3. Keeps /\ CommitsOnly(0)
    BY <2>1, StillKeeps
  <2>4. RowsInv'
    BY <2>1, <2>3, RowsKept DEF TasksInv
  <2>5. PoolInv'
    BY <2>1, <2>3, PoolKept DEF Acked
  <2>6. TypeOK'
    BY <2>1 DEF TypeOK, Row, fillVars, ArePooled
  <2>. QED BY <2>2, <2>4, <2>5, <2>6
<1>. QED BY <1>1, <1>2, <1>3, <1>4, <1>5, <1>6, <1>7, <1>8, <1>9, <1>10, <1>11, <1>12,
            <1>13, <1>14, <1>15 DEF Next
-----------------------------------------------------------------------------
(* The properties.                                                          *)

LEMMA HistoryInductive == Spec => []IInv
BY InitHolds, NextKeeps, PTL DEF Spec

\* A set with an injective list of its members has as many as the list.
LEMMA LogCounts ==
  ASSUME NEW n \in Nat, NEW S, NEW q \in [1..n -> S],
         \A k, m \in 1..n : q[k] = q[m] => k = m,
         \A i \in S : \E k \in 1..n : q[k] = i
  PROVE  Cardinality(S) = n
<1>1. IsFiniteSet(1..n) /\ Cardinality(1..n) = n
  <2>1. IsFiniteSet(1..n) /\ Cardinality(1..n) = IF 1 > n THEN 0 ELSE n - 1 + 1
    BY 1 \in Int, n \in Int, FS_Interval
  <2>. QED BY <2>1
<1>2. q \in Surjection(1..n, S)
  BY DEF Surjection
<1>3. q \in Injection(1..n, S)
  BY DEF Injection, IsInjective
<1>. QED BY <1>1, <1>2, <1>3, FS_Surjection

\* A log is an order of the set of checks in it, so it explains its fold.
LEMMA LogExplains ==
  ASSUME NEW q \in Order, NEW a, IsLog(q, a), NEW must,
         \A i \in must : checks[i].addr = a => Lists(q, i)
  PROVE  Folds(SamplesOf(q)) \in Explanations(a, must)
<1>. DEFINE S == {q[k] : k \in DOMAIN q}
            n == Len(q)
<1>0. q \in Seq(Nat) /\ q # <<>>
  BY DEF Order, IsLog
<1>1. n \in Nat /\ n # 0 /\ DOMAIN q = 1..n
  BY <1>0
<1>2. q \in [1..n -> S]
  <2>1. q = [k \in 1..n |-> q[k]]
    BY <1>0
  <2>2. \A k \in 1..n : q[k] \in S
    BY <1>1
  <2>. HIDE DEF S, n
  <2>. QED BY <2>1, <2>2
<1>3. \A k, m \in 1..n : q[k] = q[m] => k = m
  BY <1>1 DEF IsLog
<1>4. \A i \in S : \E k \in 1..n : q[k] = i
  BY <1>1
<1>5. S # {}
  <2>1. 1 \in DOMAIN q
    BY <1>1
  <2>2. q[1] \in S
    BY <2>1
  <2>. QED BY <2>2
<1>6. \A i \in S : /\ i \in DOMAIN checks
                   /\ checks[i].addr = a
                   /\ checks[i].verdict = "err" => backend = "redis"
  BY DEF IsLog, Settled
<1>7. {i \in must : checks[i].addr = a} \subseteq S
  BY DEF Lists
<1>. HIDE DEF S, n
<1>8. Cardinality(S) = n
  BY <1>1, <1>2, <1>3, <1>4, LogCounts
<1>9. q \in SetToSeqs(S)
  BY <1>2, <1>3, <1>8 DEF SetToSeqs
<1>. QED BY <1>5, <1>6, <1>7, <1>9 DEF Explanations, SamplesOf

\* Every row holds each acknowledged check exactly once and no check twice,
\* whatever the backend, the tasks' interleaving, the retries, the lost replies
\* and the points at which the process ended.
THEOREM HistoryRowsExplained == Spec => []RowsExplained
<1>1. IInv => RowsExplained
  <2>1. SUFFICES ASSUME IInv, NEW a \in Addr
                 PROVE  IF a \in DOMAIN rows
                          THEN rows[a] \in Explanations(a, Acked)
                          ELSE \A i \in Acked : checks[i].addr # a
    BY DEF RowsExplained, IInv
  <2>2. CASE a \notin DOMAIN rows
    BY <2>1, <2>2, AckedHasRow
  <2>3. CASE a \in DOMAIN rows
    <3>1. PICK q \in Order : LogOfRow(q, a)
      BY <2>1, <2>3 DEF IInv, RowsInv
    <3>2. \A i \in Acked : checks[i].addr = a => Lists(q, i)
      BY <3>1 DEF LogOfRow, Committed, Acked
    <3>3. Folds(SamplesOf(q)) \in Explanations(a, Acked)
      BY <3>1, <3>2, LogExplains DEF LogOfRow
    <3>. QED BY <2>3, <3>1, <3>3 DEF LogOfRow
  <2>. QED BY <2>2, <2>3
<1>. QED BY <1>1, HistoryInductive, PTL

\* Without a country allow-list, a warm start forgets nothing acknowledged
\* before it: every such address is pooled or queued for the importer, and its
\* proxy carries what its checks fold to, whatever the --load file or the live
\* find says of it.
THEOREM HistoryWarmStart == Spec => []WarmStartRemembers
<1>1. IInv => WarmStartRemembers
  <2>1. SUFFICES ASSUME IInv, Running, ~args.countries, NEW i \in remembered,
                        NEW a, a = checks[i].addr
                 PROVE  a \in DOMAIN Kept /\ \E x \in Explanations(a, remembered) : Shows(Kept[a], x)
    BY DEF WarmStartRemembers
  <2>2. Warm(i)
    BY <2>1 DEF IInv, PoolInv
  <2>3. PICK q \in Order : LogOfProxy(q, a)
    BY <2>1, <2>2 DEF Warm
  <2>4. Folds(SamplesOf(q)) \in Explanations(a, remembered)
    BY <2>3, LogExplains DEF LogOfProxy
  <2>5. a \in DOMAIN Kept
    BY <2>1, <2>2 DEF Warm
  <2>. QED BY <2>3, <2>4, <2>5 DEF LogOfProxy
<1>. QED BY <1>1, HistoryInductive, PTL
-----------------------------------------------------------------------------
(* What the fold computes.                                                  *)

\* What holds for the first sample and carries over from each to the next
\* holds for all.
LEMMA AlongTheRun ==
  ASSUME NEW n \in Nat, NEW P, 1 \in P,
         \A k \in 2..n : k - 1 \in P => k \in P
  PROVE  \A k \in 1..n : k \in P
<1>. DEFINE Odd == {k \in 1..n : k \notin P}
<1>1. SUFFICES ASSUME Odd # {}
               PROVE  FALSE
  OBVIOUS
<1>2. PICK k \in Odd : \A m \in Odd : k <= m
  <2>1. Odd \subseteq Nat
    OBVIOUS
  <2>. QED BY <1>1, <2>1, LeastIndex
<1>3. k \in 1..n /\ k \notin P
  BY <1>2
<1>4. k \in 2..n /\ k - 1 \in 1..n /\ ~(k <= k - 1)
  BY <1>3
<1>5. k - 1 \in P
  BY <1>2, <1>4
<1>. HIDE DEF Odd
<1>. QED BY <1>3, <1>4, <1>5

\* types are those of the latest sample among the first n that worked.
IsLatest(q, n, types) ==
  \/ types = {} /\ \A k \in 1..n : ~is_working(q[k])
  \/ \E k \in 1..n : /\ is_working(q[k]) /\ types = q[k].types
                     /\ \A m \in (k + 1)..n : ~is_working(q[m])

\* The types of a row are those of the latest sample that worked, whatever
\* failures came after it; they are empty only if none ever worked.
THEOREM FoldsKeepLatestTypes ==
  ASSUME NEW S, NEW q \in Seq(S), q # <<>>
  PROVE  IsLatest(q, Len(q), Folds(q).types)
<1>. DEFINE n == Len(q)
<1>1. n \in Nat /\ n # 0
  OBVIOUS
<1>2. PICK f : Runs(f, q, n) /\ Folds(q) = f[n]
  BY FoldsIsRun
<1>. HIDE DEF n
<1>3. \A k \in 1..n : f[k] = IF k = 1 THEN inserted(q[1]) ELSE folded(f[k - 1], q[k])
  BY <1>2 DEF Runs
<1>4. f[1].types = q[1].types
  BY <1>1, <1>3 DEF inserted
<1>5. \A k \in 2..n : f[k].types = IF is_working(q[k]) THEN q[k].types ELSE f[k - 1].types
  <2>1. ASSUME NEW k \in 2..n
        PROVE  f[k].types = IF is_working(q[k]) THEN q[k].types ELSE f[k - 1].types
    <3>1. f[k] = folded(f[k - 1], q[k])
      BY <1>1, <1>3
    <3>. QED BY <3>1 DEF folded
  <2>. QED BY <2>1
<1>. DEFINE P == {k \in 1..n : IsLatest(q, k, f[k].types)}
<1>6. 1 \in P
  <2>1. CASE is_working(q[1])
    <3>1. \A m \in (1 + 1)..1 : FALSE
      OBVIOUS
    <3>2. 1 \in 1..1 /\ 1 \in 1..n
      BY <1>1
    <3>. QED BY <1>4, <2>1, <3>1, <3>2 DEF IsLatest
  <2>2. CASE ~is_working(q[1])
    <3>1. f[1].types = {} /\ \A k \in 1..1 : ~is_working(q[k])
      BY <1>4, <2>2 DEF is_working
    <3>2. 1 \in 1..n
      BY <1>1
    <3>. QED BY <3>1, <3>2 DEF IsLatest
  <2>. QED BY <2>1, <2>2
<1>7. ASSUME NEW k \in 2..n, k - 1 \in P
      PROVE  k \in P
  <2>1. k \in 1..n /\ IsLatest(q, k - 1, f[k - 1].types)
    BY <1>1, <1>7
  <2>2. CASE is_working(q[k])
    <3>1. k \in 1..k /\ \A m \in (k + 1)..k : FALSE
      BY <1>1
    <3>2. f[k].types = q[k].types
      BY <1>5, <2>2
    <3>3. IsLatest(q, k, f[k].types)
      BY <2>2, <3>1, <3>2 DEF IsLatest
    <3>. QED BY <2>1, <3>3
  <2>3. CASE ~is_working(q[k])
    <3>1. f[k].types = f[k - 1].types
      BY <1>5, <2>3
    <3>2. \A m \in 1..k : m \in 1..(k - 1) \/ m = k
      BY <1>1
    <3>3. \A m \in 1..(k - 1) : m \in 1..k
      BY <1>1
    <3>4. \A l \in 1..(k - 1) : \A m \in (l + 1)..k : m \in (l + 1)..(k - 1) \/ m = k
      BY <1>1
    <3>5. CASE f[k - 1].types = {} /\ \A m \in 1..(k - 1) : ~is_working(q[m])
      <4>1. f[k].types = {} /\ \A m \in 1..k : ~is_working(q[m])
        BY <2>3, <3>1, <3>2, <3>5
      <4>2. IsLatest(q, k, f[k].types)
        BY <4>1 DEF IsLatest
      <4>. QED BY <2>1, <4>2
    <3>6. CASE \E l \in 1..(k - 1) : /\ is_working(q[l]) /\ f[k - 1].types = q[l].types
                                     /\ \A m \in (l + 1)..(k - 1) : ~is_working(q[m])
      <4>1. PICK l \in 1..(k - 1) : /\ is_working(q[l]) /\ f[k - 1].types = q[l].types
                                    /\ \A m \in (l + 1)..(k - 1) : ~is_working(q[m])
        BY <3>6
      <4>2. l \in 1..k /\ \A m \in (l + 1)..k : ~is_working(q[m])
        BY <2>3, <3>3, <3>4, <4>1
      <4>3. IsLatest(q, k, f[k].types)
        BY <3>1, <4>1, <4>2 DEF IsLatest
      <4>. QED BY <2>1, <4>3
    <3>. QED BY <2>1, <3>5, <3>6 DEF IsLatest
  <2>. QED BY <2>2, <2>3
<1>8. n \in P
  <2>. HIDE DEF P
  <2>1. \A k \in 1..n : k \in P
    BY <1>1, <1>6, <1>7, AlongTheRun
  <2>. QED BY <1>1, <2>1
<1>. QED BY <1>2, <1>8 DEF n

\* The success average is a probability, and the latency average lies between
\* bounds of the latencies measured: a zero latency counts only when it seeds.
THEOREM FoldsAverageWithin ==
  ASSUME NEW S, NEW q \in Seq(S), q # <<>>, NEW lo \in Nat, NEW hi \in Nat,
         \A k \in 1..Len(q) : /\ q[k].latency \in Nat
                              /\ q[k].latency * Scale \in lo..hi \/ (k # 1 /\ q[k].latency = 0)
  PROVE  Folds(q).latency \in lo..hi /\ Folds(q).ewma \in 0..Scale
<1>. DEFINE n == Len(q)
            ms(k) == q[k].latency * Scale
<1>1. n \in Nat /\ n # 0 /\ Scale \in Nat
  BY ScaleAssumption
<1>2. PICK f : Runs(f, q, n) /\ Folds(q) = f[n]
  BY FoldsIsRun
<1>3. \A k \in 1..n : /\ q[k].latency \in Nat
                      /\ ms(k) \in lo..hi \/ (k # 1 /\ q[k].latency = 0)
  OBVIOUS
<1>. HIDE DEF n
<1>4. \A k \in 1..n : f[k] = IF k = 1 THEN inserted(q[1]) ELSE folded(f[k - 1], q[k])
  BY <1>2 DEF Runs
<1>5. f[1].latency = ms(1) /\ f[1].ewma = success(q[1])
  BY <1>1, <1>4 DEF inserted
<1>6. ASSUME NEW k \in 2..n
      PROVE  /\ f[k].latency = IF q[k].latency > 0 THEN fold_ewma(f[k - 1].latency, ms(k))
                                                   ELSE f[k - 1].latency
             /\ f[k].ewma = fold_ewma(f[k - 1].ewma, success(q[k]))
  <2>1. f[k] = folded(f[k - 1], q[k])
    BY <1>1, <1>4
  <2>. QED BY <2>1 DEF folded
<1>. HIDE DEF ms
<1>7. \A k \in 1..n : success(q[k]) \in 0..Scale
  BY <1>1 DEF success
<1>. DEFINE P == {k \in 1..n : f[k].latency \in lo..hi /\ f[k].ewma \in 0..Scale}
<1>8. 1 \in P
  BY <1>1, <1>3, <1>5, <1>7
<1>9. ASSUME NEW k \in 2..n, k - 1 \in P
      PROVE  k \in P
  <2>1. f[k - 1].latency \in lo..hi /\ f[k - 1].ewma \in 0..Scale /\ k \in 1..n
    BY <1>1, <1>9
  <2>2. f[k].ewma \in 0..Scale
    <3>1. \A p, x \in 0..Scale : fold_ewma(p, x) \in 0..Scale
      BY <1>1, 0 \in Nat, AverageBetween
    <3>2. success(q[k]) \in 0..Scale
      BY <1>7, <2>1
    <3>3. f[k].ewma = fold_ewma(f[k - 1].ewma, success(q[k]))
      BY <1>6
    <3>. QED BY <2>1, <3>1, <3>2, <3>3
  <2>3. q[k].latency > 0 => ms(k) \in lo..hi
    BY <1>3, <2>1
  <2>4. f[k].latency \in lo..hi
    <3>1. \A p, x \in lo..hi : fold_ewma(p, x) \in lo..hi
      BY AverageBetween
    <3>2. f[k].latency = IF q[k].latency > 0 THEN fold_ewma(f[k - 1].latency, ms(k))
                                             ELSE f[k - 1].latency
      BY <1>6
    <3>. QED BY <2>1, <2>3, <3>1, <3>2
  <2>. QED BY <2>1, <2>2, <2>4
<1>10. n \in P
  <2>. HIDE DEF P
  <2>1. \A k \in 1..n : k \in P
    BY <1>1, <1>8, <1>9, AlongTheRun
  <2>. QED BY <1>1, <2>1
<1>. QED BY <1>2, <1>10 DEF n

\* Without an allow-list, an address with an acknowledged success is kept and
\* has types.
TypesSurvive ==
  Running /\ ~args.countries =>
    \A i \in remembered : is_working(checks[i].sample) =>
      checks[i].addr \in DOMAIN Kept /\ Kept[checks[i].addr].types # {}

\* After a warm start without a country allow-list, an address with an
\* acknowledged success is pooled or queued for the importer and has types to be
\* selected by, however many of its checks failed since.
THEOREM HistoryTypesSurvive == Spec => []TypesSurvive
<1>1. IInv => TypesSurvive
  <2>1. SUFFICES ASSUME IInv, Running, ~args.countries, NEW i \in remembered,
                        is_working(checks[i].sample), NEW a, a = checks[i].addr
                 PROVE  a \in DOMAIN Kept /\ Kept[a].types # {}
    BY DEF TypesSurvive
  <2>2. Warm(i)
    BY <2>1 DEF IInv, PoolInv
  <2>3. PICK q \in Order : LogOfProxy(q, a)
    BY <2>1, <2>2 DEF Warm
  <2>4. PICK k \in DOMAIN q : q[k] = i
    BY <2>1, <2>3 DEF LogOfProxy, Lists
  <2>. DEFINE p == SamplesOf(q)
              n == Len(q)
  <2>5. n \in Nat /\ n # 0 /\ DOMAIN q = 1..n
    BY <2>3 DEF LogOfProxy, IsLog, Order
  <2>6. p = [m \in 1..n |-> checks[q[m]].sample]
    BY <2>5 DEF SamplesOf
  <2>7. \A m \in 1..n : checks[q[m]].sample \in Sample
    <3>1. \A m \in 1..n : q[m] \in DOMAIN checks
      BY <2>3, <2>5 DEF LogOfProxy, IsLog, Settled
    <3>2. checks \in Seq(Check)
      BY <2>1 DEF IInv, TasksInv
    <3>. QED BY <3>1, <3>2, CheckTyped
  <2>8. p[k] = checks[i].sample /\ k \in 1..n
    BY <2>4, <2>5, <2>6
  <2>. HIDE DEF n, p
  <2>9. p \in Seq(Sample)
    BY <2>5, <2>6, <2>7
  <2>10. Len(p) = n /\ p # <<>>
    BY <2>5, <2>6
  <2>11. IsLatest(p, n, Folds(p).types)
    BY <2>9, <2>10, FoldsKeepLatestTypes
  <2>12. Folds(p).types # {}
    BY <2>1, <2>8, <2>11 DEF IsLatest, is_working
  <2>13. a \in DOMAIN Kept /\ Kept[a].types = Folds(p).types
    BY <2>1, <2>2, <2>3 DEF LogOfProxy, Warm, Shows, p
  <2>. QED BY <2>12, <2>13
<1>. QED BY <1>1, HistoryInductive, PTL

-----------------------------------------------------------------------------
(* The connections' locks.                                                  *)

Inside(t) == task[t].at \in {"writing", "committed", "silent"}

\* One task at a time is inside upsert on a connection, and a locked connection
\* has a task inside: no error, retry, lost reply or end of the process leaves
\* a lock behind that nobody holds.
LocksOwned ==
  /\ \A t \in Task : Inside(t) => held[ConnOf(t)]
  /\ \A t, u \in Task : Inside(t) /\ Inside(u) /\ ConnOf(t) = ConnOf(u) => t = u
  /\ \A c \in Conn : held[c] => \E t \in Task : ConnOf(t) = c /\ Inside(t)

\* Tasks that stay inside or outside, with the locks as they were.
LEMMA LocksStay ==
  ASSUME LocksOwned, UNCHANGED held, \A t \in Task : Inside(t)' <=> Inside(t)
  PROVE  LocksOwned'
BY DEF LocksOwned

LEMMA LocksTaken ==
  ASSUME LocksOwned, TypeOK, NEW t \in Task, ~held[ConnOf(t)], Inside(t)',
         held' = [held EXCEPT ![ConnOf(t)] = TRUE],
         \A u \in Task : u # t => (Inside(u)' <=> Inside(u))
  PROVE  LocksOwned'
<1>1. ConnOf(t) \in Conn /\ \A u \in Task : ConnOf(u) \in Conn
  BY DEF Conn
<1>2. held'[ConnOf(t)] /\ \A c \in Conn : c # ConnOf(t) => held'[c] = held[c]
  BY <1>1 DEF TypeOK
<1>3. \A u \in Task : ConnOf(u) = ConnOf(t) => ~Inside(u)
  BY DEF LocksOwned
<1>4. \A u \in Task : Inside(u)' => held'[ConnOf(u)]
  BY <1>1, <1>2 DEF LocksOwned
<1>5. \A u, w \in Task : Inside(u)' /\ Inside(w)' /\ ConnOf(u) = ConnOf(w) => u = w
  BY <1>3 DEF LocksOwned
<1>6. \A c \in Conn : held'[c] => \E u \in Task : ConnOf(u) = c /\ Inside(u)'
  BY <1>2, <1>3 DEF LocksOwned
<1>. QED BY <1>4, <1>5, <1>6 DEF LocksOwned

LEMMA LocksDropped ==
  ASSUME LocksOwned, TypeOK, NEW t \in Task, Inside(t), ~Inside(t)',
         held' = [held EXCEPT ![ConnOf(t)] = FALSE],
         \A u \in Task : u # t => (Inside(u)' <=> Inside(u))
  PROVE  LocksOwned'
<1>1. ConnOf(t) \in Conn /\ \A u \in Task : ConnOf(u) \in Conn
  BY DEF Conn
<1>2. ~held'[ConnOf(t)] /\ \A c \in Conn : c # ConnOf(t) => held'[c] = held[c]
  BY <1>1 DEF TypeOK
<1>3. \A u \in Task : u # t /\ ConnOf(u) = ConnOf(t) => ~Inside(u)
  BY DEF LocksOwned
<1>4. \A u \in Task : Inside(u)' => held'[ConnOf(u)]
  BY <1>1, <1>2, <1>3 DEF LocksOwned
<1>5. \A u, w \in Task : Inside(u)' /\ Inside(w)' /\ ConnOf(u) = ConnOf(w) => u = w
  BY DEF LocksOwned
<1>6. \A c \in Conn : held'[c] => \E u \in Task : ConnOf(u) = c /\ Inside(u)'
  <2>1. SUFFICES ASSUME NEW c \in Conn, held'[c]
                 PROVE  \E u \in Task : ConnOf(u) = c /\ Inside(u)'
    OBVIOUS
  <2>2. c # ConnOf(t) /\ held[c]
    BY <1>2, <2>1
  <2>3. PICK u \in Task : ConnOf(u) = c /\ Inside(u)
    BY <2>2 DEF LocksOwned
  <2>. QED BY <2>2, <2>3
<1>. QED BY <1>4, <1>5, <1>6 DEF LocksOwned

LEMMA TellDrops ==
  ASSUME IInv, LocksOwned, NEW t \in Task, Inside(t), NEW v, Tell(t, v)
  PROVE  LocksOwned'
<1>1. task' = [task EXCEPT ![t] = Idle] /\ held' = [held EXCEPT ![ConnOf(t)] = FALSE]
  BY DEF Tell
<1>2. task'[t] = Idle /\ \A u \in Task : u # t => task'[u] = task[u]
  BY <1>1 DEF IInv, TasksInv
<1>3. ~Inside(t)' /\ \A u \in Task : u # t => (Inside(u)' <=> Inside(u))
  BY <1>2 DEF Inside, Idle
<1>. QED BY <1>1, <1>3, LocksDropped DEF IInv

LEMMA LocksKept ==
  ASSUME IInv, LocksOwned, [Next]_vars
  PROVE  LocksOwned'
<1>1. CASE UNCHANGED <<task, held>>
  BY <1>1, LocksStay DEF Inside
<1>2. CASE ProcessEnds
  <2>1. \A t \in Task : Inside(t)' => t = "x" /\ Inside(t)
    BY <1>2 DEF ProcessEnds, Inside, Ours, Idle, Task
  <2>2. Inside("x")' <=> Inside("x")
    BY <1>2 DEF ProcessEnds, Inside, Ours, Idle, Task
  <2>3. \A c \in Conn : held'[c] <=> c = "x" /\ held[c]
    BY <1>2 DEF ProcessEnds
  <2>4. "x" \in Task /\ ConnOf("x") = "x" /\ "x" \in Conn
    BY DEF Task, Conn, ConnOf
  <2>5. \A t \in Task : ConnOf(t) = "x" => t = "x"
    BY DEF Task, ConnOf
  <2>6. \A t \in Task : Inside(t)' => held'[ConnOf(t)]
    BY <2>1, <2>3, <2>4 DEF LocksOwned
  <2>7. \A c \in Conn : held'[c] => \E t \in Task : ConnOf(t) = c /\ Inside(t)'
    BY <2>2, <2>3, <2>4, <2>5 DEF LocksOwned
  <2>. QED BY <2>1, <2>6, <2>7 DEF LocksOwned
<1>3. ASSUME NEW t \in Task, CheckEnds(t) PROVE LocksOwned'
  <2>1. PICK x : task' = [task EXCEPT ![t] = x] /\ x.at = "waiting"
    <3>1. PICK a \in (IF t = "r" THEN DOMAIN pool \cup found ELSE Addr), s \in Samples[t] :
            task' = [task EXCEPT ![t] =
              [at |-> "waiting", addr |-> a, sample |-> Fresh(t, a, s), id |-> Len(checks) + 1]]
      BY <1>3 DEF CheckEnds
    <3>2. PICK x : x = [at |-> "waiting", addr |-> a, sample |-> Fresh(t, a, s),
                        id |-> Len(checks) + 1]
      OBVIOUS
    <3>3. x.at = "waiting"
      BY <3>2
    <3>. QED BY <3>1, <3>2, <3>3
  <2>2. task[t].at = "idle" /\ UNCHANGED held
    BY <1>3 DEF CheckEnds, Idle
  <2>3. task'[t] = x /\ \A u \in Task : u # t => task'[u] = task[u]
    BY <2>1 DEF IInv, TasksInv
  <2>. QED BY <2>1, <2>2, <2>3, LocksStay DEF Inside
<1>4. ASSUME NEW t \in Task, Lock(t) PROVE LocksOwned'
  <2>1. PICK x : task' = [task EXCEPT ![t] = x] /\ x.at = "writing"
    <3>1. PICK x : x = [at |-> "writing", addr |-> task[t].addr, sample |-> task[t].sample,
                        id |-> task[t].id, left |-> RetryDelays]
      OBVIOUS
    <3>2. x.at = "writing" /\ task' = [task EXCEPT ![t] = x]
      BY <1>4, <3>1 DEF Lock
    <3>. QED BY <3>2
  <2>2. task'[t] = x /\ \A u \in Task : u # t => task'[u] = task[u]
    BY <2>1 DEF IInv, TasksInv
  <2>3. Inside(t)' /\ \A u \in Task : u # t => (Inside(u)' <=> Inside(u))
    BY <2>1, <2>2 DEF Inside
  <2>4. ~held[ConnOf(t)] /\ held' = [held EXCEPT ![ConnOf(t)] = TRUE]
    BY <1>4 DEF Lock
  <2>. QED BY <2>3, <2>4, LocksTaken DEF IInv
<1>5. ASSUME NEW t \in Task, Commit(t) PROVE LocksOwned'
  <2>1. task[t].at = "writing" /\ task' = [task EXCEPT ![t].at = "committed"] /\ UNCHANGED held
    BY <1>5 DEF Commit
  <2>2. PICK x : x = [task[t] EXCEPT !.at = "committed"]
    OBVIOUS
  <2>3. task[t] \in TaskType
    BY DEF IInv, TasksInv
  <2>4. task[t] \in [at : {"writing", "committed", "silent"}, addr : Addr, sample : Sample,
                     id : Nat, left : Nat]
    BY <2>1, <2>3, TaskShape
  <2>5. x.at = "committed"
    BY <2>2, <2>4
  <2>6. task' = [task EXCEPT ![t] = x]
    BY <2>1, <2>2
  <2>7. task'[t] = x /\ \A u \in Task : u # t => task'[u] = task[u]
    BY <2>6 DEF IInv, TasksInv
  <2>. QED BY <2>1, <2>5, <2>7, LocksStay DEF Inside
<1>10. ASSUME NEW t \in Task, Silence(t) PROVE LocksOwned'
  <2>1. task[t].at = "writing" /\ task' = [task EXCEPT ![t].at = "silent"] /\ UNCHANGED held
    BY <1>10 DEF Silence
  <2>2. PICK x : x = [task[t] EXCEPT !.at = "silent"]
    OBVIOUS
  <2>3. task[t] \in TaskType
    BY DEF IInv, TasksInv
  <2>4. task[t] \in [at : {"writing", "committed", "silent"}, addr : Addr, sample : Sample,
                     id : Nat, left : Nat]
    BY <2>1, <2>3, TaskShape
  <2>5. x.at = "silent"
    BY <2>2, <2>4
  <2>6. task' = [task EXCEPT ![t] = x]
    BY <2>1, <2>2
  <2>7. task'[t] = x /\ \A u \in Task : u # t => task'[u] = task[u]
    BY <2>6 DEF IInv, TasksInv
  <2>. QED BY <2>1, <2>5, <2>7, LocksStay DEF Inside
<1>6. ASSUME NEW t \in Task, Busy(t), task[t].left > 0 PROVE LocksOwned'
  <2>1. task[t].at = "writing" /\ task' = [task EXCEPT ![t].left = @ - 1] /\ UNCHANGED held
    BY <1>6 DEF Busy
  <2>2. PICK x : x = [task[t] EXCEPT !.left = @ - 1]
    OBVIOUS
  <2>3. task[t] \in TaskType
    BY DEF IInv, TasksInv
  <2>4. task[t] \in [at : {"writing", "committed", "silent"}, addr : Addr, sample : Sample,
                     id : Nat, left : Nat]
    BY <2>1, <2>3, TaskShape
  <2>5. x.at = "writing"
    BY <2>1, <2>2, <2>4
  <2>6. task' = [task EXCEPT ![t] = x]
    BY <2>1, <2>2
  <2>7. task'[t] = x /\ \A u \in Task : u # t => task'[u] = task[u]
    BY <2>6 DEF IInv, TasksInv
  <2>. QED BY <2>1, <2>5, <2>7, LocksStay DEF Inside
<1>7. ASSUME NEW t \in Task,
             Return(t) \/ Refused(t) \/ ReplyLost(t) \/ (Busy(t) /\ ~(task[t].left > 0))
      PROVE  LocksOwned'
  <2>1. Inside(t) /\ \E v \in {"ok", "err"} : Tell(t, v)
    BY <1>7 DEF Return, Refused, ReplyLost, Busy, Inside
  <2>. QED BY <2>1, TellDrops
<1>8. ASSUME NEW a \in Addr, LoadHash(a) \/ ImportHistory(a) \/ ImportFound(a)
      PROVE  UNCHANGED <<task, held>>
  BY <1>8 DEF LoadHash, ImportHistory, ImportFound
<1>9. open_state \/ EndLoad \/ recheck_store \/ UNCHANGED vars => UNCHANGED <<task, held>>
  BY DEF open_state, EndLoad, recheck_store, vars
<1>. QED BY <1>1, <1>2, <1>3, <1>4, <1>5, <1>6, <1>7, <1>8, <1>9, <1>10 DEF Next

\* The mutex of a connection excludes, and is never left locked by nobody.
THEOREM HistoryLocks == Spec => []LocksOwned
<1>1. Init => LocksOwned
  BY DEF Init, LocksOwned, Inside, Idle
<1>. QED BY <1>1, LocksKept, HistoryInductive, PTL DEF Spec
=============================================================================
