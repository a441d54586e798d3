------------------------- MODULE MaintenanceProofs -------------------------
(***************************************************************************)
(* Proofs about the re-checker and the file watcher over one pool, for     *)
(* every finite set of addresses, every cadence and every list the user    *)
(* saves.                                                                  *)
(***************************************************************************)
EXTENDS Maintenance, FiniteSetTheorems, FunctionTheorems, SequenceTheorems,
        TLAPS

-----------------------------------------------------------------------------
(* The inductive invariants.                                               *)

\* An address has at most one entry more than the file had lines for it:
\* one that add put in while the only other was out on lease.
PoolInv ==
  /\ pooled \in [Addr -> Nat] /\ leased \in [Addr -> 0..1]
  /\ \A a \in Addr : pooled[a] + leased[a] <= Repeats + 1

WatchInv ==
  /\ file.text \subseteq Addr /\ file.torn \in BOOLEAN
  /\ file = [text |-> file.text, torn |-> file.torn]
  /\ writer \in {<<>>} \cup {<<W>> : W \in Contents}
  /\ pending \in BOOLEAN /\ wpc \in {"unarmed", "poll", "reconcile", "stopped"}
  /\ drop \subseteq Addr /\ join \subseteq Addr /\ loaded \subseteq Addr

Entries == [addr : Addr, left : Nat]

Scheduled == {heap[i].addr : i \in DOMAIN heap}

\* Each address is scheduled once, and the tracked addresses are the
\* scheduled ones and the one being checked.
TrackInv ==
  /\ heap \in Seq(Entries)
  /\ \A i, j \in DOMAIN heap : heap[i].addr = heap[j].addr => i = j
  /\ DOMAIN ewma \subseteq Addr
  /\ \A a \in Addr : a \in DOMAIN ewma <=> a \in Scheduled \/ job = <<a>>
  /\ \A a \in Addr : job = <<a>> => a \notin Scheduled
  /\ retrying \subseteq DOMAIN ewma
  /\ job \in {Nobody} \cup {<<a>> : a \in Addr}

LoopInv ==
  /\ pc \in {"enroll", "idle", "sleep", "bucket", "check", "stopped"}
  /\ pc = "check" <=> job # Nobody
  /\ pc \in {"sleep", "bucket"} => heap # <<>>
  /\ timer \in 0..MinInterval /\ next_start \in 0..Gap

\* The averages and ages of the tracked addresses.
HealthInv ==
  /\ DOMAIN last_ok = DOMAIN ewma
  /\ ewma \in [DOMAIN ewma -> 0..Full]
  /\ last_ok \in [DOMAIN ewma -> 0..MaxAge]

Inv == PoolInv /\ WatchInv /\ TrackInv /\ LoopInv /\ HealthInv

-----------------------------------------------------------------------------
(* The heap.                                                               *)

LEMMA EnumerationCovers ==
  ASSUME NEW S, IsFiniteSet(S), NEW f \in SetToSeqs(S)
  PROVE  /\ Cardinality(S) \in Nat
         /\ f \in [1..Cardinality(S) -> S]
         /\ \A i, j \in 1..Cardinality(S) : f[i] = f[j] => i = j
         /\ \A e \in S : \E i \in 1..Cardinality(S) : f[i] = e
<1> DEFINE n == Cardinality(S)
<1>1. n \in Nat
  BY FS_CardinalityType
<1> HIDE DEF n
<1>2. f \in [1..n -> S] /\ \A i, j \in 1..n : f[i] = f[j] => i = j
  BY DEF SetToSeqs, n
<1>3. f \in Injection(1..n, S)
  BY <1>2 DEF Injection, IsInjective
<1>4. IsFiniteSet(1..n) /\ Cardinality(1..n) = n
  <2>1. 1 \in Int /\ n \in Int
    BY <1>1
  <2>2. Cardinality(1..n) = IF 1 > n THEN 0 ELSE n - 1 + 1
    BY <2>1, FS_Interval
  <2>3. IsFiniteSet(1..n)
    BY <2>1, FS_Interval
  <2> QED
    BY <1>1, <2>2, <2>3
<1>5. Cardinality(1..n) = Cardinality(S)
  BY <1>4 DEF n
<1>6. f \in Surjection(1..n, S)
  BY <1>3, <1>5, FS_Injection
<1>7. \A e \in S : \E i \in 1..n : f[i] = e
  BY <1>6 DEF Surjection
<1> QED
  BY <1>1, <1>2, <1>7 DEF n

\* A heap, by the addresses it schedules.
Schedules(h, A) ==
  /\ h \in Seq(Entries)
  /\ \A i, j \in DOMAIN h : h[i].addr = h[j].addr => i = j
  /\ {h[i].addr : i \in DOMAIN h} = A

LEMMA PushedSchedules ==
  ASSUME heap \in Seq(Entries),
         \A i, j \in DOMAIN heap : heap[i].addr = heap[j].addr => i = j,
         NEW new \in SUBSET Entries, IsFiniteSet(new),
         \A e, f \in new : e.addr = f.addr => e = f,
         \A e \in new : e.addr \notin Scheduled,
         NEW h \in Pushed(new)
  PROVE  Schedules(h, Scheduled \cup {e.addr : e \in new})
<1> DEFINE S == Range(heap) \cup new
<1>1. h \in SetToSeqs(S)
  BY Zenon DEF Pushed
<1>2. /\ DOMAIN heap = 1..Len(heap) /\ Len(heap) \in Nat
      /\ Range(heap) = {heap[i] : i \in 1..Len(heap)}
      /\ Range(heap) \subseteq Entries
  BY DEF Range
<1>3. IsFiniteSet(Range(heap))
  <2>1. heap \in Surjection(1..Len(heap), Range(heap))
    BY <1>2 DEF Surjection
  <2>2. IsFiniteSet(1..Len(heap))
    BY <1>2, FS_Interval, 1 \in Int, Len(heap) \in Int
  <2> QED
    BY <2>1, <2>2, FS_Surjection
<1>4. IsFiniteSet(S)
  BY <1>3, FS_Union
<1> DEFINE n == Cardinality(S)
<1>5. /\ n \in Nat /\ h \in [1..n -> S]
      /\ \A i, j \in 1..n : h[i] = h[j] => i = j
      /\ \A e \in S : \E i \in 1..n : h[i] = e
  <2> HIDE DEF S
  <2> QED
    BY <1>1, <1>4, EnumerationCovers
<1>6. \A e, f \in S : e.addr = f.addr => e = f
  <2> SUFFICES ASSUME NEW e \in S, NEW f \in S, e.addr = f.addr PROVE e = f
    OBVIOUS
  <2>1. ASSUME NEW x \in Range(heap) PROVE x.addr \in Scheduled
    BY <1>2 DEF Scheduled
  <2>2. CASE e \in Range(heap) /\ f \in Range(heap)
    BY <1>2, <2>2
  <2>3. CASE e \in new /\ f \in new
    BY <2>3
  <2> QED
    BY <2>1, <2>2, <2>3
<1> HIDE DEF n, S
<1>7. S \subseteq Entries /\ S = Range(heap) \cup new
  BY <1>2 DEF S
<1>8. h \in Seq(Entries) /\ DOMAIN h = 1..n
  BY <1>5, <1>7
<1>9. \A i, j \in 1..n : h[i].addr = h[j].addr => i = j
  BY <1>5, <1>6
<1>10. {h[i].addr : i \in 1..n} = {e.addr : e \in S}
  BY <1>5
<1>11. {e.addr : e \in S} = Scheduled \cup {e.addr : e \in new}
  BY <1>2, <1>7 DEF Scheduled
<1> QED
  BY <1>8, <1>9, <1>10, <1>11 DEF Schedules

LEMMA TailSchedules ==
  ASSUME heap \in Seq(Entries), heap # <<>>,
         \A i, j \in DOMAIN heap : heap[i].addr = heap[j].addr => i = j
  PROVE  /\ heap[1].addr \in Scheduled
         /\ Schedules(Tail(heap), Scheduled \ {heap[1].addr})
<1> DEFINE t == Tail(heap)
<1>1. /\ t \in Seq(Entries) /\ Len(t) = Len(heap) - 1
      /\ \A i \in 1..Len(t) : t[i] = heap[i + 1]
  BY HeadTailProperties
<1>2. DOMAIN heap = 1..Len(heap) /\ DOMAIN t = 1..Len(t) /\ Len(heap) \in Nat
      /\ Len(heap) >= 1
  BY <1>1, EmptySeq
<1> HIDE DEF t
<1>3. \A i, j \in 1..Len(t) : t[i].addr = t[j].addr => i = j
  <2> SUFFICES ASSUME NEW i \in 1..Len(t), NEW j \in 1..Len(t),
                      t[i].addr = t[j].addr
               PROVE  i = j
    OBVIOUS
  <2>1. heap[i + 1].addr = heap[j + 1].addr
    BY <1>1
  <2>2. i + 1 \in DOMAIN heap /\ j + 1 \in DOMAIN heap
    BY <1>1, <1>2
  <2>3. i + 1 = j + 1
    BY <2>1, <2>2
  <2> QED
    BY <1>1, <1>2, <2>3
<1>4. ASSUME NEW i \in 1..Len(t) PROVE t[i].addr \in Scheduled \ {heap[1].addr}
  <2>1. t[i] = heap[i + 1] /\ i + 1 \in DOMAIN heap /\ 1 \in DOMAIN heap
        /\ i + 1 # 1
    BY <1>1, <1>2
  <2>2. t[i].addr \in Scheduled
    BY <2>1 DEF Scheduled
  <2>3. t[i].addr # heap[1].addr
    BY <2>1
  <2> QED
    BY <2>2, <2>3
<1>5. ASSUME NEW a \in Scheduled, a # heap[1].addr
      PROVE  \E i \in 1..Len(t) : t[i].addr = a
  <2>1. PICK k \in DOMAIN heap : heap[k].addr = a
    BY DEF Scheduled
  <2>2. k # 1 /\ k - 1 \in 1..Len(t) /\ (k - 1) + 1 = k
    BY <1>1, <1>2, <1>5, <2>1
  <2>3. t[k - 1] = heap[k]
    BY <1>1, <2>2
  <2> QED
    BY <2>1, <2>2, <2>3
<1>6. heap[1].addr \in Scheduled
  BY <1>2 DEF Scheduled
<1>7. {t[i].addr : i \in 1..Len(t)} = Scheduled \ {heap[1].addr}
  BY <1>4, <1>5
<1> QED
  BY <1>1, <1>2, <1>3, <1>6, <1>7 DEF Schedules, t

-----------------------------------------------------------------------------
(* The pool and the watcher.                                               *)

LEMMA AddPool ==
  ASSUME PoolInv, NEW a \in Addr, add(a), leased' = leased
  PROVE  PoolInv'
  BY RepeatsAssumption DEF PoolInv, add

LEMMA RemovePool ==
  ASSUME PoolInv, NEW a \in Addr, remove(a), leased' = leased
  PROVE  PoolInv'
  BY RepeatsAssumption DEF PoolInv, remove

LEMMA PoolNext == PoolInv /\ WatchInv /\ [Next]_vars => PoolInv'
<1> SUFFICES ASSUME PoolInv, WatchInv, [Next]_vars PROVE PoolInv'
  OBVIOUS
<1>1. CASE UNCHANGED poolVars
  BY <1>1 DEF poolVars, PoolInv
<1>2. CASE Recheck
  BY <1>1, <1>2, AddPool, RemovePool DEF Recheck, Loop, Enroll, WakeEarly, WakeDue, Pop,
     Survives, Fails
<1>3. CASE Tick \/ Stop
  BY <1>1, <1>3 DEF Tick, Stop
<1>4. CASE Watch
  <2>1. CASE ReconcileRemove
    BY <2>1, RemovePool DEF ReconcileRemove, WatchInv
  <2>2. CASE ReconcileAdd
    BY <2>2, AddPool DEF ReconcileAdd, WatchInv
  <2> QED
    BY <1>1, <1>4, <2>1, <2>2 DEF Watch, spawn_watch, Drain, KeepPool, reload, Reconciled
<1>5. CASE StopWatch
  BY <1>1, <1>5 DEF StopWatch
<1>6. CASE Use
  <2>1. ASSUME NEW a \in Addr, Lease(a) PROVE PoolInv'
    BY <2>1, RepeatsAssumption DEF Lease, PoolInv
  <2>2. ASSUME NEW a \in Addr, Put(a) PROVE PoolInv'
    <3>1. PICK back \in 0..1 : pooled' = [pooled EXCEPT ![a] = @ + back]
      BY <2>2 DEF Put
    <3> QED
      BY <2>2, <3>1, RepeatsAssumption DEF Put, PoolInv
  <2> QED
    BY <1>6, <2>1, <2>2, RemovePool DEF Use
<1> QED
  BY <1>1, <1>2, <1>3, <1>4, <1>5, <1>6 DEF Next, vars

LEMMA WriteWatch ==
  ASSUME WatchInv, Write
  PROVE  WatchInv'
<1>1. \A W \in Contents : W \subseteq Addr
  BY ContentsAssumption
<1>2. ASSUME NEW W \in Contents, BeginWrite(W) PROVE WatchInv'
  BY <1>2 DEF BeginWrite, WatchInv
<1>3. ASSUME NEW W \in Contents, Replace(W) PROVE WatchInv'
  BY <1>1, <1>3 DEF Replace, WatchInv
<1>4. CASE WriteMore
  <2>1. PICK W \in Contents : writer = <<W>>
    BY <1>4 DEF WriteMore, WatchInv
  <2>2. PICK a \in W :
             \/ file' = [file EXCEPT !.torn = TRUE]
             \/ file' = [text |-> file.text \cup {a}, torn |-> FALSE]
    BY <1>4, <2>1 DEF WriteMore
  <2>3. /\ file'.text \subseteq Addr /\ file'.torn \in BOOLEAN
        /\ file' = [text |-> file'.text, torn |-> file'.torn]
    <3>1. CASE file' = [file EXCEPT !.torn = TRUE]
      <4>1. file' = [text |-> file.text, torn |-> TRUE]
        BY <3>1 DEF WatchInv
      <4> QED
        BY <4>1 DEF WatchInv
    <3>2. CASE file' = [text |-> file.text \cup {a}, torn |-> FALSE]
      BY <1>1, <3>2 DEF WatchInv
    <3> QED
      BY <2>2, <3>1, <3>2
  <2> QED
    BY <1>4, <2>3 DEF WriteMore, WatchInv
<1>5. CASE EndWrite
  BY <1>5 DEF EndWrite, WatchInv
<1> QED
  BY <1>2, <1>3, <1>4, <1>5 DEF Write

LEMMA WatchNext == WatchInv /\ [Next]_vars => WatchInv'
<1> SUFFICES ASSUME WatchInv, [Next]_vars PROVE WatchInv'
  OBVIOUS
<1>1. CASE UNCHANGED watchVars
  BY <1>1 DEF watchVars, WatchInv
<1>2. CASE Write
  BY <1>2, WriteWatch
<1>3. CASE StopWatch
  BY <1>3 DEF StopWatch, WatchInv
<1>4. CASE Watch
  <2>1. CASE spawn_watch \/ Drain \/ KeepPool
    BY <2>1 DEF spawn_watch, Drain, KeepPool, WatchInv
  <2>2. CASE reload
    BY <2>2 DEF reload, WatchInv, addrs
  <2>3. CASE ReconcileRemove
    BY <2>3 DEF ReconcileRemove, WatchInv
  <2>4. CASE ReconcileAdd
    BY <2>4 DEF ReconcileAdd, WatchInv
  <2>5. CASE Reconciled
    BY <2>5 DEF Reconciled, Done, WatchInv
  <2> QED
    BY <1>4, <2>1, <2>2, <2>3, <2>4, <2>5 DEF Watch
<1> QED
  BY <1>1, <1>2, <1>3, <1>4 DEF Next, vars, Recheck, Use

-----------------------------------------------------------------------------
(* The schedule and what is tracked.                                       *)

LEMMA ScheduledAddr == TrackInv => Scheduled \subseteq Addr
<1> SUFFICES ASSUME TrackInv, NEW i \in DOMAIN heap PROVE heap[i].addr \in Addr
  BY DEF Scheduled
<1>1. heap[i] \in Entries
  BY DEF TrackInv
<1> QED
  BY <1>1 DEF Entries

LEMMA TrackFrom ==
  ASSUME NEW A \in SUBSET Addr, Schedules(heap', A),
         DOMAIN ewma' \subseteq Addr,
         \A a \in Addr : a \in DOMAIN ewma' <=> a \in A \/ job' = <<a>>,
         \A a \in Addr : job' = <<a>> => a \notin A,
         retrying' \subseteq DOMAIN ewma',
         job' \in {Nobody} \cup {<<a>> : a \in Addr}
  PROVE  TrackInv'
  BY DEF TrackInv, Schedules, Scheduled

\* The delays of the schedule are numbers of ticks.
LEMMA DelayNat ==
  /\ \A j \in jitter : j \in Nat
  /\ \A e \in 0..Full, j \in jitter : next_interval(e) + j \in Nat
<1>1. \A j \in jitter : j \in Nat
  BY RecheckerAssumption DEF jitter
<1>2. ASSUME NEW e \in 0..Full PROVE next_interval(e) \in Nat
  <2>1. e \in Nat /\ MaxInterval - MinInterval \in Nat
    BY RecheckerAssumption
  <2>2. PICK k \in Nat : k = e * (MaxInterval - MinInterval)
    BY <2>1
  <2>3. k \div Full \in Nat
    BY RecheckerAssumption
  <2> QED
    BY <2>2, <2>3, RecheckerAssumption DEF next_interval
<1> QED
  BY <1>1, <1>2

\* fold stays on the scale.
LEMMA FoldScale ==
  ASSUME NEW e \in 0..Full, NEW working \in BOOLEAN
  PROVE  fold(e, working) \in 0..Full
  BY RecheckerAssumption DEF fold

\* One entry of an address that is not scheduled joins the heap.
LEMMA PushSchedules ==
  ASSUME TrackInv, NEW a \in Addr, a \notin Scheduled, NEW e \in 0..Full,
         Push(a, e)
  PROVE  Schedules(heap', Scheduled \cup {a})
<1>1. PICK j \in jitter : heap' \in Pushed({Entry(a, next_interval(e) + j)})
  BY DEF Push
<1>2. PICK x \in Entries : x = Entry(a, next_interval(e) + j) /\ x.addr = a
  <2>1. PICK d \in Nat : d = next_interval(e) + j
    BY DelayNat
  <2>2. Entry(a, d) \in Entries /\ Entry(a, d).addr = a
    BY DEF Entry, Entries
  <2> QED
    BY <2>1, <2>2
<1>3. PICK new \in SUBSET Entries : new = {x}
  OBVIOUS
<1>4. IsFiniteSet(new)
  BY <1>3, FS_Singleton
<1>5. PICK h \in Pushed(new) : h = heap'
  BY <1>1, <1>2, <1>3
<1>6. Schedules(h, Scheduled \cup {y.addr : y \in new})
  <2>1. \A y \in new : y.addr \notin Scheduled
    BY <1>2, <1>3
  <2>2. \A y, z \in new : y.addr = z.addr => y = z
    BY <1>3
  <2>3. /\ heap \in Seq(Entries)
        /\ \A k, l \in DOMAIN heap : heap[k].addr = heap[l].addr => k = l
    BY DEF TrackInv
  <2> QED
    BY <1>4, <2>1, <2>2, <2>3, PushedSchedules
<1>7. {y.addr : y \in new} = {a}
  BY <1>2, <1>3
<1> QED
  BY <1>5, <1>6, <1>7

LEMMA EnrollTrack ==
  ASSUME TrackInv, Enroll
  PROVE  TrackInv'
<1> DEFINE N == Newcomers
<1>1. N \subseteq Addr /\ N \cap DOMAIN ewma = {}
  BY DEF Newcomers, addrs
<1>2. PICK due \in [N -> jitter] : heap' \in Pushed({Entry(a, due[a]) : a \in N})
  BY DEF Enroll
<1>3. PICK new : new = {Entry(a, due[a]) : a \in N}
  OBVIOUS
<1>4. /\ new \in SUBSET Entries
      /\ \A e, f \in new : e.addr = f.addr => e = f
      /\ {e.addr : e \in new} = N
  <2>1. \A a \in N : due[a] \in Nat /\ a \in Addr
    BY <1>1, <1>2, DelayNat
  <2>2. \A a \in N : Entry(a, due[a]) \in Entries /\ Entry(a, due[a]).addr = a
    BY <2>1 DEF Entry, Entries
  <2> HIDE DEF N
  <2> QED
    BY <1>3, <2>2
<1>5. IsFiniteSet(new)
  <2>1. IsFiniteSet(N)
    BY <1>1, AddrAssumption, FS_Subset
  <2>2. [a \in N |-> Entry(a, due[a])] \in Surjection(N, new)
    BY <1>3 DEF Surjection
  <2> QED
    BY <2>1, <2>2, FS_Surjection
<1>6. \A e \in new : e.addr \notin Scheduled
  BY <1>1, <1>4 DEF TrackInv
<1>7. Schedules(heap', Scheduled \cup N)
  <2>1. PICK h \in Pushed(new) : h = heap'
    BY <1>2, <1>3
  <2>2. /\ heap \in Seq(Entries)
        /\ \A k, l \in DOMAIN heap : heap[k].addr = heap[l].addr => k = l
    BY DEF TrackInv
  <2>3. Schedules(h, Scheduled \cup {e.addr : e \in new})
    BY <1>4, <1>5, <1>6, <2>2, PushedSchedules
  <2> QED
    BY <1>4, <2>1, <2>3
<1>8. DOMAIN ewma' = DOMAIN ewma \cup N /\ UNCHANGED <<retrying, job>>
  BY DEF Enroll
<1> HIDE DEF N
<1>9. Scheduled \subseteq Addr
  BY ScheduledAddr
<1>10. \A a \in Addr : job = <<a>> => a \notin N
  BY <1>1 DEF TrackInv
<1> QED
  <2>1. \A a \in Addr : a \in DOMAIN ewma' <=>
                          a \in Scheduled \cup N \/ job' = <<a>>
    BY <1>8 DEF TrackInv
  <2>2. \A a \in Addr : job' = <<a>> => a \notin Scheduled \cup N
    BY <1>8, <1>10 DEF TrackInv
  <2>3. DOMAIN ewma' \subseteq Addr /\ retrying' \subseteq DOMAIN ewma'
        /\ job' \in {Nobody} \cup {<<a>> : a \in Addr}
    BY <1>1, <1>8 DEF TrackInv
  <2> QED
    BY <1>1, <1>7, <1>9, <2>1, <2>2, <2>3, TrackFrom

LEMMA PopTrack ==
  ASSUME TrackInv, LoopInv, NEW a \in Addr, Pop(a)
  PROVE  TrackInv'
<1>1. heap # <<>> /\ heap' = Tail(heap) /\ heap[1].addr = a /\ job = Nobody
  BY DEF Pop, LoopInv
<1>2. a \in Scheduled /\ Schedules(heap', Scheduled \ {a})
  BY <1>1, TailSchedules DEF TrackInv
<1>3. Scheduled \subseteq Addr
  BY ScheduledAddr
<1>4. \A b \in Addr : Nobody # <<b>>
  BY DEF Nobody
<1>5. \A b \in Addr : b \in DOMAIN ewma <=> b \in Scheduled
  BY <1>1, <1>4 DEF TrackInv
<1>6. CASE Dropped(a)
  <2>1. /\ DOMAIN ewma' = DOMAIN ewma \ {a} /\ job' = Nobody
        /\ retrying' = retrying /\ a \notin retrying
    BY <1>6 DEF Pop, Forget, Without, Dropped
  <2>2. \A b \in Addr : b \in DOMAIN ewma' <=>
                          b \in Scheduled \ {a} \/ job' = <<b>>
    BY <1>4, <1>5, <2>1
  <2>3. \A b \in Addr : job' = <<b>> => b \notin Scheduled \ {a}
    BY <1>4, <2>1
  <2>4. DOMAIN ewma' \subseteq Addr /\ retrying' \subseteq DOMAIN ewma'
        /\ job' \in {Nobody} \cup {<<b>> : b \in Addr}
    BY <2>1 DEF TrackInv
  <2> QED
    BY <1>2, <1>3, <2>2, <2>3, <2>4, TrackFrom
<1>7. CASE ~Dropped(a)
  <2>1. ewma' = ewma /\ job' = <<a>> /\ retrying' = retrying
    BY <1>7 DEF Pop
  <2>2. \A b \in Addr : job' = <<b>> <=> b = a
    BY <2>1
  <2>3. \A b \in Addr : b \in DOMAIN ewma' <=>
                          b \in Scheduled \ {a} \/ job' = <<b>>
    BY <1>2, <1>5, <2>1, <2>2
  <2>4. \A b \in Addr : job' = <<b>> => b \notin Scheduled \ {a}
    BY <2>2
  <2>5. DOMAIN ewma' \subseteq Addr /\ retrying' \subseteq DOMAIN ewma'
        /\ job' \in {Nobody} \cup {<<b>> : b \in Addr}
    BY <2>1 DEF TrackInv
  <2> QED
    BY <1>2, <1>3, <2>3, <2>4, <2>5, TrackFrom
<1> QED
  BY <1>6, <1>7

\* The one being checked is rescheduled ...
LEMMA RescheduleTrack ==
  ASSUME TrackInv, HealthInv, NEW a \in Addr, job = <<a>>, NEW e \in 0..Full,
         Push(a, e), DOMAIN ewma' = DOMAIN ewma, job' = Nobody,
         retrying' \subseteq retrying \cup {a}
  PROVE  TrackInv'
<1>1. a \notin Scheduled /\ a \in DOMAIN ewma
  BY DEF TrackInv
<1>2. Schedules(heap', Scheduled \cup {a})
  BY <1>1, PushSchedules
<1>3. Scheduled \subseteq Addr
  BY ScheduledAddr
<1>4. \A b \in Addr : job' # <<b>> /\ (job = <<b>> <=> b = a)
  BY DEF Nobody
<1>5. \A b \in Addr : b \in DOMAIN ewma' <=>
                        b \in Scheduled \cup {a} \/ job' = <<b>>
  BY <1>1, <1>4 DEF TrackInv
<1>6. \A b \in Addr : job' = <<b>> => b \notin Scheduled \cup {a}
  BY <1>4
<1>7. DOMAIN ewma' \subseteq Addr /\ retrying' \subseteq DOMAIN ewma'
      /\ job' \in {Nobody} \cup {<<b>> : b \in Addr}
  BY <1>1 DEF TrackInv
<1> QED
  BY <1>2, <1>3, <1>5, <1>6, <1>7, TrackFrom

\* ... or given up.
LEMMA GiveUpTrack ==
  ASSUME TrackInv, NEW a \in Addr, job = <<a>>, GiveUp(a), job' = Nobody
  PROVE  TrackInv'
<1>1. /\ a \notin Scheduled /\ heap' = heap
      /\ DOMAIN ewma' = DOMAIN ewma \ {a} /\ retrying' = retrying \ {a}
  BY DEF TrackInv, GiveUp, Forget, Without
<1>2. Schedules(heap', Scheduled) /\ Scheduled \subseteq Addr
  BY <1>1, ScheduledAddr DEF TrackInv, Schedules, Scheduled
<1>3. \A b \in Addr : job' # <<b>> /\ (job = <<b>> <=> b = a)
  BY DEF Nobody
<1>4. \A b \in Addr : b \in DOMAIN ewma' <=> b \in Scheduled \/ job' = <<b>>
  BY <1>1, <1>3 DEF TrackInv
<1>5. \A b \in Addr : job' = <<b>> => b \notin Scheduled
  BY <1>3
<1>6. DOMAIN ewma' \subseteq Addr /\ retrying' \subseteq DOMAIN ewma'
      /\ job' \in {Nobody} \cup {<<b>> : b \in Addr}
  BY <1>1 DEF TrackInv
<1> QED
  BY <1>2, <1>4, <1>5, <1>6, TrackFrom

LEMMA FailsTrack ==
  ASSUME TrackInv, HealthInv, NEW a \in Addr, Fails(a)
  PROVE  TrackInv'
<1> DEFINE e == fold(ewma[a], FALSE)
<1>1. job = <<a>> /\ job' = Nobody /\ a \in DOMAIN ewma
  BY DEF Fails, TrackInv
<1>2. e \in 0..Full
  BY <1>1, FoldScale DEF HealthInv
<1>3. PICK latency \in Latencies :
        IF should_retry(e, latency, last_ok[a])
        THEN /\ ewma' = [ewma EXCEPT ![a] = e] /\ Push(a, e)
             /\ retrying' = retrying \cup {a}
             /\ last_ok' = last_ok
        ELSE GiveUp(a)
  BY DEF Fails
<1>4. CASE should_retry(e, latency, last_ok[a])
  <2>1. ewma' = [ewma EXCEPT ![a] = e] /\ Push(a, e) /\ retrying' = retrying \cup {a}
    BY <1>3, <1>4
  <2>2. DOMAIN ewma' = DOMAIN ewma
    BY <2>1
  <2> HIDE DEF e
  <2> QED
    BY <1>1, <1>2, <2>1, <2>2, RescheduleTrack
<1>5. CASE ~should_retry(e, latency, last_ok[a])
  BY <1>1, <1>3, <1>5, GiveUpTrack
<1> QED
  BY <1>4, <1>5

LEMMA SurvivesTrack ==
  ASSUME TrackInv, HealthInv, NEW a \in Addr, Survives(a)
  PROVE  TrackInv'
<1> DEFINE e == fold(ewma[a], TRUE)
<1>1. job = <<a>> /\ job' = Nobody /\ a \in DOMAIN ewma
  BY DEF Survives, TrackInv
<1>2. e \in 0..Full
  BY <1>1, FoldScale DEF HealthInv
<1>3. ewma' = [ewma EXCEPT ![a] = e] /\ Push(a, e) /\ retrying' = retrying \ {a}
  BY DEF Survives
<1>4. DOMAIN ewma' = DOMAIN ewma
  BY <1>3
<1> HIDE DEF e
<1> QED
  BY <1>1, <1>2, <1>3, <1>4, RescheduleTrack

\* A tick changes the delays alone.
LEMMA TickTrack ==
  ASSUME TrackInv, Tick
  PROVE  TrackInv'
<1>1. /\ heap' = [i \in DOMAIN heap |-> Entry(heap[i].addr, Monus(heap[i].left, 1))]
      /\ UNCHANGED <<ewma, retrying, job>>
  BY DEF Tick
<1>2. DOMAIN heap = 1..Len(heap) /\ Len(heap) \in Nat
      /\ \A i \in DOMAIN heap : heap[i] \in Entries
  BY DEF TrackInv
<1>3. \A i \in DOMAIN heap : heap[i].addr \in Addr /\ heap[i].left \in Nat
  BY <1>2 DEF Entries
<1>4. \A i \in DOMAIN heap : Monus(heap[i].left, 1) \in Nat
  BY <1>3 DEF Monus
<1>5. \A i \in DOMAIN heap : heap'[i] \in Entries /\ heap'[i].addr = heap[i].addr
  BY <1>1, <1>3, <1>4 DEF Entry, Entries
<1>6. DOMAIN heap' = DOMAIN heap /\ heap' \in Seq(Entries)
  <2>1. heap' \in [1..Len(heap) -> Entries]
    BY <1>1, <1>2, <1>5
  <2> QED
    BY <1>2, <2>1
<1>7. Schedules(heap', Scheduled) /\ Scheduled \subseteq Addr
  BY <1>5, <1>6, ScheduledAddr DEF TrackInv, Schedules, Scheduled
<1>8. /\ \A a \in Addr : a \in DOMAIN ewma' <=> a \in Scheduled \/ job' = <<a>>
      /\ \A a \in Addr : job' = <<a>> => a \notin Scheduled
      /\ DOMAIN ewma' \subseteq Addr /\ retrying' \subseteq DOMAIN ewma'
      /\ job' \in {Nobody} \cup {<<a>> : a \in Addr}
  BY <1>1 DEF TrackInv
<1> QED
  BY <1>7, <1>8, TrackFrom

LEMMA StopTrack ==
  ASSUME TrackInv, LoopInv, Stop
  PROVE  TrackInv'
<1>1. /\ heap' = <<>> /\ DOMAIN ewma' = {} /\ retrying' = {} /\ job' = Nobody
  BY DEF Stop, LoopInv
<1>2. Schedules(heap', {})
  BY <1>1 DEF Schedules
<1>3. \A a \in Addr : Nobody # <<a>>
  BY DEF Nobody
<1> QED
  BY <1>1, <1>2, <1>3, TrackFrom

LEMMA TrackNext ==
  TrackInv /\ LoopInv /\ HealthInv /\ [Next]_vars => TrackInv'
<1> SUFFICES ASSUME TrackInv, LoopInv, HealthInv, [Next]_vars PROVE TrackInv'
  OBVIOUS
<1>1. CASE UNCHANGED <<heap, ewma, retrying, job>>
  BY <1>1 DEF TrackInv, Scheduled
<1>2. CASE Recheck
  <2>1. CASE WakeEarly \/ WakeDue
    BY <1>1, <2>1 DEF WakeEarly, WakeDue
  <2> QED
    BY <1>2, <2>1, EnrollTrack, PopTrack, SurvivesTrack, FailsTrack DEF Recheck, Loop
<1>3. CASE UNCHANGED recheckVars
  BY <1>1, <1>3 DEF recheckVars
<1> QED
  BY <1>2, <1>3, TickTrack, StopTrack DEF Next, vars, Use

LEMMA LoopNext ==
  TrackInv /\ TrackInv' /\ LoopInv /\ [Next]_vars => LoopInv'
<1> SUFFICES ASSUME TrackInv, TrackInv', LoopInv, [Next]_vars PROVE LoopInv'
  OBVIOUS
<1>1. CASE UNCHANGED recheckVars
  BY <1>1 DEF recheckVars, LoopInv
<1>2. CASE Enroll
  <2>1. /\ job' = job /\ job = Nobody /\ next_start' = next_start
        /\ IF heap' = <<>> THEN pc' = "idle" /\ timer' = MinInterval
           ELSE /\ pc' = "sleep"
                /\ timer' = IF heap'[1].left < MinInterval THEN heap'[1].left
                                                           ELSE MinInterval
    BY <1>2 DEF Enroll, LoopInv
  <2>2. heap' # <<>> => heap'[1].left \in Nat
    <3>1. heap' # <<>> => heap'[1] \in Entries
      BY EmptySeq DEF TrackInv
    <3> QED
      BY <3>1 DEF Entries
  <2>3. timer' \in 0..MinInterval
    BY <2>1, <2>2, RecheckerAssumption
  <2> QED
    BY <2>1, <2>3 DEF LoopInv
<1>3. CASE WakeEarly \/ WakeDue
  BY <1>3 DEF WakeEarly, WakeDue, LoopInv
<1>4. ASSUME NEW a \in Addr, Pop(a) PROVE LoopInv'
  <2>1. Nobody # <<a>>
    BY DEF Nobody
  <2> QED
    BY <1>4, <2>1, RecheckerAssumption DEF Pop, LoopInv
<1>5. ASSUME NEW a \in Addr, Survives(a) \/ Fails(a) PROVE LoopInv'
  BY <1>5 DEF Survives, Fails, LoopInv
<1>6. CASE Stop
  BY <1>6, RecheckerAssumption DEF Stop, LoopInv
<1>7. CASE Tick
  <2>1. /\ UNCHANGED <<pc, job>> /\ DOMAIN heap' = DOMAIN heap
        /\ timer' = Monus(timer, 1) /\ next_start' = Monus(next_start, 1)
    BY <1>7 DEF Tick
  <2>2. timer' \in 0..MinInterval /\ next_start' \in 0..Gap
    BY <2>1, RecheckerAssumption DEF Monus, LoopInv
  <2>3. heap # <<>> => heap' # <<>>
    BY <2>1, EmptySeq DEF TrackInv
  <2> QED
    BY <2>1, <2>2, <2>3 DEF LoopInv
<1> QED
  BY <1>1, <1>2, <1>3, <1>4, <1>5, <1>6, <1>7 DEF Next, vars, Use, Recheck, Loop

\* Averages and ages that follow the tracked addresses.
LEMMA ForgetHealth ==
  ASSUME HealthInv, NEW a \in Addr, Forget(a)
  PROVE  HealthInv'
  BY DEF HealthInv, Forget, Without

LEMMA HealthNext == TrackInv /\ HealthInv /\ [Next]_vars => HealthInv'
<1> SUFFICES ASSUME TrackInv, HealthInv, [Next]_vars PROVE HealthInv'
  OBVIOUS
<1>1. CASE UNCHANGED <<ewma, last_ok>>
  BY <1>1 DEF HealthInv
<1>2. CASE Enroll
  BY <1>2, RecheckerAssumption DEF Enroll, HealthInv
<1>3. CASE WakeEarly \/ WakeDue
  BY <1>1, <1>3 DEF WakeEarly, WakeDue
<1>4. ASSUME NEW a \in Addr, Pop(a) PROVE HealthInv'
  BY <1>1, <1>4, ForgetHealth DEF Pop
<1>5. ASSUME NEW a \in Addr, Survives(a) PROVE HealthInv'
  <2>1. a \in DOMAIN ewma
    BY <1>5 DEF Survives, TrackInv
  <2>2. PICK e \in 0..Full : e = fold(ewma[a], TRUE)
    BY <2>1, FoldScale DEF HealthInv
  <2>3. ewma' = [ewma EXCEPT ![a] = e] /\ last_ok' = [last_ok EXCEPT ![a] = 0]
    BY <1>5, <2>2 DEF Survives
  <2> QED
    BY <2>1, <2>3, RecheckerAssumption DEF HealthInv
<1>6. ASSUME NEW a \in Addr, Fails(a) PROVE HealthInv'
  <2>1. a \in DOMAIN ewma
    BY <1>6 DEF Fails, TrackInv
  <2>2. PICK e \in 0..Full : e = fold(ewma[a], FALSE)
    BY <2>1, FoldScale DEF HealthInv
  <2>3. CASE ewma' = [ewma EXCEPT ![a] = e] /\ last_ok' = last_ok
    BY <2>1, <2>3 DEF HealthInv
  <2>4. CASE Forget(a)
    BY <2>4, ForgetHealth
  <2> QED
    BY <1>6, <2>2, <2>3, <2>4 DEF Fails, GiveUp
<1>7. CASE Stop
  BY <1>7 DEF Stop, HealthInv
<1>8. CASE Tick
  BY <1>8, RecheckerAssumption DEF Tick, HealthInv
<1>9. CASE UNCHANGED recheckVars
  BY <1>1, <1>9 DEF recheckVars
<1> QED
  BY <1>2, <1>3, <1>4, <1>5, <1>6, <1>7, <1>8, <1>9
     DEF Next, vars, Use, Recheck, Loop

LEMMA InvInit == Init => Inv
<1> SUFFICES ASSUME Init PROVE Inv
  OBVIOUS
<1>1. /\ loaded \subseteq Addr
      /\ writer \in {<<>>} \cup {<<W>> : W \in Contents}
  BY ContentsAssumption DEF Init, WatchInit
<1>2. PoolInv
  <2>1. PICK lines \in [Addr -> 1..Repeats] :
             pooled = [a \in Addr |-> IF a \in loaded THEN lines[a] ELSE 0]
    BY DEF Init
  <2> QED
    BY <2>1, RepeatsAssumption DEF Init, PoolInv
<1>3. WatchInv
  BY <1>1 DEF Init, WatchInit, WatchInv
<1>4. TrackInv
  <2>1. heap = <<>> /\ DOMAIN ewma = {} /\ retrying = {} /\ job = Nobody
    BY DEF Init, RecheckInit
  <2>2. \A a \in Addr : Nobody # <<a>>
    BY DEF Nobody
  <2> QED
    BY <2>1, <2>2 DEF TrackInv, Scheduled
<1>5. LoopInv
  BY RecheckerAssumption DEF Init, RecheckInit, LoopInv
<1>6. HealthInv
  BY DEF Init, RecheckInit, HealthInv
<1> QED
  BY <1>2, <1>3, <1>4, <1>5, <1>6 DEF Inv

LEMMA InvNext == Inv /\ [Next]_vars => Inv'
  BY PoolNext, WatchNext, TrackNext, LoopNext, HealthNext DEF Inv

LEMMA InvTypes == Inv => TypeOK
<1> SUFFICES ASSUME Inv PROVE TypeOK
  OBVIOUS
<1>1. pooled \in [Addr -> 0..(Repeats + 1)] /\ leased \in [Addr -> 0..1]
  <2>1. ASSUME NEW a \in Addr PROVE pooled[a] \in 0..(Repeats + 1)
    <3>1. pooled[a] \in Nat /\ leased[a] \in 0..1 /\ pooled[a] + leased[a] <= Repeats + 1
      BY DEF Inv, PoolInv
    <3> QED
      BY <3>1, RepeatsAssumption
  <2> QED
    BY <2>1 DEF Inv, PoolInv
<1>2. \A a \in DOMAIN ewma : ewma[a] \in 0..Full /\ last_ok[a] \in 0..MaxAge
  BY DEF Inv, HealthInv
<1> QED
  BY <1>1, <1>2 DEF Inv, WatchInv, TrackInv, LoopInv, HealthInv, TypeOK, Entries

(***************************************************************************)
(* A tracked address has exactly one entry in the schedule or is the one   *)
(* being checked, and nothing else is scheduled, checked or retried.       *)
(***************************************************************************)
THEOREM MaintenanceTrackedOnce == Spec => []TrackedOnce
<1>1. Inv => TrackedOnce
  <2> SUFFICES ASSUME Inv, NEW a \in Addr
               PROVE  Cardinality({i \in DOMAIN heap : heap[i].addr = a})
                        + (IF job = <<a>> THEN 1 ELSE 0)
                        = IF a \in DOMAIN ewma THEN 1 ELSE 0
    BY InvTypes DEF TrackedOnce, Inv, TrackInv
  <2> DEFINE at == {i \in DOMAIN heap : heap[i].addr = a}
  <2>1. TrackInv
    BY DEF Inv
  <2>2. CASE a \in Scheduled
    <3>1. PICK k \in DOMAIN heap : heap[k].addr = a
      BY <2>2 DEF Scheduled
    <3>2. at = {k}
      BY <2>1, <3>1 DEF TrackInv
    <3>3. Cardinality(at) = 1
      BY <3>2, FS_Singleton
    <3> QED
      BY <2>1, <2>2, <3>3 DEF TrackInv
  <2>3. CASE a \notin Scheduled
    <3>1. at = {}
      BY <2>3 DEF Scheduled
    <3>2. Cardinality(at) = 0
      BY <3>1, FS_EmptySet
    <3> QED
      BY <2>1, <2>3, <3>2 DEF TrackInv
  <2> QED
    BY <2>2, <2>3
<1> QED
  BY <1>1, InvInit, InvNext, PTL DEF Spec

-----------------------------------------------------------------------------
(* What is gone.                                                           *)

LEMMA GoneStep ==
  ASSUME Inv, [Next]_vars, NEW a \in Addr, Gone(a), a \notin loaded'
  PROVE  Gone(a)'
<1>1. /\ pooled[a] = 0 /\ leased[a] = 0 /\ job # <<a>> /\ a \notin retrying
      /\ a \notin join
      /\ pooled \in [Addr -> Nat] /\ leased \in [Addr -> 0..1]
  BY DEF Gone, addrs, Inv, PoolInv
<1>2. ASSUME pooled'[a] = 0, leased'[a] = 0, job' # <<a>>, a \notin retrying',
             a \notin join'
      PROVE  Gone(a)'
  BY <1>2 DEF Gone, addrs
<1>3. ASSUME UNCHANGED watchVars PROVE a \notin join'
  BY <1>1, <1>3 DEF watchVars
<1>4. ASSUME UNCHANGED recheckVars PROVE job' # <<a>> /\ a \notin retrying'
  BY <1>1, <1>4 DEF recheckVars
<1>5. ASSUME UNCHANGED poolVars PROVE pooled'[a] = 0 /\ leased'[a] = 0
  BY <1>1, <1>5 DEF poolVars
<1>6. CASE Recheck
  <2>1. CASE Enroll \/ WakeEarly \/ WakeDue
    BY <1>1, <1>2, <1>3, <1>5, <1>6, <2>1 DEF Recheck, Enroll, WakeEarly, WakeDue
  <2>2. ASSUME NEW b \in Addr, Pop(b) PROVE Gone(a)'
    <3>1. Nobody # <<a>> /\ (b # a => <<b>> # <<a>>)
      BY DEF Nobody
    <3>2. b = a => Dropped(b)
      BY <1>1 DEF Dropped, addrs
    <3>3. job' # <<a>> /\ retrying' = retrying /\ UNCHANGED poolVars
      BY <2>2, <3>1, <3>2 DEF Pop
    <3> QED
      BY <1>1, <1>2, <1>3, <1>5, <1>6, <3>3 DEF Recheck
  <2>3. ASSUME NEW b \in Addr, Survives(b) \/ Fails(b) PROVE Gone(a)'
    <3>1. b # a /\ Nobody # <<a>>
      BY <1>1, <2>3 DEF Survives, Fails, Nobody
    <3>2. job' = Nobody /\ leased' = leased /\ retrying' \subseteq retrying \cup {b}
      BY <2>3 DEF Survives, Fails, GiveUp
    <3>3. pooled'[a] = pooled[a]
      BY <1>1, <2>3, <3>1 DEF Survives, Fails, add, remove
    <3> QED
      BY <1>1, <1>2, <1>3, <1>6, <3>1, <3>2, <3>3 DEF Recheck
  <2> QED
    BY <1>6, <2>1, <2>2, <2>3 DEF Recheck, Loop
<1>7. CASE (Tick \/ Stop) /\ UNCHANGED watchVars
  BY <1>1, <1>2, <1>3, <1>5, <1>7 DEF Tick, Stop
<1>8. CASE Watch /\ UNCHANGED recheckVars
  <2>1. CASE spawn_watch \/ Drain \/ KeepPool \/ Reconciled
    BY <1>1, <1>2, <1>4, <1>5, <1>8, <2>1
       DEF spawn_watch, Drain, KeepPool, Reconciled
  <2>2. CASE reload
    BY <1>1, <1>2, <1>4, <1>5, <1>8, <2>2 DEF reload
  <2>3. CASE ReconcileRemove
    <3>1. /\ pooled'[a] = 0 /\ leased' = leased /\ join' = join
      BY <1>1, <2>3 DEF ReconcileRemove, remove, Inv, WatchInv
    <3> QED
      BY <1>1, <1>2, <1>4, <1>8, <3>1
  <2>4. CASE ReconcileAdd
    <3>1. PICK b \in join : add(b) /\ join' = join \ {b}
      BY <2>4 DEF ReconcileAdd
    <3>2. pooled'[a] = 0 /\ leased' = leased /\ a \notin join'
      BY <1>1, <2>4, <3>1 DEF ReconcileAdd, add, Inv, WatchInv
    <3> QED
      BY <1>1, <1>2, <1>4, <1>8, <3>2
  <2> QED
    BY <1>8, <2>1, <2>2, <2>3, <2>4 DEF Watch
<1>9. CASE StopWatch /\ UNCHANGED recheckVars
  BY <1>1, <1>2, <1>4, <1>5, <1>9 DEF StopWatch
<1>10. CASE Write /\ UNCHANGED <<poolVars, recheckVars>>
  <2>1. join' = join
    BY <1>10 DEF Write, BeginWrite, Replace, WriteMore, EndWrite
  <2> QED
    BY <1>1, <1>2, <1>4, <1>5, <1>10, <2>1
<1>11. CASE Use
  <2>1. PICK b \in Addr : Lease(b) \/ Put(b) \/ (remove(b) /\ leased' = leased)
    BY <1>11 DEF Use
  <2>2. pooled'[a] = 0 /\ leased'[a] = 0
    BY <1>1, <2>1 DEF Lease, Put, remove
  <2> QED
    BY <1>1, <1>2, <1>3, <1>4, <1>11, <2>2 DEF Use
<1>12. CASE UNCHANGED vars
  BY <1>1, <1>2, <1>3, <1>4, <1>5, <1>12 DEF vars
<1> QED
  BY <1>6, <1>7, <1>8, <1>9, <1>10, <1>11, <1>12 DEF Next

(***************************************************************************)
(* An address that nothing holds on to any more stays gone until the       *)
(* user's list names it again, although the schedule may still hold it.    *)
(***************************************************************************)
THEOREM MaintenanceGone == Spec => GoneStaysGone
<1>1. Inv /\ [Next]_vars =>
        [\A a \in Addr : Gone(a) /\ a \notin loaded' => Gone(a)']_vars
  BY GoneStep
<1> QED
  BY <1>1, InvInit, InvNext, PTL DEF Spec, GoneStaysGone
============================================================================
