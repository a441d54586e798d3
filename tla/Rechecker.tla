----------------------------- MODULE Rechecker -----------------------------
(***************************************************************************)
(* spawn_rechecker (scheduler.rs): one task that keeps a heap of due times   *)
(* for the pooled addresses, re-probes the one due next through the checker  *)
(* and adds it to the pool, retries it, or lets it go.                      *)
(*                                                                         *)
(* Time is counted in ticks, and every instant is kept as the ticks left     *)
(* until it or passed since it.  The success average is kept in Full-ths,    *)
(* rounded down.  The store's upsert, whose result the loop ignores, is left *)
(* to the module Store.                                                     *)
(***************************************************************************)
EXTENDS LivePool, Sequences, SequencesExt

CONSTANTS
  MinInterval, MaxInterval, \* re-check cadence of a flaky and a stable proxy
  Gap,                      \* ticks per start: 1 / rate_per_sec
  Halvings,                 \* half-lives per tick; 0 disables decay
  MaxAge,                   \* bound: older than this counts as this old
  Full,                     \* the scale of the success average
  Flaky,                    \* the addresses whose check may fail
  Latencies                 \* the average response times, in seconds, that a
                            \* failed check leaves: 0 when nothing answered

ASSUME RecheckerAssumption ==
  /\ MinInterval \in Nat \ {0} /\ MaxInterval \in Nat /\ MinInterval <= MaxInterval
  /\ Gap \in Nat \ {0} /\ Halvings \in Nat /\ MaxAge \in Nat
  /\ Full \in Nat \ {0} /\ Flaky \subseteq Addr
  /\ 0 \in Latencies /\ Latencies \subseteq Nat

VARIABLES
  pc,        \* enroll, idle, sleep, bucket, check, stopped
  timer,     \* ticks left of the sleep
  next_start,\* ticks left until the rate ceiling allows a start
  heap,      \* the scheduled entries, soonest due first
  ewma,      \* the tracked addresses and their success average
  last_ok,   \* ticks since each last worked
  retrying,  \* failed and pulled, still scheduled
  job        \* the address popped, while its check runs

recheckVars ==
  <<pc, timer, next_start, heap, ewma, last_ok, retrying, job>>

Nobody == <<>>   \* no job

RecheckInit ==
  /\ pc = "enroll" /\ timer = 0 /\ next_start = 0
  /\ heap = <<>>
  /\ ewma = <<>> /\ last_ok = <<>> /\ retrying = {}
  /\ job = Nobody

Monus(a, b) == IF a > b THEN a - b ELSE 0

\* Half a MinInterval to either side, in whole ticks.
jitter == (MinInterval + 1) \div 2 .. (3 * MinInterval) \div 2

next_interval(e) ==
  MinInterval + (e * (MaxInterval - MinInterval)) \div Full

\* 0.3 of the new outcome, 0.7 of the old average.
fold(e, working) == (3 * (IF working THEN Full ELSE 0) + 7 * e) \div 10

\* The average over 1 + latency, halved per half-life unseen, against
\* EVICT_FLOOR = 1 / 50.
should_retry(e, latency, age) ==
  50 * e >= Full * (1 + latency) * 2 ^ (age * Halvings)

-----------------------------------------------------------------------------
Entry(a, left) == [addr |-> a, left |-> left]

\* The heaps that new entries lead to: by due time, ties in either order,
\* what was overdue before still first.
Pushed(new) ==
  {h \in SetToSeqs(Range(heap) \cup new) :
     /\ \A i, j \in DOMAIN h : i < j => h[i].left <= h[j].left
     /\ SelectSeq(h, LAMBDA e : e \in Range(heap)) = heap}

\* Mutant: only an empty schedule enrolls newcomers.
Newcomers_WhenIdle == IF heap # <<>> THEN {} ELSE addrs \ DOMAIN ewma

Newcomers == addrs \ DOMAIN ewma

\* The top of the loop: everyone in the pool that is not tracked joins the
\* schedule as healthy, then the loop sleeps until the next is due, but never
\* longer than MinInterval.
Enroll ==
  /\ pc = "enroll"
  /\ \E due \in [Newcomers -> jitter] :
       heap' \in Pushed({Entry(a, due[a]) : a \in Newcomers})
  /\ ewma' = [a \in DOMAIN ewma \cup Newcomers |->
                IF a \in Newcomers THEN Full ELSE ewma[a]]
  /\ last_ok' = [a \in DOMAIN last_ok \cup Newcomers |->
                   IF a \in Newcomers THEN 0 ELSE last_ok[a]]
  /\ IF heap' = <<>> THEN pc' = "idle" /\ timer' = MinInterval
     ELSE /\ pc' = "sleep"
          /\ timer' = IF heap'[1].left < MinInterval THEN heap'[1].left
                                                     ELSE MinInterval
  /\ UNCHANGED <<next_start, retrying, job, poolVars>>

\* Woken with nothing scheduled, or before anything is due: enroll again.
WakeEarly ==
  /\ timer = 0
  /\ pc = "idle" \/ (pc = "sleep" /\ heap[1].left > 0)
  /\ pc' = "enroll"
  /\ UNCHANGED <<timer, next_start, heap, ewma, last_ok, retrying, job,
                 poolVars>>

WakeDue ==
  /\ pc = "sleep" /\ timer = 0 /\ heap[1].left = 0
  /\ pc' = "bucket"
  /\ UNCHANGED <<timer, next_start, heap, ewma, last_ok, retrying, job,
                 poolVars>>

Without(f, a) == [x \in DOMAIN f \ {a} |-> f[x]]

\* An address that left the pool is no longer tracked.
Forget(a) ==
  /\ ewma' = Without(ewma, a)
  /\ last_ok' = Without(last_ok, a)

\* Mutant: the pool is not asked again.
Dropped_Never(a) == FALSE

Dropped(a) == a \notin retrying /\ a \notin addrs

\* The rate ceiling lets the start through: the entry due first is popped,
\* and forgotten if the pool lost the address and no retry of it is on.
Pop(a) ==
  /\ pc = "bucket" /\ next_start = 0
  /\ next_start' = Gap
  /\ heap[1].addr = a
  /\ heap' = Tail(heap)
  /\ IF Dropped(a)
     THEN /\ Forget(a)
          /\ pc' = "enroll" /\ job' = Nobody
     ELSE /\ pc' = "check" /\ job' = <<a>>
          /\ UNCHANGED <<ewma, last_ok>>
  /\ UNCHANGED <<timer, retrying, poolVars>>

Push(a, e) ==
  \E j \in jitter : heap' \in Pushed({Entry(a, next_interval(e) + j)})

\* The check of job found it working: back into the pool and the schedule.
Survives(a) ==
  /\ pc = "check" /\ job = <<a>>
  /\ LET e == fold(ewma[a], TRUE)
     IN  ewma' = [ewma EXCEPT ![a] = e] /\ Push(a, e)
  /\ last_ok' = [last_ok EXCEPT ![a] = 0]
  /\ retrying' = retrying \ {a}
  /\ add(a)
  /\ pc' = "enroll" /\ job' = Nobody
  /\ UNCHANGED <<timer, next_start, leased>>

\* Mutant: an address given up keeps its retry mark.
GiveUp_KeepsMark(a) ==
  /\ Forget(a)
  /\ UNCHANGED <<retrying, heap>>

GiveUp(a) ==
  /\ Forget(a)
  /\ retrying' = retrying \ {a}
  /\ heap' = heap

\* The check failed: out of the pool, then retried or given up.
Fails(a) ==
  /\ pc = "check" /\ job = <<a>> /\ a \in Flaky
  /\ remove(a)
  /\ LET e == fold(ewma[a], FALSE)
     IN  \E latency \in Latencies :
         IF should_retry(e, latency, last_ok[a])
         THEN /\ ewma' = [ewma EXCEPT ![a] = e] /\ Push(a, e)
              /\ retrying' = retrying \cup {a}
              /\ last_ok' = last_ok
         ELSE GiveUp(a)
  /\ pc' = "enroll" /\ job' = Nobody
  /\ UNCHANGED <<timer, next_start, leased>>

\* The handle is dropped: seen at the next sleep, and the task ends with
\* all it kept.
Stop ==
  /\ pc \in {"idle", "sleep", "bucket"}
  /\ pc' = "stopped"
  /\ timer' = 0 /\ next_start' = 0
  /\ heap' = <<>>
  /\ ewma' = <<>> /\ last_ok' = <<>> /\ retrying' = {}
  /\ UNCHANGED <<job, poolVars>>

\* A timer that has run out is served before the next tick.
Waiting ==
  \/ pc \in {"idle", "sleep"} /\ timer > 0
  \/ pc = "bucket" /\ next_start > 0
  \/ pc = "check"

Tick ==
  /\ Waiting
  /\ timer' = Monus(timer, 1)
  /\ next_start' = Monus(next_start, 1)
  /\ heap' = [i \in DOMAIN heap |->
                Entry(heap[i].addr, Monus(heap[i].left, 1))]
  /\ last_ok' = [a \in DOMAIN last_ok |->
                   IF last_ok[a] < MaxAge THEN last_ok[a] + 1 ELSE MaxAge]
  /\ UNCHANGED <<pc, ewma, retrying, job, poolVars>>

Loop ==
  \/ Enroll \/ WakeEarly \/ WakeDue
  \/ \E a \in Addr : Pop(a) \/ Survives(a) \/ Fails(a)
=============================================================================
