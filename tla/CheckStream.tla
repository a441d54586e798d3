---------------------------- MODULE CheckStream ----------------------------
(***************************************************************************)
(* The check pipeline behind Broker::find and Broker::check (broker.rs,    *)
(* check_stream): a driver takes candidates from a source, waits for a     *)
(* semaphore permit and spawns one task per candidate; a task races its    *)
(* check against cancellation, records the outcome, reserves one of the    *)
(* Limit slots and sends the proxy down a bounded channel.                 *)
(*                                                                         *)
(*   driver   next -> got -> acquire -> next ... -> drain -> done          *)
(*   task     idle -> checking -> reserve -> send -> [cancel] -> finished  *)
(*                                                                         *)
(* A candidate is a source item; AddrOf gives its address, which find (not *)
(* check) uses to drop repeats.                                            *)
(***************************************************************************)
EXTENDS Integers, Sequences, FiniteSets

CONSTANTS
  Cand,             \* the items the source may yield
  AddrOf,           \* AddrOf[p]: the (host, port) of p
  Parsed,           \* the items whose host is an IP address
  Screened,         \* those that pass the country filter
  Dedup,            \* TRUE: find; FALSE: check, which does not dedup
  MaxConn,          \* FindQuery::max_conn
  Limit,            \* FindQuery::limit
  Unlimited,        \* no limit
  CHANNEL_CAPACITY

ASSUME CheckStreamAssumption ==
  /\ IsFiniteSet(Cand)
  /\ AddrOf \in [Cand -> {AddrOf[p] : p \in Cand}]
  /\ Screened \subseteq Parsed /\ Parsed \subseteq Cand
  /\ Dedup \in BOOLEAN
  /\ MaxConn \in Nat
  /\ Limit \in Nat \cup {Unlimited}
  /\ Unlimited \notin Nat
  /\ CHANNEL_CAPACITY \in Nat \ {0}

VARIABLES
  good,      \* the candidates whose check will succeed and pass the filter
  source,    \* the items not yet yielded
  seen,      \* the addresses find has let through
  driver,    \* next, got, acquire, drain or done
  cand,      \* the candidate the driver holds
  permits,   \* free permits of the semaphore
  task,      \* task[p]: the state of p's check task
  sent,      \* the atomic slot counter
  slot,      \* slot[p]: the slot p reserved
  cancelled, \* the CancellationToken
  recorded,  \* the candidates in the StatsCollector
  chan,      \* the mpsc channel
  rx,        \* the consumer: open, closing or closed
  out        \* history: everything sent, in order

vars == <<good, source, seen, driver, cand, permits, task, sent, slot,
          cancelled, recorded, chan, rx, out>>

TaskStates == {"idle", "checking", "reserve", "send", "cancel", "finished"}

\* The task exists and holds its permit.
Active == {p \in Cand : task[p] \in {"checking", "reserve", "send", "cancel"}}

TypeOK ==
  /\ good \subseteq Cand /\ source \subseteq Cand /\ recorded \subseteq Cand
  /\ seen \subseteq {AddrOf[p] : p \in Cand}
  /\ driver \in {"next", "got", "acquire", "drain", "done"}
  /\ cand \subseteq Cand
  /\ permits \in Nat /\ sent \in Nat
  /\ task \in [Cand -> TaskStates]
  /\ slot \in [Cand -> Nat]
  /\ cancelled \in BOOLEAN
  /\ chan \in Seq(Cand) /\ out \in Seq(Cand)
  /\ rx \in {"open", "closing", "closed"}

Init ==
  /\ good \in SUBSET Cand
  /\ source = Cand /\ seen = {}
  /\ driver = "next" /\ cand = {}
  /\ permits = MaxConn
  /\ task = [p \in Cand |-> "idle"]
  /\ sent = 0 /\ slot = [p \in Cand |-> 0]
  /\ cancelled = FALSE
  /\ recorded = {}
  /\ chan = << >> /\ rx = "open" /\ out = << >>

-----------------------------------------------------------------------------
\* The slots are all reserved.
is_limit_reached == Limit # Unlimited /\ sent >= Limit

\* The source of find screens an item: it must parse, be new, and pass the
\* country filter, in this order.  That of check lets repeats through.
Fresh(p) == p \in Parsed /\ (Dedup => AddrOf[p] \notin seen)

SourceYield(p) ==
  /\ driver = "next"
  /\ p \in source
  /\ source' = source \ {p}
  /\ seen' = IF Dedup /\ Fresh(p) THEN seen \cup {AddrOf[p]} ELSE seen
  /\ \/ /\ Fresh(p) /\ p \in Screened
        /\ driver' = "got"
        /\ cand' = {p}
     \/ /\ ~(Fresh(p) /\ p \in Screened)
        /\ UNCHANGED <<driver, cand>>
  /\ UNCHANGED <<good, permits, task, sent, slot, cancelled, recorded, chan,
                 rx, out>>

\* The source ends, which it may do at any point.
SourceEnd ==
  /\ driver = "next"
  /\ driver' = "drain"
  /\ UNCHANGED <<good, source, seen, cand, permits, task, sent, slot,
                 cancelled, recorded, chan, rx, out>>

\* Stop on cancellation or a spent limit, else go for a permit.
Admit ==
  /\ driver = "got"
  /\ \/ /\ cancelled \/ is_limit_reached
        /\ driver' = "drain"
        /\ cand' = {}
     \/ /\ ~(cancelled \/ is_limit_reached)
        /\ driver' = "acquire"
        /\ UNCHANGED cand
  /\ UNCHANGED <<good, source, seen, permits, task, sent, slot, cancelled,
                 recorded, chan, rx, out>>

\* Mutant: the task is spawned without waiting for a permit.
Spawn_NoWait(p) ==
  /\ driver = "acquire"
  /\ cand = {p}
  /\ permits' = permits - 1
  /\ task' = [task EXCEPT ![p] = "checking"]
  /\ driver' = "next"
  /\ cand' = {}
  /\ UNCHANGED <<good, source, seen, sent, slot, cancelled, recorded, chan, rx,
                 out>>

\* The permit moves into the task; nothing is checked again.
Spawn(p) ==
  /\ driver = "acquire"
  /\ cand = {p}
  /\ permits > 0
  /\ permits' = permits - 1
  /\ task' = [task EXCEPT ![p] = "checking"]
  /\ driver' = "next"
  /\ cand' = {}
  /\ UNCHANGED <<good, source, seen, sent, slot, cancelled, recorded, chan, rx,
                 out>>

\* tracker.wait: every task has finished, and the driver drops its sender.
Drained ==
  /\ driver = "drain"
  /\ Active = {}
  /\ driver' = "done"
  /\ UNCHANGED <<good, source, seen, cand, permits, task, sent, slot,
                 cancelled, recorded, chan, rx, out>>

-----------------------------------------------------------------------------
\* Mutant: the permit is not dropped with the task.
Finish_KeepsPermit(p) ==
  /\ task' = [task EXCEPT ![p] = "finished"]
  /\ UNCHANGED permits

\* The task of p ends and its permit is dropped.
Finish(p) ==
  /\ task' = [task EXCEPT ![p] = "finished"]
  /\ permits' = permits + 1

\* Mutant: the whole task, and not only its check, races the cancellation.
Abort_AlsoSend(p) ==
  /\ task[p] \in {"checking", "send"}
  /\ cancelled
  /\ Finish(p)
  /\ UNCHANGED <<good, source, seen, driver, cand, sent, slot, cancelled,
                 recorded, chan, rx, out>>

\* The select takes the cancellation branch.
Abort(p) ==
  /\ task[p] = "checking"
  /\ cancelled
  /\ Finish(p)
  /\ UNCHANGED <<good, source, seen, driver, cand, sent, slot, cancelled,
                 recorded, chan, rx, out>>

\* Mutant: only the working proxies are recorded.
Checked_WorkingOnly(p) ==
  /\ task[p] = "checking"
  /\ \/ /\ p \in good
        /\ recorded' = recorded \cup {p}
        /\ task' = [task EXCEPT ![p] = "reserve"]
        /\ UNCHANGED permits
     \/ /\ p \notin good
        /\ Finish(p)
        /\ UNCHANGED recorded
  /\ UNCHANGED <<good, source, seen, driver, cand, sent, slot, cancelled, chan,
                 rx, out>>

\* The select takes the check: record it, then go on only if it is wanted.
Checked(p) ==
  /\ task[p] = "checking"
  /\ recorded' = recorded \cup {p}
  /\ \/ /\ p \in good
        /\ task' = [task EXCEPT ![p] = "reserve"]
        /\ UNCHANGED permits
     \/ /\ p \notin good
        /\ Finish(p)
  /\ UNCHANGED <<good, source, seen, driver, cand, sent, slot, cancelled, chan,
                 rx, out>>

\* Mutant: the limit is tested with > in place of >=.
Reserve_OneMore(p) ==
  /\ task[p] = "reserve"
  /\ sent' = sent + 1
  /\ slot' = [slot EXCEPT ![p] = sent]
  /\ \/ /\ Limit # Unlimited /\ sent > Limit
        /\ cancelled' = TRUE
        /\ Finish(p)
     \/ /\ Limit = Unlimited \/ sent <= Limit
        /\ task' = [task EXCEPT ![p] = "send"]
        /\ UNCHANGED <<cancelled, permits>>
  /\ UNCHANGED <<good, source, seen, driver, cand, recorded, chan, rx, out>>

\* fetch_add: below the limit the slot is ours, else the run is over.
Reserve(p) ==
  /\ task[p] = "reserve"
  /\ sent' = sent + 1
  /\ slot' = [slot EXCEPT ![p] = sent]
  /\ \/ /\ is_limit_reached
        /\ cancelled' = TRUE
        /\ Finish(p)
     \/ /\ ~is_limit_reached
        /\ task' = [task EXCEPT ![p] = "send"]
        /\ UNCHANGED <<cancelled, permits>>
  /\ UNCHANGED <<good, source, seen, driver, cand, recorded, chan, rx, out>>

\* What follows the send: the task of the last slot cancels the run.
AfterSend(p) ==
  IF Limit # Unlimited /\ slot[p] + 1 >= Limit
  THEN task' = [task EXCEPT ![p] = "cancel"] /\ UNCHANGED permits
  ELSE Finish(p)

\* tx.send waits for room; cancellation does not interrupt it.
Send(p) ==
  /\ task[p] = "send"
  /\ rx = "open"
  /\ Len(chan) < CHANNEL_CAPACITY
  /\ chan' = Append(chan, p)
  /\ out' = Append(out, p)
  /\ AfterSend(p)
  /\ UNCHANGED <<good, source, seen, driver, cand, sent, slot, cancelled,
                 recorded, rx>>

\* The receiver is gone: send fails at once and its error is ignored.
SendFails(p) ==
  /\ task[p] = "send"
  /\ rx # "open"
  /\ AfterSend(p)
  /\ UNCHANGED <<good, source, seen, driver, cand, sent, slot, cancelled,
                 recorded, chan, rx, out>>

Cancel(p) ==
  /\ task[p] = "cancel"
  /\ cancelled' = TRUE
  /\ Finish(p)
  /\ UNCHANGED <<good, source, seen, driver, cand, sent, slot, recorded, chan,
                 rx, out>>

-----------------------------------------------------------------------------
\* The consumer takes an item.
Receive ==
  /\ rx = "open"
  /\ chan # << >>
  /\ chan' = Tail(chan)
  /\ UNCHANGED <<good, source, seen, driver, cand, permits, task, sent, slot,
                 cancelled, recorded, rx, out>>

\* The consumer drops the ProxyStream: its receiver first, then the guard
\* that cancels the run.
DropReceiver ==
  /\ rx = "open"
  /\ rx' = "closing"
  /\ chan' = << >>
  /\ UNCHANGED <<good, source, seen, driver, cand, permits, task, sent, slot,
                 cancelled, recorded, out>>

DropGuard ==
  /\ rx = "closing"
  /\ rx' = "closed"
  /\ cancelled' = TRUE
  /\ UNCHANGED <<good, source, seen, driver, cand, permits, task, sent, slot,
                 recorded, chan, out>>

Driving == Admit \/ Drained \/ \E p \in Cand : Spawn(p)

Sourcing == SourceEnd \/ \E p \in Cand : SourceYield(p)

\* The end of p's check, by itself or by cancellation.
Checking(p) == Abort(p) \/ Checked(p)

Running(p) == Reserve(p) \/ Send(p) \/ SendFails(p) \/ Cancel(p)

Consuming == Receive \/ DropReceiver \/ DropGuard

Next ==
  \/ Sourcing \/ Driving \/ Consuming
  \/ \E p \in Cand : Checking(p) \/ Running(p)

Spec == Init /\ [][Next]_vars

(***************************************************************************)
(* Ready futures are polled, every check is bounded by its timeouts, and a *)
(* consumer that stays keeps receiving.  Nothing is promised of the source *)
(* (FairSpec); each provider fetch is bounded by its request timeout, so   *)
(* find's source does go on (FairFind).                                    *)
(***************************************************************************)
FairSpec ==
  /\ Spec
  /\ WF_vars(Driving) /\ WF_vars(Receive) /\ WF_vars(DropGuard)
  /\ \A p \in Cand : WF_vars(Checking(p)) /\ WF_vars(Running(p))

FairFind == FairSpec /\ WF_vars(Sourcing)

-----------------------------------------------------------------------------
(***************************************************************************)
(* The pipeline implements ProxyStream: it emits good candidates, each one *)
(* once (and from find each address once), at most Limit of them, however  *)
(* the checks interleave and whoever cancels, and nothing after the driver *)
(* has dropped its sender.                                                 *)
(***************************************************************************)
Stream == INSTANCE ProxyStream WITH wanted <- good, ended <- driver = "done"

ImplementsStream == Stream!Spec

(***************************************************************************)
(* The limit is exact.  A slot is reserved before the send and the send is *)
(* never aborted, so a run that ends with its consumer still listening has *)
(* emitted Limit proxies, or else, the limit not being reached, every good *)
(* candidate the source let through.                                       *)
(***************************************************************************)
ExactLimit ==
  driver = "done" /\ rx = "open" =>
    \/ Limit # Unlimited /\ Len(out) = Limit
    \/ /\ Limit # Unlimited => Len(out) < Limit
       /\ \A p \in Cand : p \in good /\ task[p] # "idle" =>
            \E i \in DOMAIN out : out[i] = p

(***************************************************************************)
(* Backpressure.  The permits free and the tasks alive always add up to    *)
(* max_conn: an aborted, failed, late or blocked check neither leaks its   *)
(* permit nor returns it twice.                                            *)
(***************************************************************************)
PermitsConserved == permits + Cardinality(Active) = MaxConn

(***************************************************************************)
(* Nothing reaches the consumer unrecorded: the statistics read after the  *)
(* stream is drained cover at least everything it emitted, and exactly the *)
(* spawned checks when nothing was cancelled.                              *)
(***************************************************************************)
StatsCoverOutput ==
  /\ \A i \in DOMAIN out : out[i] \in recorded
  /\ driver = "done" /\ ~cancelled =>
       recorded = {p \in Cand : task[p] # "idle"}

(***************************************************************************)
(* A run over a source that goes on comes to its end: by exhaustion, by    *)
(* the limit, or because its consumer left.                                *)
(***************************************************************************)
RunEnds == MaxConn > 0 => <>(driver = "done")
=============================================================================
