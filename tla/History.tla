------------------------------ MODULE History ------------------------------
(* Durable state across runs: `serve --state` with its find observer and its *)
(* re-checker, a second process folding into the same store, contention, lost *)
(* replies, and the process ending at any point.                            *)
(*                                                                          *)
(* Tasks "o1" and "o2" are checks of the find run, which share the observer's *)
(* connection; "r" is the re-checker with a connection of its own; "x" is the *)
(* observer of another process.  checks is a history variable: every check   *)
(* finished so far, and what the upsert told its caller.                    *)
EXTENDS Store, SequencesExt

CONSTANTS Backends,       \* of "sqlite", "redis", "memory": which are explored
          Samples,        \* what a check of each task can find
          Args,           \* the flags explored: --load given, --countries given
          Loaded,         \* the --load file: of each address its types, and
                          \* whether its country is on the allow-list
          RetryDelays,    \* length of SQLITE_RETRY_DELAYS
          MaxChecks, MaxStarts   \* bounds of the exploration

Task == {"o1", "o2", "r", "x"}

\* A sample counts the requests, errors and milliseconds of one check, and the
\* file names addresses.
ASSUME HistoryAssumption ==
  /\ \A t \in Task : \A s \in Samples[t] :
       s.requests \in Nat /\ s.errors \in Nat /\ s.latency \in Nat
  /\ DOMAIN Loaded \subseteq Addr
  /\ Args # {} /\ Args \subseteq [load : BOOLEAN, countries : BOOLEAN]
  /\ RetryDelays \in Nat

VARIABLES backend, rows, phase, todo, held, task, checks, starts, remembered,
          args,      \* the flags of the running process
          history,   \* proxies load() returned, until the pool takes them
          pool,      \* pooled proxies that came from history or the file
          found      \* addresses pooled from the live find

fillVars == <<args, history, pool, found>>

vars == <<backend, rows, phase, todo, fillVars, held, task, checks, starts, remembered>>

ConnOf(t) == IF t \in {"o1", "o2"} THEN "observer" ELSE t
Conn == {ConnOf(t) : t \in Task}
Ours == Task \ {"x"}

Idle == [at |-> "idle"]
Durable == backend # "memory"
NoProxies == [a \in {} |-> 0]
NoFlags == [load |-> FALSE, countries |-> FALSE]   \* no process, no flags

Init ==
  /\ backend \in Backends
  /\ rows = NoProxies
  /\ phase = "down"
  /\ todo = {}
  /\ args = NoFlags
  /\ history = NoProxies /\ pool = NoProxies /\ found = {}
  /\ held = [c \in Conn |-> FALSE]
  /\ task = [t \in Task |-> Idle]
  /\ checks = <<>>
  /\ starts = 0
  /\ remembered = {}

FromFile == [a \in DOMAIN Loaded |-> unscored(Loaded[a])]

\* The checks whose upsert reported success.
Acked == {i \in DOMAIN checks : checks[i].verdict = "ok"}

-----------------------------------------------------------------------------
(* The process's life: open_state, then the pool, then recheck_store.       *)

\* The pool's country screen.
country_ok(p, flags) == flags.countries => p.listed

Admitted(P, flags) == [a \in {b \in DOMAIN P : country_ok(P[b], flags)} |-> P[a]]

\* serve_cmd hands the history h to the pool: united with the file and screened
\* at once, or left to the importer, ahead of what find brings.
Fill(h, flags) ==
  /\ phase' = "filling"
  /\ found' = {}
  /\ IF flags.load
       THEN pool' = Admitted(union_dedup(h, FromFile), flags) /\ history' = NoProxies
       ELSE pool' = NoProxies /\ history' = h

\* SQLite loads in one SELECT; without --state there is no history at all.
open_state ==
  /\ phase = "down"
  /\ starts < MaxStarts
  /\ starts' = starts + 1
  /\ remembered' = IF Durable THEN Acked ELSE {}
  /\ \E flags \in Args :
       /\ args' = flags
       /\ IF backend = "redis"
            THEN /\ phase' = "loading" /\ todo' = DOMAIN rows
                 /\ history' = NoProxies /\ pool' = NoProxies /\ found' = {}
            ELSE /\ Fill([a \in DOMAIN rows |-> restored(rows[a])], flags)
                 /\ UNCHANGED todo
  /\ UNCHANGED <<backend, rows, held, task, checks>>

\* Redis: SMEMBERS, then one HGETALL per member.
LoadHash(a) ==
  /\ phase = "loading"
  /\ a \in todo
  /\ todo' = todo \ {a}
  /\ history' = [b \in DOMAIN history \cup {a} |->
                   IF b = a THEN restored(rows[a]) ELSE history[b]]
  /\ UNCHANGED <<backend, rows, phase, args, pool, found, held, task, checks, starts,
                 remembered>>

EndLoad ==
  /\ phase = "loading"
  /\ todo = {}
  /\ Fill(history, args)
  /\ UNCHANGED <<backend, rows, todo, args, held, task, checks, starts, remembered>>

Running == phase \in {"filling", "serving"}

\* The importer takes the next proxy of history.chain(find) off the history and
\* screens it ...
ImportHistory(a) ==
  /\ Running
  /\ a \in DOMAIN history
  /\ history' = [b \in DOMAIN history \ {a} |-> history[b]]
  /\ pool' = IF country_ok(history[a], args)
               THEN [b \in DOMAIN pool \cup {a} |-> IF b = a THEN history[a] ELSE pool[b]]
               ELSE pool
  /\ UNCHANGED <<backend, rows, phase, todo, args, found, held, task, checks, starts,
                 remembered>>

\* ... and once that is drained, off the live find, which knows nothing of the
\* history: an address may come a second time.
ImportFound(a) ==
  /\ Running /\ ~args.load
  /\ history = NoProxies
  /\ found' = found \cup {a}
  /\ UNCHANGED <<backend, rows, phase, todo, args, history, pool, held, task, checks,
                 starts, remembered>>

recheck_store ==
  /\ phase = "filling"
  /\ phase' = "serving"
  /\ UNCHANGED <<backend, rows, todo, fillVars, held, task, checks, starts, remembered>>

\* Ctrl-C, a kill, or a `?` in serve_cmd: tasks and locks vanish with the
\* process, and so does a MemoryStore.
ProcessEnds ==
  /\ phase # "down"
  /\ phase' = "down"
  /\ todo' = {}
  /\ args' = NoFlags
  /\ history' = NoProxies /\ pool' = NoProxies /\ found' = {}
  /\ task' = [t \in Task |-> IF t \in Ours THEN Idle ELSE task[t]]
  /\ held' = [c \in Conn |-> c = "x" /\ held[c]]
  /\ rows' = IF Durable THEN rows ELSE NoProxies
  /\ checks' = IF Durable THEN checks ELSE <<>>
  /\ UNCHANGED <<backend, starts, remembered>>

-----------------------------------------------------------------------------
(* Checks and the upsert that follows each.                                 *)

CanCheck(t) ==
  CASE t \in {"o1", "o2"} -> Durable /\ Running /\ ~args.load
    [] t = "r" -> phase = "serving"
    [] OTHER -> Durable

Fresh_Pooled(t, a, s) ==
  IF t = "r" /\ a \in DOMAIN pool THEN [s EXCEPT !.requests = @ + pool[a].requests] ELSE s

\* What a check hands to upsert: a proxy made by Proxy::new for this check, so
\* the statistics it carries are those of the check alone.
Fresh(t, a, s) == s

CheckEnds(t) ==
  /\ task[t] = Idle
  /\ CanCheck(t)
  /\ Len(checks) < MaxChecks
  /\ \E a \in (IF t = "r" THEN DOMAIN pool \cup found ELSE Addr), s \in Samples[t] :
       /\ checks' = Append(checks, [addr |-> a, sample |-> s, verdict |-> "open"])
       /\ task' = [task EXCEPT ![t] =
            [at |-> "waiting", addr |-> a, sample |-> Fresh(t, a, s), id |-> Len(checks) + 1]]
  /\ UNCHANGED <<backend, rows, phase, todo, fillVars, held, starts, remembered>>

\* conn.lock().unwrap()
Lock(t) ==
  /\ task[t].at = "waiting"
  /\ ~held[ConnOf(t)]
  /\ held' = [held EXCEPT ![ConnOf(t)] = TRUE]
  /\ task' = [task EXCEPT ![t] = [at |-> "writing", addr |-> @.addr, sample |-> @.sample,
                                  id |-> @.id, left |-> RetryDelays]]
  /\ UNCHANGED <<backend, rows, phase, todo, fillVars, checks, starts, remembered>>

Execute(t) == rows' = upsert(rows, task[t].addr, task[t].sample)

\* The caller learns the outcome, and the connection's lock is dropped.
Tell(t, verdict) ==
  /\ checks' = [checks EXCEPT ![task[t].id].verdict = verdict]
  /\ task' = [task EXCEPT ![t] = Idle]
  /\ held' = [held EXCEPT ![ConnOf(t)] = FALSE]

Commit(t) ==
  /\ task[t].at = "writing"
  /\ Execute(t)
  /\ task' = [task EXCEPT ![t].at = "committed"]
  /\ UNCHANGED <<backend, phase, todo, fillVars, held, checks, starts, remembered>>

Return(t) ==
  /\ task[t].at = "committed"
  /\ Tell(t, "ok")
  /\ UNCHANGED <<backend, rows, phase, todo, fillVars, starts, remembered>>

Busy_KeepsLock(t) ==
  /\ task[t].at = "writing"
  /\ backend = "sqlite"
  /\ IF task[t].left > 0
       THEN task' = [task EXCEPT ![t].left = @ - 1] /\ UNCHANGED checks
       ELSE /\ task' = [task EXCEPT ![t] = Idle]
            /\ checks' = [checks EXCEPT ![task[t].id].verdict = "err"]
  /\ UNCHANGED <<backend, rows, phase, todo, fillVars, held, starts, remembered>>

\* retry_sqlite_contention: another connection is writing.  Every busy answer
\* but the last is followed by a pause and another attempt.
Busy(t) ==
  /\ task[t].at = "writing"
  /\ backend = "sqlite"
  /\ IF task[t].left > 0
       THEN /\ task' = [task EXCEPT ![t].left = @ - 1]
            /\ UNCHANGED <<held, checks>>
       ELSE Tell(t, "err")
  /\ UNCHANGED <<backend, rows, phase, todo, fillVars, starts, remembered>>

\* Any other database error is returned at once.
Refused(t) ==
  /\ task[t].at = "writing"
  /\ Durable
  /\ Tell(t, "err")
  /\ UNCHANGED <<backend, rows, phase, todo, fillVars, starts, remembered>>

\* Redis ran the script and the connection broke before the reply: the read
\* fails, and nothing retries it.
ReplyLost(t) ==
  /\ task[t].at = "writing"
  /\ backend = "redis"
  /\ Execute(t)
  /\ Tell(t, "err")
  /\ UNCHANGED <<backend, phase, todo, fillVars, starts, remembered>>

\* The server falls silent, the script executed or not.  The connection has no
\* read timeout, so the thread waits for ever with the mutex locked.
Silence(t) ==
  /\ task[t].at = "writing"
  /\ backend = "redis"
  /\ Execute(t) \/ UNCHANGED rows
  /\ task' = [task EXCEPT ![t].at = "silent"]
  /\ UNCHANGED <<backend, phase, todo, fillVars, held, checks, starts, remembered>>

Works(t) ==
  \/ Lock(t) \/ Commit(t) \/ Return(t)
  \/ Busy(t) \/ Refused(t) \/ ReplyLost(t) \/ Silence(t)

Next ==
  \/ open_state
  \/ \E a \in Addr : LoadHash(a)
  \/ EndLoad
  \/ \E a \in Addr : ImportHistory(a)
  \/ \E a \in Addr : ImportFound(a)
  \/ recheck_store
  \/ ProcessEnds
  \/ \E t \in Task : CheckEnds(t)
  \/ \E t \in Task : Lock(t)
  \/ \E t \in Task : Commit(t)
  \/ \E t \in Task : Return(t)
  \/ \E t \in Task : Busy(t)
  \/ \E t \in Task : Refused(t)
  \/ \E t \in Task : ReplyLost(t)
  \/ \E t \in Task : Silence(t)

\* A thread inside upsert keeps running, though Redis may leave it waiting for
\* good; starting a check, ending the process
\* or opening the store is nobody's duty.
Spec == Init /\ [][Next]_vars /\ \A t \in Task : WF_vars(Works(t))
-----------------------------------------------------------------------------
(* Properties.                                                              *)

Row == [types : {s.types : s \in UNION {Samples[t] : t \in Task}} \cup {{}},
        requests : Nat, errors : Nat, ewma : 0..Scale, latency : Nat, uptime : Nat]

ArePooled(P) ==
  DOMAIN P \subseteq Addr /\ \A a \in DOMAIN P : P[a].requests \in Nat /\ P[a].ewma \in 0..Scale

\* Rows, the warm pool and the locks have their types; a success average is a
\* probability, whatever order the samples were folded in.
TypeOK ==
  /\ DOMAIN rows \subseteq Addr
  /\ \A a \in DOMAIN rows : rows[a] \in Row
  /\ ArePooled(history) /\ ArePooled(pool)
  /\ found \subseteq Addr
  /\ args \in [load : BOOLEAN, countries : BOOLEAN]
  /\ held \in [Conn -> BOOLEAN]
  /\ phase \in {"down", "loading", "filling", "serving"}
  /\ todo \subseteq Addr

\* The row that upserts of the samples q, one after the other, leave behind.
Folds(q) ==
  LET row[k \in DOMAIN q] == IF k = 1 THEN inserted(q[1]) ELSE folded(row[k - 1], q[k])
  IN row[Len(q)]

\* What a row of address a may be: the fold, in some order, of a set of its
\* checks that has all of must, and none whose upsert reported an error (but
\* Redis may have executed a script whose reply was lost).
Explanations(a, must) ==
  LET mine == {i \in DOMAIN checks : checks[i].addr = a
                   /\ (checks[i].verdict = "err" => backend = "redis")}
      sets == {S \in SUBSET mine : S # {} /\ {i \in must : checks[i].addr = a} \subseteq S}
  IN {Folds([k \in DOMAIN q |-> checks[q[k]].sample]) : q \in UNION {SetToSeqs(S) : S \in sets}}

\* Upserts are linearizable across both connections, another process, retries,
\* lost replies and crashes: every row holds each acknowledged check once, no
\* check twice, and restored statistics are never folded in a second time.
RowsExplained ==
  /\ TypeOK
  /\ \A a \in Addr :
       IF a \in DOMAIN rows
         THEN rows[a] \in Explanations(a, Acked)
         ELSE \A i \in Acked : checks[i].addr # a

\* Proxy p says of its address what row x does.
Shows(p, x) ==
  /\ p.types = x.types
  /\ p.requests = x.requests
  /\ p.errors = x.errors
  /\ p.ewma = x.ewma
  /\ p.runtimes = {x.latency} \ {0}

\* The remembered proxies: queued for the importer, or pooled.
Kept == union_dedup(history, pool)

\* Without a country allow-list, a warm start forgets nothing that was
\* acknowledged before it: every such address is pooled or next for the
\* importer, with the types its last successful check confirmed and its exact
\* error rate, whatever the --load file or the live find says of it.
WarmStartRemembers ==
  Running /\ ~args.countries =>
    \A i \in remembered :
      LET a == checks[i].addr
      IN a \in DOMAIN Kept /\ \E x \in Explanations(a, remembered) : Shows(Kept[a], x)

\* Redis owes an answer to a task on the connection of t.
Unanswered(t) == \E u \in Task : ConnOf(u) = ConnOf(t) /\ task[u].at = "silent"

\* Every upsert returns: the mutex of a connection is passed on, and contention
\* is retried a bounded number of times.  It takes the end of the process, or a
\* Redis server that falls silent on the same connection, to hold it up: silence
\* on one connection does not reach the other.
UpsertReturns ==
  \A t \in Task : task[t].at = "waiting" ~> task[t].at = "idle" \/ Unanswered(t)
=============================================================================
