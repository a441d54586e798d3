-------------------------------- MODULE Pool --------------------------------
(***************************************************************************)
(* The proxy pool (server.rs, struct Pool): a Vec of checked proxies that  *)
(* an importer fills, callers check proxies out of and put back, and other *)
(* tasks add to and remove from, under any interleaving.                   *)
(*                                                                         *)
(* One action is one critical section of the code.  A caller of get walks  *)
(*                                                                         *)
(*   idle -> [pin] -> clock -> select -> [record] -> [verify] -> held      *)
(*                             |                                           *)
(*                             +-> empty -> wait -> arm -> [pin] ...       *)
(*                                   |                                     *)
(*                                   +-> one last look -> none             *)
(*                                                                         *)
(* and a put is a push under the lock followed by a separate notify.       *)
(***************************************************************************)
EXTENDS Selection

CONSTANTS
  Caller,        \* tasks that call get
  Key,           \* ClientKeys
  KeyOf,         \* KeyOf[c]: the key caller c presents
  NoProxy,       \* no lease
  Gate,          \* the serve task blocked in wait_ready
  Mcp,           \* the MCP get_proxy handler
  Strategy,      \* PoolConfig::strategy
  VerifyOnLease, \* PoolConfig::verify_on_lease is set
  FailTimeout,   \* PoolConfig::fail_timeout, in clock ticks
  MaxSessions,   \* PoolConfig::max_sessions
  MinReq,        \* PoolConfig::min_req
  MaxErrorRate,  \* PoolConfig::max_error_rate, in hundredths
  MaxRespTime,   \* PoolConfig::max_resp_time, in hundredths of a second
  MinQueue,      \* the n of wait_ready
  VERIFY_MAX_ATTEMPTS,
  CountryOk,     \* the items that pass the pool's country filter
  Spawned,       \* TRUE: Pool::spawn over a stream; FALSE: from_proxies
  Live,          \* the proxies able to open a tunnel to verify_target
  Addable,       \* addresses the re-check loop or the watcher may add
  Removable,     \* addresses that may be removed from a running pool
  Regions,       \* what the country filters of get_proxy select, Addr for none
  Droppable,     \* callers whose future may be dropped: the connector's
  MaxCalls,      \* bound: calls of get
  MaxTime        \* bound: clock ticks

ASSUME PoolAssumption ==
  /\ KeyOf \in [Caller -> Key]
  /\ NoProxy \notin Proxies
  /\ Gate \notin Caller /\ Mcp \notin Caller
  /\ (Caller \cup {Mcp}) \cap {"source", "pool", "gone"} = {}
  /\ IsFiniteSet(Addr) /\ IsFiniteSet(Item)
  /\ Strategy \in Strategies
  /\ VerifyOnLease \in BOOLEAN /\ Spawned \in BOOLEAN
  /\ {FailTimeout, MaxSessions, MinReq, MaxErrorRate, MaxRespTime} \subseteq Nat
  /\ {MinQueue, MaxCalls, MaxTime} \subseteq Nat
  /\ VERIFY_MAX_ATTEMPTS \in Nat \ {0}
  /\ CountryOk \subseteq Item /\ Live \subseteq Addr
  /\ Addable \subseteq Addr /\ Removable \subseteq Addr
  /\ Regions \subseteq SUBSET Addr /\ Droppable \subseteq Caller

VARIABLES
  state,       \* Pool::state
  sessions,    \* Pool::sessions, NoAddr where a key has no pin
  round_robin, \* Pool::round_robin
  exhausted,   \* Pool::exhausted
  evictions,   \* Pool::evictions
  now,         \* the clock
  source,      \* the proxies the imported stream has yet to yield
  feed,        \* the importer: next, notify, endnotify or done
  gate,        \* wait_ready: arm, len, exh, wait or open
  woken,       \* who has been notified since it created its Notified future
  pc,          \* pc[c]: where caller c is
  req,         \* req[c]: the locals of c's get
  lease,       \* lease[h]: the proxy that caller h, or the MCP handler, holds
  after,       \* after[c]: where c goes once its put has notified
  calls        \* the calls of get made so far

poolVars == <<state, sessions, round_robin, exhausted, evictions>>
envVars == <<now, source, feed, gate>>
vars == <<state, sessions, round_robin, exhausted, evictions, now, source,
          feed, gate, woken, pc, req, lease, after, calls>>

\* The locals of get and try_select: the scheme asked for, the pin, cursor
\* and clock read before the pool is locked, whether this is the last look,
\* and the proxies already found dead.
Requests == [scheme : Scheme, pin : Addr \cup {NoAddr}, cursor : Nat, t : Nat,
             last : BOOLEAN, probes : 0..VERIFY_MAX_ATTEMPTS]

\* A request before, or after, a selection: nothing read yet, or any more.
Request(s, last, probes) ==
  [scheme |-> s, pin |-> NoAddr, cursor |-> 0, t |-> 0, last |-> last,
   probes |-> probes]

\* Between notified() and waker.await: a notify_waiters now is not missed.
Armed == {"pin", "clock", "select", "empty", "wait"}

Holder == Caller \cup {Mcp}

Pcs == Armed \cup {"idle", "arm", "record", "verify", "held", "notify", "none"}

TypeOK ==
  /\ state \in Seq(Entries)
  /\ sessions \in [Key -> Addr \cup {NoAddr}]
  /\ round_robin \in Nat /\ evictions \in Nat /\ now \in Nat
  /\ exhausted \in BOOLEAN
  /\ source \subseteq Item
  /\ feed \in {"next", "notify", "endnotify", "done"}
  /\ gate \in {"arm", "len", "exh", "wait", "open"}
  /\ woken \subseteq Caller \cup {Gate}
  /\ pc \in [Caller -> Pcs]
  /\ req \in [Caller -> Requests]
  /\ lease \in [Holder -> Proxies \cup {NoProxy}]
  /\ after \in [Caller -> {"idle", "arm", "none"}]
  /\ calls \in Nat

Entry(p, until) == [p |-> p, until |-> until]

\* Item x as it arrives.
Arrival(x) == Entry(Checked(AddrOf[x], x), 0)

(***************************************************************************)
(* Initially the pool is either empty with an importer behind it (spawn),  *)
(* or holds the given proxies, screened by country and in any order, and   *)
(* counts as exhausted at once (from_proxies).  Neither looks for          *)
(* duplicates: `serve --state` chains the stored history and a find that   *)
(* may find the same address again, and a --load file may repeat a line.   *)
(***************************************************************************)
spawn ==
  /\ Spawned
  /\ state = << >>
  /\ exhausted = FALSE
  /\ source = Item
  /\ feed = "next"

from_proxies ==
  /\ ~Spawned
  /\ \E f \in [1..Cardinality(CountryOk) -> CountryOk] :
       /\ \A i, j \in DOMAIN f : f[i] = f[j] => i = j
       /\ state = [i \in DOMAIN f |-> Arrival(f[i])]
  /\ exhausted = TRUE
  /\ source = {}
  /\ feed = "done"

Init ==
  /\ spawn \/ from_proxies
  /\ sessions = [k \in Key |-> NoAddr]
  /\ round_robin = 0 /\ evictions = 0 /\ now = 0
  /\ gate = IF MinQueue = 0 THEN "open" ELSE "arm"
  /\ woken = {}
  /\ pc = [c \in Caller |-> "idle"]
  /\ req = [c \in Caller |-> Request("http", FALSE, 0)]
  /\ lease = [h \in Holder |-> NoProxy]
  /\ after = [c \in Caller |-> "idle"]
  /\ calls = 0

-----------------------------------------------------------------------------
Move(c, from, to) == pc[c] = from /\ pc' = [pc EXCEPT ![c] = to]

\* Mutant: the futures are created only when the tasks go to sleep.
notify_waiters_AsleepOnly ==
  woken' = woken \cup {c \in Caller : pc[c] = "wait"}
                 \cup (IF gate = "wait" THEN {Gate} ELSE {})

\* Notify::notify_waiters: every future created and not yet consumed fires.
notify_waiters ==
  woken' = woken \cup {c \in Caller : pc[c] \in Armed}
                 \cup (IF gate \in {"len", "exh", "wait"} THEN {Gate} ELSE {})

Tick == now < MaxTime /\ now' = now + 1
        /\ UNCHANGED <<poolVars, source, feed, gate, woken, pc, req, lease,
                       after, calls>>

\* The importer: screen, push, and only then notify.
Import(x) ==
  /\ feed = "next"
  /\ x \in source
  /\ source' = source \ {x}
  /\ \/ /\ x \in CountryOk
        /\ state' = Append(state, Arrival(x))
        /\ feed' = "notify"
     \/ /\ x \notin CountryOk
        /\ UNCHANGED <<state, feed>>
  /\ UNCHANGED <<sessions, round_robin, exhausted, evictions, now, gate, woken,
                 pc, req, lease, after, calls>>

ImportNotify ==
  /\ feed \in {"notify", "endnotify"}
  /\ feed' = IF feed = "notify" THEN "next" ELSE "done"
  /\ notify_waiters
  /\ UNCHANGED <<poolVars, now, source, gate, pc, req, lease, after, calls>>

\* The stream ends, which it may do at any point.
SourceEnd ==
  /\ feed = "next"
  /\ exhausted' = TRUE
  /\ feed' = "endnotify"
  /\ UNCHANGED <<state, sessions, round_robin, evictions, now, source, gate,
                 woken, pc, req, lease, after, calls>>

-----------------------------------------------------------------------------
\* wait_ready: the future is created before the pool is inspected.
GateArm ==
  /\ gate = "arm"
  /\ gate' = "len"
  /\ woken' = woken \ {Gate}
  /\ UNCHANGED <<poolVars, now, source, feed, pc, req, lease, after, calls>>

GateLen ==
  /\ gate = "len"
  /\ gate' = IF Len(state) >= MinQueue THEN "open" ELSE "exh"
  /\ UNCHANGED <<poolVars, now, source, feed, woken, pc, req, lease, after,
                 calls>>

\* Mutant: the gate does not look at the end of the source.
GateExhausted_Ignored ==
  /\ gate = "exh"
  /\ gate' = "wait"
  /\ UNCHANGED <<poolVars, now, source, feed, woken, pc, req, lease, after,
                 calls>>

GateExhausted ==
  /\ gate = "exh"
  /\ gate' = IF exhausted THEN "open" ELSE "wait"
  /\ UNCHANGED <<poolVars, now, source, feed, woken, pc, req, lease, after,
                 calls>>

GateWake ==
  /\ gate = "wait"
  /\ Gate \in woken
  /\ gate' = "arm"
  /\ UNCHANGED <<poolVars, now, source, feed, woken, pc, req, lease, after,
                 calls>>

-----------------------------------------------------------------------------
\* The first step of try_select.
TrySelect == IF Strategy \in {"RoundRobin", "Sticky"} THEN "pin" ELSE "clock"

get(c, s) ==
  /\ Move(c, "idle", TrySelect)
  /\ calls < MaxCalls
  /\ calls' = calls + 1
  /\ req' = [req EXCEPT ![c] = Request(s, FALSE, 0)]
  /\ woken' = woken \ {c}
  /\ UNCHANGED <<poolVars, envVars, lease, after>>

Arm(c) ==
  /\ Move(c, "arm", TrySelect)
  /\ woken' = woken \ {c}
  /\ UNCHANGED <<poolVars, envVars, req, lease, after, calls>>

\* The pin, the cursor and then the clock are read before the pool is locked.
ReadPin(c) ==
  /\ Move(c, "pin", "clock")
  /\ req' = IF Strategy = "Sticky"
            THEN [req EXCEPT ![c].pin = sessions[KeyOf[c]]]
            ELSE [req EXCEPT ![c].cursor = round_robin]
  /\ UNCHANGED <<poolVars, envVars, woken, lease, after, calls>>

ReadClock(c) ==
  /\ Move(c, "clock", "select")
  /\ req' = [req EXCEPT ![c].t = now]
  /\ UNCHANGED <<poolVars, envVars, woken, lease, after, calls>>

Picks(c) == best_for(state, Strategy, req[c].scheme, req[c].pin, req[c].cursor,
                     req[c].t)

\* Where get goes with a proxy in hand; the last look is not verified.
Selected(c) == IF VerifyOnLease /\ ~req[c].last THEN "verify" ELSE "held"

\* The locals once the selection is made.
Spent(c) == [req EXCEPT ![c] = Request(@.scheme, @.last, @.probes)]

Select(c) ==
  /\ \E i \in Picks(c) :
       /\ lease' = [lease EXCEPT ![c] = state[i].p]
       /\ state' = swap_remove(state, i)
  /\ Move(c, "select", IF Strategy \in {"RoundRobin", "Sticky"}
                       THEN "record" ELSE Selected(c))
  /\ req' = Spent(c)
  /\ UNCHANGED <<sessions, round_robin, exhausted, evictions, envVars, woken,
                 after, calls>>

\* Mutant: an empty pool is None at once.
SelectNone_GivesUp(c) ==
  /\ EligibleIdx(state, req[c].scheme) = {}
  /\ Move(c, "select", "none")
  /\ req' = Spent(c)
  /\ UNCHANGED <<poolVars, envVars, woken, lease, after, calls>>

SelectNone(c) ==
  /\ EligibleIdx(state, req[c].scheme) = {}
  /\ Move(c, "select", IF req[c].last THEN "none" ELSE "empty")
  /\ req' = Spent(c)
  /\ UNCHANGED <<poolVars, envVars, woken, lease, after, calls>>

Pinned == {k \in Key : sessions[k] # NoAddr}

\* Mutant: the first pin wins.
record_session_FirstWins(k, a) ==
  sessions' = IF k \in Pinned THEN sessions ELSE [sessions EXCEPT ![k] = a]

\* An arbitrary pin makes room for a new client.
record_session(k, a) ==
  LET full == /\ Cardinality(Pinned) >= MaxSessions
              /\ k \notin Pinned
              /\ Pinned # {}
  IN  \/ /\ full
         /\ \E v \in Pinned :
              sessions' = [sessions EXCEPT ![v] = NoAddr, ![k] = a]
      \/ /\ ~full
         /\ sessions' = [sessions EXCEPT ![k] = a]

\* Mutant: the cursor does not advance.
Record_NoAdvance(c) ==
  /\ Move(c, "record", Selected(c))
  /\ UNCHANGED <<poolVars, envVars, woken, req, lease, after, calls>>

Record(c) ==
  /\ Move(c, "record", Selected(c))
  /\ \/ /\ Strategy = "RoundRobin"
        /\ round_robin' = round_robin + 1
        /\ UNCHANGED sessions
     \/ /\ Strategy = "Sticky"
        /\ record_session(KeyOf[c], lease[c].addr)
        /\ UNCHANGED round_robin
  /\ UNCHANGED <<state, exhausted, evictions, envVars, woken, req, lease,
                 after, calls>>

\* Mutant: the end of the source is not looked at.
CheckExhausted_Waits(c) ==
  /\ Move(c, "empty", "wait")
  /\ UNCHANGED <<poolVars, envVars, woken, req, lease, after, calls>>

\* Nothing eligible: give up after one last look once the source has ended.
CheckExhausted(c) ==
  /\ Move(c, "empty", IF exhausted THEN TrySelect ELSE "wait")
  /\ req' = [req EXCEPT ![c].last = exhausted]
  /\ UNCHANGED <<poolVars, envVars, woken, lease, after, calls>>

Wake(c) ==
  /\ c \in woken
  /\ Move(c, "wait", "arm")
  /\ UNCHANGED <<poolVars, envVars, woken, req, lease, after, calls>>

ReturnNone(c) ==
  /\ Move(c, "none", "idle")
  /\ UNCHANGED <<poolVars, envVars, woken, req, lease, after, calls>>

-----------------------------------------------------------------------------
\* Enough requests, and too many errors or too slow.
unhealthy(p) ==
  /\ p.reqs >= MinReq
  /\ error_rate(p) > MaxErrorRate \/ avg_resp_time(p) > MaxRespTime

\* Mutant: an eviction that is not counted.
put_inner_Uncounted(c, p, until, next) ==
  /\ lease' = [lease EXCEPT ![c] = NoProxy]
  /\ pc' = [pc EXCEPT ![c] = IF unhealthy(p) THEN next ELSE "notify"]
  /\ after' = [after EXCEPT ![c] = next]
  /\ state' = IF unhealthy(p) THEN state ELSE Append(state, Entry(p, until))
  /\ UNCHANGED <<sessions, round_robin, exhausted, evictions, envVars, woken,
                 calls>>

\* Mutant: the caller keeps the proxy that was evicted.
put_inner_EvictKeeps(c, p, until, next) ==
  /\ lease' = [lease EXCEPT ![c] = IF unhealthy(p) THEN p ELSE NoProxy]
  /\ pc' = [pc EXCEPT ![c] = IF unhealthy(p) THEN next ELSE "notify"]
  /\ after' = [after EXCEPT ![c] = next]
  /\ state' = IF unhealthy(p) THEN state ELSE Append(state, Entry(p, until))
  /\ evictions' = IF unhealthy(p) THEN evictions + 1 ELSE evictions
  /\ UNCHANGED <<sessions, round_robin, exhausted, envVars, woken, calls>>

\* Return the lease of c as p: evict it, or push it and notify afterwards.
put_inner(c, p, until, next) ==
  /\ lease' = [lease EXCEPT ![c] = NoProxy]
  /\ \/ /\ unhealthy(p)
        /\ evictions' = evictions + 1
        /\ pc' = [pc EXCEPT ![c] = next]
        /\ UNCHANGED <<state, after>>
     \/ /\ ~unhealthy(p)
        /\ state' = Append(state, Entry(p, until))
        /\ pc' = [pc EXCEPT ![c] = "notify"]
        /\ after' = [after EXCEPT ![c] = next]
        /\ UNCHANGED evictions
  /\ UNCHANGED <<sessions, round_robin, exhausted, envVars, woken, calls>>

put_ok(c, p, next) == put_inner(c, p, 0, next)

\* Mutant: the bench window ends in the past.
put_failed_Past(c, p, next) == put_inner(c, p, now - FailTimeout, next)

put_failed(c, p, next) == put_inner(c, p, now + FailTimeout, next)

PutNotify(c) ==
  /\ pc[c] = "notify"
  /\ notify_waiters
  /\ pc' = [pc EXCEPT ![c] = after[c]]
  /\ after' = [after EXCEPT ![c] = "idle"]
  /\ UNCHANGED <<poolVars, envVars, req, lease, calls>>

\* verify_live: a proxy that opens the tunnel is handed out.
VerifyLive(c) ==
  /\ lease[c] # NoProxy /\ lease[c].addr \in Live
  /\ Move(c, "verify", "held")
  /\ UNCHANGED <<poolVars, envVars, woken, req, lease, after, calls>>

\* A proxy that does not open it in time is benched; after
\* VERIFY_MAX_ATTEMPTS of them get gives up.
VerifyDead(c) ==
  /\ pc[c] = "verify"
  /\ LET probes == req[c].probes + 1
     IN  /\ req' = [req EXCEPT ![c].probes = probes]
         /\ put_failed(c, lease[c], IF probes >= VERIFY_MAX_ATTEMPTS
                                    THEN "none" ELSE "arm")

\* A caller is done with its lease: it served, it failed, or it could not be
\* used and is returned as it was.
UseOk(c) ==
  /\ pc[c] = "held"
  /\ put_ok(c, RecordOk(lease[c]), "idle")
  /\ UNCHANGED req

UseFailed(c) ==
  /\ pc[c] = "held"
  /\ put_failed(c, RecordErr(lease[c]), "idle")
  /\ UNCHANGED req

UseUntouched(c) ==
  /\ pc[c] = "held"
  /\ put_ok(c, lease[c], "idle")
  /\ UNCHANGED req

\* The caller's future is dropped at an await; what it holds goes with it.
Abandon(c) ==
  /\ c \in Droppable
  /\ pc[c] \in {"wait", "verify", "held"}
  /\ pc' = [pc EXCEPT ![c] = "idle"]
  /\ lease' = [lease EXCEPT ![c] = NoProxy]
  /\ UNCHANGED <<poolVars, envVars, woken, req, after, calls>>

-----------------------------------------------------------------------------
PooledAddrs == {state[i].p.addr : i \in DOMAIN state}

\* add looks for duplicates among the pooled proxies only, and notifies
\* before it releases the lock.
add(a) ==
  /\ a \in Addable
  /\ a \notin PooledAddrs
  /\ state' = Append(state, Entry(Checked(a, NoItem), 0))
  /\ notify_waiters
  /\ UNCHANGED <<sessions, round_robin, exhausted, evictions, envVars, pc, req,
                 lease, after, calls>>

\* The pool with only the entries of K left, in their order.
Retain(K) ==
  \E f \in Enumerations(K) : state' = [k \in DOMAIN f |-> state[f[k]]]

remove(a) ==
  /\ a \in Removable
  /\ a \in PooledAddrs
  /\ Retain({i \in DOMAIN state : state[i].p.addr # a})
  /\ UNCHANGED <<sessions, round_robin, exhausted, evictions, envVars, woken,
                 pc, req, lease, after, calls>>

\* get_proxy of the MCP server: take the best proxy of the region, benched or
\* not, and give it back with add, as one that was never benched.
try_get(s, R) ==
  /\ lease[Mcp] = NoProxy
  /\ \E i \in best_by_priority(state, {j \in EligibleIdx(state, s) :
                                        state[j].p.addr \in R}) :
       /\ lease' = [lease EXCEPT ![Mcp] = state[i].p]
       /\ Retain(DOMAIN state \ {i})
  /\ UNCHANGED <<sessions, round_robin, exhausted, evictions, envVars, woken,
                 pc, req, after, calls>>

handle_get_proxy ==
  /\ lease[Mcp] # NoProxy
  /\ lease' = [lease EXCEPT ![Mcp] = NoProxy]
  /\ \/ /\ lease[Mcp].addr \in PooledAddrs
        /\ UNCHANGED <<state, woken>>
     \/ /\ lease[Mcp].addr \notin PooledAddrs
        /\ state' = Append(state, Entry(lease[Mcp], 0))
        /\ notify_waiters
  /\ UNCHANGED <<sessions, round_robin, exhausted, evictions, envVars, pc, req,
                 after, calls>>

-----------------------------------------------------------------------------
\* The steps of get that follow its call.
Getting(c) ==
  \/ Arm(c) \/ ReadPin(c) \/ ReadClock(c) \/ Select(c) \/ SelectNone(c)
  \/ Record(c) \/ CheckExhausted(c) \/ Wake(c)
  \/ VerifyLive(c) \/ VerifyDead(c)

Use(c) == UseOk(c) \/ UseFailed(c) \/ UseUntouched(c)

Gating == GateArm \/ GateLen \/ GateExhausted \/ GateWake

Importing == (\E x \in Item : Import(x)) \/ ImportNotify \/ SourceEnd

Next ==
  \/ Tick \/ Importing \/ Gating
  \/ \E a \in Addr : add(a) \/ remove(a)
  \/ \E s \in Scheme, R \in Regions : try_get(s, R)
  \/ handle_get_proxy
  \/ \E c \in Caller :
       \/ \E s \in Scheme : get(c, s)
       \/ Getting(c) \/ PutNotify(c) \/ Use(c) \/ ReturnNone(c) \/ Abandon(c)

Spec == Init /\ [][Next]_vars

(***************************************************************************)
(* Every task that can run does: the runtime polls a ready future, and a   *)
(* probe is bounded by its timeout.  Nobody promises that a stream yields, *)
(* that a caller asks, or that it finishes with its lease.                 *)
(***************************************************************************)
FairSpec ==
  /\ Spec
  /\ WF_vars(ImportNotify) /\ WF_vars(Gating)
  /\ \A c \in Caller : WF_vars(Getting(c) \/ PutNotify(c))

-----------------------------------------------------------------------------
\* Somebody has changed the pool and is about to notify.
NotifyPending ==
  \/ feed \in {"notify", "endnotify"}
  \/ \E c \in Caller : pc[c] = "notify"

(***************************************************************************)
(* No lost wakeup.  get and wait_ready create their Notified future before *)
(* they look, and every push and the end of the source notify only after   *)
(* the change is visible.  So a task that sleeps un-notified has nothing   *)
(* to wake up for, unless the notification is still on its way: the pool   *)
(* holds no proxy for its scheme (for the gate, fewer than MinQueue), and  *)
(* the source has not ended.                                               *)
(***************************************************************************)
NoLostWakeup ==
  /\ \A c \in Caller :
       pc[c] = "wait" /\ c \notin woken /\ ~NotifyPending =>
         EligibleIdx(state, req[c].scheme) = {} /\ ~exhausted
  /\ gate = "wait" /\ Gate \notin woken /\ ~NotifyPending =>
       Len(state) < MinQueue /\ ~exhausted

PooledItems == {state[i].p.item : i \in DOMAIN state}

\* The tasks that hold item x.
Holders(x) == {h \in Holder : lease[h] # NoProxy /\ lease[h].item = x}

(***************************************************************************)
(* A check-out is exclusive.  get removes the proxy it returns, and only   *)
(* the holder's put brings it back, so each proxy that the stream or the   *)
(* list delivered is in one place at a time: still to come, pooled once,   *)
(* or held by one caller.  (Of the proxy, not of its address: an address   *)
(* delivered or added twice is two proxies, and may have two holders.)     *)
(***************************************************************************)
ExclusiveFor(x) ==
  /\ \A i, j \in DOMAIN state :
       state[i].p.item = x /\ state[j].p.item = x => i = j
  /\ \A c, d \in Holders(x) : c = d
  /\ x \in PooledItems => Holders(x) = {}
  /\ x \in source => x \notin PooledItems /\ Holders(x) = {}

Exclusive == \A x \in Item : ExclusiveFor(x)

\* Who answers for item x: the stream, the pool, its holder, or nobody.
Owner(x) ==
  CASE x \in source -> "source"
    [] x \notin source /\ x \in PooledItems -> "pool"
    [] x \notin source \cup PooledItems /\ Holders(x) # {} ->
         CHOOSE h \in Holder : h \in Holders(x)
    [] OTHER -> "gone"

Ownership == INSTANCE Lease WITH Caller <- Holder,
                                owner <- [x \in Item |-> Owner(x)]

(***************************************************************************)
(* The pool implements the lease discipline of module Lease: seen from     *)
(* outside, a proxy only moves from the stream to the pool, from the pool  *)
(* to one caller that owns nothing else, and from that caller back, and    *)
(* once evicted, removed or dropped as a duplicate it never returns,       *)
(* whatever else tasks add to the pool and remove from it.                 *)
(***************************************************************************)
ImplementsLease == Ownership!Spec

\* No other item shares the address of an item that get_proxy may draw.
SingleForMcp ==
  \A x, y \in Item :
    AddrOf[x] = AddrOf[y] /\ AddrOf[x] \in UNION Regions => x = y

(***************************************************************************)
(* No proxy leaks.  Whatever the interleaving of imports, check-outs,      *)
(* failed probes and puts, each proxy the country filter admitted is       *)
(* pooled, held, or was counted by the evictions metric exactly once.      *)
(* (A pool nobody adds to or removes from, and callers whose futures run   *)
(* to the end.  get_proxy gives back with add, which silently drops a      *)
(* proxy whose duplicate is pooled: its addresses come once.)              *)
(***************************************************************************)
NothingLeaks ==
  Addable = {} /\ Removable = {} /\ Droppable = {} /\ SingleForMcp =>
    Cardinality(CountryOk \ source) =
      Len(state) + Cardinality({h \in Holder : lease[h] # NoProxy}) + evictions

(***************************************************************************)
(* get answers None for two reasons only: the source has ended, or         *)
(* VERIFY_MAX_ATTEMPTS draws in a row failed their probe.  Before the end  *)
(* of the source a caller waits instead.                                   *)
(***************************************************************************)
NoneIsFinal ==
  \A c \in Caller :
    pc[c] = "none" => exhausted \/ req[c].probes = VERIFY_MAX_ATTEMPTS

(***************************************************************************)
(* The sticky map names the proxy in use.  While a client that shares its  *)
(* key with nobody holds a proxy, its pin is that proxy, or was displaced  *)
(* by another client at the max_sessions bound; it is never a proxy the    *)
(* client has moved away from.                                             *)
(***************************************************************************)
PinFollowsLease ==
  \A c \in Caller :
    /\ Strategy = "Sticky"
    /\ pc[c] \in {"verify", "held"}
    /\ \A d \in Caller \ {c} : KeyOf[d] # KeyOf[c]
    => sessions[KeyOf[c]] \in {lease[c].addr, NoAddr}

(***************************************************************************)
(* A failed proxy rests.  A proxy whose bench window is still open is      *)
(* checked out only by a caller that saw, when it read the clock, no ready *)
(* proxy for its scheme.  (An added duplicate may equal the proxy drawn:   *)
(* the one drawn is benched for certain when every equal entry is.)        *)
(***************************************************************************)
BenchedIsLastResort ==
  [][\A c \in Caller :
       LET benched == \A i \in DOMAIN state :
                        state[i].p = lease'[c] => state[i].until > now
       IN  pc[c] = "select" /\ lease'[c] # lease[c] /\ benched =>
             \A i \in EligibleIdx(state, req[c].scheme) :
               state[i].until > req[c].t]_vars

(***************************************************************************)
(* Once the source has ended nobody stays blocked: every call of get in    *)
(* progress answers, even when every proxy it draws is dead, and           *)
(* wait_ready opens although the pool never grew to MinQueue.              *)
(***************************************************************************)
GetReturns ==
  \A c \in Caller :
    exhausted /\ pc[c] \in Pcs \ {"idle", "held", "none"}
      ~> pc[c] \in {"idle", "held", "none"}

GateOpens == exhausted ~> gate = "open"

(***************************************************************************)
(* What PoolConfig::verify_on_lease promises: a proxy that cannot open the *)
(* tunnel is not handed out.                                               *)
(***************************************************************************)
NeverHandsOutDead ==
  \A c \in Caller :
    VerifyOnLease /\ pc[c] = "held" => lease[c].addr \in Live
=============================================================================
