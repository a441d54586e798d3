# A TLA+ model of proxybroker

proxybroker finds open proxies, checks them, and serves them: it scrapes
provider pages, probes every candidate through a judge, keeps the survivors in a
pool, remembers them in a store, and relays clients through the pool. The parts
that are hard to test are the ones where tasks meet: the pool that an importer, the
server, the connector, a re-checker, a file watcher and an MCP server share; the
pipeline of concurrent checks behind `find` and `check`; the relay, which may try
another proxy only as long as its client has seen nothing; the store that several
tasks and processes fold their outcomes into; and the check itself, where every step
of every protocol can fail in several ways. This directory models these, checks
them with TLC on small instances, and proves with TLAPS, for every instance, every
safety property that the passing runs check.

Paths below are relative to the repository's root; `server.rs` and the like are
in its `src/`.

## 1. Inventory

| Component | State it keeps | Operations | Meets others through |
|---|---|---|---|
| **Pool** (`server.rs`, `Pool`) | the `Vec` of pooled proxies with their bench deadlines, the sticky-session map, the round-robin cursor, the `exhausted` flag, eviction and rotation counters | `spawn`, `from_proxies`, `get`, `put_ok`, `put_failed`, `add`, `remove`, `try_get`, `wait_ready`, read-only `len`, `addrs`, `snapshot` | one mutex for the `Vec`, one for the sessions, atomics for the rest, a `Notify` for waiters |
| **Selection** (`best_for` and helpers) | none | pick an index for a scheme and a strategy | called under the pool lock, with a pin, a cursor and a clock read before it |
| **Proxy** (`proxy.rs`) | address, types, request and error counts, response times, restored averages | `record_attempt`, `error_rate`, `avg_resp_time`, `priority`, `schemes` | the value that circulates |
| **Check pipeline** (`broker.rs`, `check_stream`) | a semaphore, a slot counter, a cancellation token, a task tracker, a bounded channel, the statistics collector | the driver loop, one task per candidate, the consumer of `ProxyStream` | the channel, the token, the permits |
| **grab** (`broker.rs`) and `write_stream` (`bin/proxybroker.rs`) | the seen set, the fetches in flight, the output and the save file | fetch, extract, deduplicate, emit without checking; render and save | a bounded channel |
| **Server** (`server.rs`, `handle_client`, `relay`, `serve_control`, `History`) | a history of which proxy served which client and target | parse the head, draw, negotiate, relay, retry; the control host | `Arc<Pool>`; one task per client |
| **Connector** (`connector.rs`) | none | draw, dial, retry | `Arc<Pool>`; its future may be dropped |
| **MCP server** (`mcp.rs`) | none | `get_proxy`, `report_dead`, `list` | `Arc<Pool>` |
| **Re-check scheduler** (`scheduler.rs`) | a due-time heap, success averages, last successes, retry marks, the rate ceiling | enroll, sleep, re-check, add back, retry, let go | `Arc<Pool>`, the checker, the store |
| **File watcher** (`watch.rs`) | the debounce window | poll, re-read, reconcile with `add` and `remove` | `Arc<Pool>`, a file others write |
| **Checker** (`checker.rs`) | the host's addresses, the judges, the policy | attempts and retries per protocol, validity, level, trust, capabilities, filter | negotiator, judges |
| **Negotiator** (`negotiator.rs`) | the handshake in progress | SOCKS4/5, CONNECT, SMTP banner, TLS | the upstream socket |
| **Persistence** (`persist.rs`) | one aggregate row per address | `upsert` folds an outcome, `load` restores | SQLite, Redis or a map; one lock per connection |
| **Judges, resolver** (`judge.rs`, `resolver.rs`) | the working judges per scheme, the external addresses | probe all, pick one | the checker |
| **Providers, parsing** (`provider.rs`, `parse.rs`) | none | fetch, extract | the source of `find` and `grab` |
| **Statistics** (`stats.rs`), **geo**, **errors, types, utilities** | none that is shared | pure folds and lookups | |
| **Command line, dashboard** (`bin/proxybroker.rs`, `tui.rs`) | terminal state | argument parsing, printing | |

What is hard in each, and what makes it correct:

* **Pool.** `get` looks at the pool, at `exhausted`, and sleeps, in three steps;
  imports and puts push and notify in two. Right means: no wakeup is lost; each
  proxy delivered is leased to one task at a time; a proxy is never lost without being
  counted; `None` means that there is nothing left to wait for; a benched proxy is
  a last resort; every call answers once the source has ended.
* **Selection.** The cursor indexes a `Vec` that `swap_remove` and `push` permute;
  the pin may be stale. Right means: round-robin starves nobody, the pin is the
  proxy in use.
* **Check pipeline.** Checks finish in any order around the limit; the owner of the
  last slot cancels the run while others wait in `send`. Right means: exactly the
  limit is emitted when there are enough good candidates, permits never leak,
  nothing is emitted unrecorded, a run ends.
* **Server, connector.** A failure before the first byte may be retried elsewhere, one
  after it may not. Right means: a client sees one answer, through one upstream; a
  body goes into one upstream; every way out returns the proxy; a tunnel is
  never one that ends TLS on the way.
* **Re-checker, watcher.** A decision taken on an old picture of the pool is applied to
  a new one; an address leaves and returns while its schedule entry is still in the
  heap; a file is read while it is being written, and again only when the watch, registered
  some time after the first read, has seen a write. Right means: every tracked address
  is scheduled exactly once and checked for ever; what is gone stays gone; the last list
  saved under the watch is the one in force.
* **Checker, judges.** Endpoints and judges fail in any combination; a check walks
  several protocols and stops at different errors. Right means: a type, a level and a
  trust flag say what the proxy did; attempts are counted once; a check ends.
* **Store.** Outcomes for one address are folded into one row from several tasks,
  connections and processes, through contention, lost replies, silence and crashes. Right means:
  each acknowledged outcome is in the row once, a warm start knows it, and an upsert ends.
* **grab.** Providers answer in any order, with one address in several spellings; the
  consumer may leave. Right means: each address once, exactly the limit or everything;
  output and save file, one buffered and one not, never drift apart by more than a buffer.

`PROJECT.json` lists the individual hazards with their lines.

## 2. Modules

| Module | Models | Role |
|---|---|---|
| `Proxy` | `proxy.rs`: statistics, rounding, `priority`, `schemes` | values |
| `Selection` | `best_for`, the bench tiers, the four strategies, `swap_remove` | operators |
| `Pool` | everything that changes a `Pool`, and what its users do with a lease | state machine |
| `Lease` | what the pool promises: one owner per proxy delivered | abstract specification |
| `Rotation` | a listed round-robin pool with one caller | `Pool` from another initial state, with a history |
| `PoolUser` | the pool as the tasks that draw from it see it | state and operations shared by the next two |
| `Server` | `handle_client`, `relay`, `serve_control`, `History` | one action per step of a handler |
| `Connector` | `connect`, `dial`, a dropped future | one action per step of a future |
| `Serving` | server and connector over one pool | composition, state machine |
| `CheckStream` | `check_stream`, its sources and its consumer | state machine |
| `ProxyStream` | what a `ProxyStream` promises | abstract specification |
| `Vocabulary` | `types.rs`, `error.rs`: protocols, schemes, levels, errors | values |
| `Negotiator` | the steps and errors of an attempt per protocol | operators |
| `Judges` | `build_checker`: external addresses, judge probing, the mode | state and actions |
| `Checker` | `check`, `check_one`, `attempt`, the filters after it | state machine over the three above |
| `LivePool` | the pool as the tasks that maintain it see it: entries per address | state and operations shared by the next two |
| `Rechecker` | `spawn_rechecker` | one action per step of the loop |
| `Watcher` | `spawn_watch` and what precedes it in `serve_cmd`, `reconcile`, and who writes the file | one action per step |
| `Maintenance` | both over one pool, with a caller and a user | composition, state machine |
| `Store` | the rows of `persist.rs`, `upsert`, `load`, `union_dedup` | operators |
| `History` | `serve --state` over a store, with crashes | state machine |
| `Extraction` | what `provider.rs` and `parse.rs` find on a page | operators |
| `Grab` | `grab_task`, `write_stream` and the buffers behind it | state machine |
| `PoolProofs`, `RotationProofs`, `CheckStreamProofs`, `ServingProofs`, `CheckerProofs`, `MaintenanceProofs`, `HistoryProofs`, `GrabProofs` | | theorems (section 4) |
| `MCPool`, `MCRotation`, `MCConnect`, `MCServing`, `MCCheckStream`, `MCChecker`, `MCMaintenance`, `MCHistory`, `MCGrab` | | instances for TLC |

`Pool` extends `Selection`, which extends `Proxy`; `Rotation` extends `Pool`. `Pool` instantiates `Lease` and
`CheckStream` instantiates `ProxyStream` under a refinement mapping. `PoolUser` has the
state of `Lease` and nothing more, so what the server and the connector are composed
with is the promise that `Pool` is shown to keep; `KeepsLeases` is their side of it.
`MCConnect` runs the connector's loop over `Pool` itself, because there the order in
which the pool hands out matters. `LivePool` keeps even less, the number of entries and
leases per address, because `add` looks at pooled entries only and an address can have two.
`PoolUser` and the models over it give each proxy an address of its own: who holds which
proxy does not depend on its address.

Definitions named after another with a suffix (`put_failed_Past`) are mutants: the same
operation with a plausible mistake in it. Replacing the original by it breaks the
property `PROJECT.json` pairs it with, so the property does say something about that code.

### Pool

One action is one critical section or one atomic access of the code; between two
of them any other task may run.

* *Deliveries.* What the stream or the list brings is a set of *items*, each at an address
  (`AddrOf`): neither looks for duplicates, so two items may share one. A pooled proxy keeps
  the name of its item, which no operation looks at; one that `add` brings has none (`NoItem`).
* *Importer* (`spawn`): `Import` screens and pushes, `ImportNotify` notifies;
  `SourceEnd` sets `exhausted` and is followed by its own notification. The stream
  may end at any point.
* *Caller of `get`*: `get` creates the `Notified` future; `ReadPin` reads the pin
  or the cursor, `ReadClock` the clock, `Select` / `SelectNone` is the section
  under the pool lock, `Record` moves the cursor or the pin afterwards.
  `CheckExhausted` decides between sleeping and the *last look*. `Wake` and `Arm`
  close the loop. `VerifyLive` / `VerifyDead` are `verify_live` and the benching of
  a proxy that failed it.
* *Put*: `put_inner` evicts or pushes; `PutNotify` notifies later. `UseOk`,
  `UseFailed`, `UseUntouched` are the three ways `handle_client` and the connector
  return a lease; `Abandon` is a connector future dropped at an await.
* *Others*: `add` and `remove` (re-checker, watcher, `report_dead`), `try_get` and
  `handle_get_proxy` (MCP: take, then add back), `GateArm` ... `GateWake`
  (`wait_ready`, whose length and flag are read in two steps), `Tick` (the clock).

`notify_waiters` is tokio's: it marks every future that exists and has not been
consumed. A future exists from the `get` or `Arm` step until the next one.

Abstractions. The scheme is the request's only attribute that selection looks at.
What does not change while a proxy circulates (types, country, restored average)
is a constant function of its address. Every use of a lease adds at most one
request to the statistics, with runtime 0.0, as `record_attempt` is called.
`Live` gives, per proxy, whether a probe *can* succeed: a probe of a live proxy
may still fail. The xorshift of `Random` is a free choice. Rates and times are
integers in hundredths; `round2` rounds exact quotients, ties to even, where the
code rounds a float.

### CheckStream

The driver's `SourceYield`, `Admit`, `Spawn`, `Drained`; a task's `Checked` or
`Abort` (the `select!`), `Reserve` (the `fetch_add`), `Send` / `SendFails`,
`Cancel`; and the consumer's `Receive`, `DropReceiver`, `DropGuard`: dropping a
`ProxyStream` closes the receiver and then fires the guard. `SourceYield`
covers the source of `find` (parse, deduplicate, filter by country, in that order)
and that of `check`, which does not deduplicate. Whether a check succeeds and
passes the query's filter is fixed at the start by a free choice (`good`).

### Server, Connector, Serving

A handler goes through `parse`, `auth`, and then `control` (`proxycontrol`) or the relay:
`draw`, `connect`, `ack` for a tunnel or `forward` and `status` for a forwarded request,
`splice`. Each step of `relay` goes on, fails (`failed`: nothing was shown, the next
upstream is drawn), or ends the request (`gone`: the client could not be written to;
`committed`: the splice broke). `Return` is the put that every outcome ends with;
`Record` is `History::record`, in a critical section of its own before it.

The bytes are abstracted to `saw[c]`, what the client was sent and through whom, and
`fed[c]`, the upstreams that took the client's body. A write that fails may have
reached the client or not. `choose_proto`, `relay_negotiation_proto` and `tunnel_proto`
are kept, since which protocol is negotiated decides who ends TLS. Left out: header
rewriting, the resolver (an await without state), the bytes of the SOCKS5 handshake,
the metrics text. `get` may answer `None` at any time here; when it really does is
`NoneIsFinal` of `Pool`.

### Judges, Negotiator, Checker

The checker is built first: `EndpointAnswers` and `ProbeJudge` are the concurrent
lookups of `build_checker`, each of which may fail; they end in a checker that judges
(`BuiltJudged`), one that only fetches a liveness URL (`BuiltLiveness`), or an error.
Then `StartCheck` collects the protocols to try, `StartOne` takes the first of them in the
order of `Proto::ALL` (`Front`), picks a judge of its scheme, or fails it untried when
`max_tries` is 0, and `StepPasses`, `StepFails` walk the steps of `attempt`; `PageArrives` and
`Unobserved` end an attempt that got through.
`Filter` is the capability and trust filter the pipeline applies to a pass.

A page is reduced to what is read off it. What the proxy did to the request is a *deed*
(leaked an address, dropped the marker, injected a header, ...), and the history variable
`seen` keeps the deed and the judge behind each confirmed type, so that the properties
compare what the checker says with what the proxy did. The backoff between attempts is a
wait without state. Bytes, credentials and certificate checks are left out.

### Rechecker, Watcher, Maintenance

`Rechecker` follows the loop of `spawn_rechecker`: enroll newcomers, sleep until the
earliest due time, wait for the rate ceiling, pop, drop the job if its address is
neither pooled nor being retried, check, fold, and add, retry or give up. Instants are
kept as ticks to go or ticks past; the average in `Full`-ths. `Watcher` polls, opens and
closes the debounce window, re-reads the file and applies `reconcile` one pool call at a
time; a save truncates the file and writes it line by line, or replaces it at once.
`WatchInit` is the moment after `serve_cmd` has parsed the file (`bin/proxybroker.rs:837`),
complete or half written; the watch is registered by `spawn_watch` some steps later, and a
write before it raises no event (`Notify`). The file may list an address up to `Repeats` times. `should_retry`
divides by a free latency, since a check that failed the filter has measured one. The
composition adds a caller that leases and puts, a user that removes, and the handles
that stop either loop.

### Store, History

`Store` has the fold that all three backends compute, in fixed-point numbers; `History` has
the tasks that call it: two checks of `find` that share one connection, the re-checker,
and another process. An upsert waits for its connection's lock, is refused by contention
and retried, commits, and returns; a Redis connection can break after the script has run
(`ReplyLost`), or the server can fall silent and leave the thread waiting with the mutex
locked (`Silence`: the connection has no read timeout); `ProcessEnds` may come at
any point. A start opens the store, loads it, and fills the pool in one of two ways (`Fill`): with `--load` it
unites history and file and screens them by country at once, without it the importer takes
first the history (`ImportHistory`) and then what `find` brings (`ImportFound`). A restored
proxy has no country. The history variable `checks` lists every finished check and what its upsert reported.
`Folds` is what a serial run of upserts leaves, and `Explanations` the rows that some order of
an address's checks accounts for. `MCHistory` has the fold in closed form (types of the
latest success, sums, weighted averages), and an assumption that TLC evaluates says that the
two agree on all sequences of up to three samples.

### Extraction, Grab

`Extraction` finds addresses on a page given as a sequence of dotted quads and numbers, by the
global pattern or by a provider's own; a list of matches is a function from the places on
the page where they start, read in order (`InOrder`). `Grab` fetches several providers at once, takes
their batches in any order, and sends fresh addresses through the channel to
`write_stream`, which renders them, or, with `check --load --save`, also saves each one.
`out` is what was handed to the output and `landed` how much of it a reader finds there: a
`tokio::fs::File` has one write in flight, whose failure is the error of the next call
(`Land`, `ErrorSurfaces`); stdout sends off lines as they end, and the elements of a JSON
array, which have no newline, when its buffer is full. The save file is not
buffered. Creating a file and every write may fail, and a failed write may leave a part behind (`half`, `torn`).

## 3. Runs

| Run | Checks | Shows |
|---|---|---|
| `pool_import` | `TypeOK`, `NoLostWakeup`, `NothingLeaks`, `NoneIsFinal`, `ImplementsLease`, `BenchedIsLastResort` | two callers and the MCP handler over a pool that is being filled, with one address delivered twice, failures, benching and eviction |
| `pool_live` | `GetReturns`, `GateOpens` | verify-on-lease with probes that may always fail, the `Random` strategy and the startup gate, under fairness |
| `pool_mutate` | `PinFollowsLease`, `Exclusive` | a list that names an address twice, `add`, `remove` and a dropped future on a sticky pool with room for one pin |
| `pool_rotation` | `RotationCoversPool` | any N + 1 consecutive draws of a round-robin caller visit all N proxies as long as none was evicted (not any N: `swap_remove` reorders under the cursor) |
| `serving` | `OneAnswer`, `NoLeaseLeft`, `HistoryTruthful`, `RotationsNotOvercounted`, `OpaqueTunnels`, `KeepsLeases`, `Answered` | two clients and a connector future over one pool; every step may fail |
| `check_find` | `TypeOK`, `ExactLimit`, `PermitsConserved`, `StatsCoverOutput`, `ImplementsStream`, `RunEnds` | `find` with a limit, a repeated address and a screened one, and a consumer that may leave; the run ends |
| `checking` | `TypesAreWitnessed`, `LevelTellsTruth`, `OneEndPerProtocol`, `HoneypotRemembered`, `PassMeansWanted`, `CheckEnds` | a checker built from endpoints and judges that may fail, and one check over every protocol: the verdict, types, level and trust say what the proxy did |
| `maintenance` | `TrackedOnce`, `GoneStaysGone`, `StaysChecked`, `NoWriteLost` | re-checker and watcher over one pool, beside a caller, a user and an editor who may save before the watch is registered |
| `history` | `RowsExplained`, `WarmStartRemembers`, `UpsertReturns` | concurrent upserts on three backends through contention, lost replies, silence and restarts, and starts with and without `--load` and `--countries`: a row is a serial fold of each acknowledged check once |
| `grab` | `GrabExact`, `SinksAgree`, `GrabEnds` | four providers in any order, three limits, and buffered sinks, a file or stdout, that may fail at every write or later |

Two runs end in a violation; each shows a disagreement between the code and what
its own text says (section 5): `pool_verify` and `connector_retry`. The type
invariants of `Serving`, `Checker`, `Maintenance`, `History` and `Grab` are the first
conjunct of the invariant nearest to them (`NoLeaseLeft`, `OneEndPerProtocol`,
`TrackedOnce`, `RowsExplained`, `GrabExact`).

Bounds, and why they are enough to meet the interesting cases:

* Two callers: each race in the pool is between two parties, one that looks and
  one that changes; the importer, the gate and the MCP handler come on top.
* Two addresses with three deliveries in `pool_import` and `pool_mutate`, so that one address is
  pooled twice (three addresses for rotation; one admitted and one screened out by country in
  `pool_live`, where scarcity is the point): one proxy that serves both schemes and one that
  serves only HTTP, so that a caller can find a pool non-empty and yet without a proxy for
  it. Two proxies at one address are enough for two holders of it.
* `MaxCalls` 2 or 3 calls of `get` (9 for rotation, three rounds), `MaxTime` 1
  tick, with `FailTimeout` 1: a bench can open and expire.
* `MinReq` 2 and one request behind each proxy at the start: the first failure can evict.
* `VERIFY_MAX_ATTEMPTS` 2 where the code has 8: one failed probe is retried, two give up.
* `serving`: `MaxTries` 2 (one retry), `ConnTries` 1, `CAP` 1 with two request
  targets (the second clears the history), one client that tunnels or sends a body
  and one that fetches or uses `proxycontrol`, each with and without credentials; one
  of the two proxies has no raw tunnel for https.
* `check_find`: `MaxConn` 2, `CHANNEL_CAPACITY` 1, `Limit` 2, five candidates, two of
  them one address and one outside the requested countries: tasks contend for permits,
  for slots and for the channel, and some candidates remain when the limit is reached.
* `checking`: a dual-stack host with two endpoints, so that none, one or both addresses
  are known; two plain judges (one with a baseline that is not zero, one reached over
  IPv6), a TLS and an SMTP one; seven deeds, one of each kind the checker tells apart;
  six queries that between them use every protocol, both retry policies, `strict`, both
  fallbacks, the trust check, the required capabilities, an empty type list and no tries.
* `maintenance`: two addresses, of which one fails, is leased and is removed, while the
  other keeps the heap and the rate ceiling busy. `MinInterval` = `MaxInterval` = 1 and
  `Gap` 1 make every round contend for the start; `Full` 2 and `Halvings` 4 with `MaxAge` 1
  let an average survive one failure and decay in the next; a failed check has latency 0 or 1
  (`Latencies`). The pool starts with one or two entries per listed address (`Repeats` 2).
* `history`: one address, since rows of different addresses do not meet; `MaxChecks` 3
  over four tasks, `MaxStarts` 2 (a warm start after a crash), `RetryDelays` 1 where the code has 4
  (one retry, then giving up). The starts have neither flag, `--load`, or `--load` with
  `--countries`, and the file names the address with a listed country and other types. With `Scale` 100 the folds of three checks divide exactly,
  so `Folds` can be compared with the closed form.
* `grab`: lines and an array, to a file and to stdout; limits 1, 3 and none, three fetches at once of four, a channel of one; pages with a
  repeated address, another spelling of it, an unspecified one, one with a leading zero,
  one with a zone, a port out of range and an address next to another address.

`PreferConnect` is in the model and in the theorems, but no run sets it.
Deadlock is not checked: the calls are bounded, and a finished run rightly stops.

Fairness. `Pool!FairSpec`: a ready future is polled, and a probe ends, because it
is wrapped in a timeout. Nothing is assumed about the source (it may stay silent),
about a caller's next request, or about when it returns its lease; `GetReturns`
holds all the same. `CheckStream!FairSpec`: the driver and the tasks are polled, a
check is bounded by its timeouts (`CheckEnds` of `Checker`), a consumer that stays keeps
receiving, and one that has dropped the receiver goes on to drop the guard. `FairFind`
adds that the source goes on: every provider fetch has a request timeout, and the source of
`check` is in memory. `Serving!FairSpec`: a handler takes its next step, which a timeout
bounds; nothing is assumed of splices or of the connector. `Checker`: every wait of the
construction and of an attempt has a deadline. `Maintenance`: both loops run and time
passes; nobody has to write, lease, put, remove or stop. `History`: a thread inside
`upsert` runs, unless Redis has fallen silent on it; starting checks, crashing or restarting is nobody's duty. `Grab`: the task and
the writer run, a fetch times out and a write in flight ends; no write has to fail.

## 4. Proofs

For every value of the constants that meets the named assumptions. These give the
parameters their types and say that `Addr`, `Item` and `Cand` are finite, that a channel holds at
least one item, that the tasks of the server and of the connector are different
(`ServingAssumption`), that the names of callers and users are not those of the places
`source`, `pool` and `gone`, that `NoHost` is not an address (`ExtractionAssumption`),
that `Queries` are queries, that a sample's counts are natural numbers and that the `--load`
file names addresses (`HistoryAssumption`). Only `RotationAssumption` narrows what is modelled: one caller of a
listed round-robin pool of proxies that all serve http, without `verify_on_lease` and
`prefer_connect`, since the property is about the draws of such a caller. TLC evaluates each
assumption on the runs of the modules that build on it.

**Pool** (`PoolProofs`).

* `PoolTypeCorrect`. `TypeOK` is not inductive: that a caller past its selection
  holds a proxy, and that a request still being served has probes to spare, are
  facts about several steps. `TypeInv` adds `HoldInv` (a caller holds a proxy exactly
  in `record`, `verify`, `held`) and `ProbeInv`. The lemmas say that `best_for` returns
  eligible indices and that `swap_remove` and `Retain` keep a sequence of entries.
* `PoolNoLostWakeup`. `NoLostWakeup` speaks of sleepers; the invariant `WakeInv` has to
  follow them from the moment they looked. For a task nobody has informed (not
  woken, no notification pending) `CallerInv` says what its look established at
  each later step: in `empty`, no eligible proxy; in `wait`, in addition, the source
  open. `GateInv` is the same for the gate. A step preserves it for one of three reasons:
  it only takes entries out, it leaves a notification pending, or it informs
  everyone whose future exists.
* `PoolNoneIsFinal`, from `NoneInv`: the last look is taken only after `exhausted`
  was seen, and the flag never goes back.

**Leases** (`PoolProofs`), all over `TypeInv`.

* `PoolExclusive`. The property speaks of the proxies delivered, not of addresses: each is in
  at most one of four places: not yet delivered, one entry of the pool, one caller's
  hand, the MCP handler's hand. Each step moves it between two of them, whatever is added
  beside it. `PoolAddressExclusive` draws the conclusion for an address: with `OriginInv`, that a
  pooled or leased proxy was delivered at its address or added there, an address that was
  delivered once and that nobody adds has one holder at a time.
* `PoolNothingLeaks`, from `LeakInv`, a count: what was delivered is pooled, on lease or
  counted as evicted; the hypothesis that `get_proxy` draws only addresses delivered once is
  needed, because its `add` drops a proxy whose duplicate is pooled. The lemmas give the length of the pool after each operation and
  the number of leases after each hand-over.
* `PoolPinFollowsLease` and `PoolBenchedIsLastResort`. The second is an action property; it
  needs `ClockInv`, that a clock read before the lock was taken is not ahead of the clock.
  An added duplicate may equal the proxy drawn in everything but its bench; the property
  therefore calls the proxy drawn benched when every entry equal to it is.
* `PoolImplementsLease`, without a hypothesis: from `PoolExclusive`'s invariant the owner of a
  delivered proxy is well defined, and every step of `Pool` is a step of `Lease` or leaves the
  owners alone; `remove` discards all proxies of its address at once.

**Rotation** (`RotationProofs`). `RotationVisitsAll`, for every number of proxies and every
initial order. `Select` takes the entry under the cursor, `swap_remove` puts the last one in its
place, and the put appends; so which proxy stands where depends on the whole past. `PlaceInv`
gives it in closed form: the place j holds the proxy of the draw `Drawn(j)`, and the cursor
is the number of draws. That the last N + 1 draws are all proxies follows by counting.

**Check pipeline** (`CheckStreamProofs`). `StreamTypeCorrect`, `StreamPermitsConserved`,
`StreamStatsCoverOutput`, `StreamExactLimit`, all from one `IndInv`: where a candidate can be
(`FlowInv`), that addresses let through are distinct (`DedupInv`), the permit count, what a task
has done by the time it is where it is (`TaskInv`, `OutInv`), and the slot accounting: items out
plus tasks in `send` are at most the slots reserved and the limit (`SlotInv`), and equal to one
of them while the consumer listens (`OpenInv`). `StreamRefinement`: with `IndInv`, each step emits
one fresh wanted item or leaves the output alone, and none follows the end.

**Server and connector** (`ServingProofs`), for any number of clients, futures and proxies.

* `ServingNoLeaseLeft`, `ServingOpaqueTunnels` and `ServingKeepsLeases` from `LeaseInv`: at each
  program point, which proxy the task owns, and which protocol it may be negotiating with it. Most of
  the proof is that a step of one task leaves the leases of the others alone (`Undisturbed`).
* `ServingOneAnswer` from `AnswerInv`: what the client has seen, and which upstreams took its
  body, as a function of where its handler is; a handler that can still draw has shown nothing.
* `ServingHistoryTruthful` from `HistoryInv`: whoever is about to record has been served.
* `ServingRotations` from `RotationInv`: the counter is the number of pairs of a client and a draw
  beyond its first. The property itself claims only that it is no higher (section 5).

**Checker** (`CheckerProofs`), for any judges, endpoints and queries: `BuildInv` (a checker that is ready
has the judges its mode needs), `WalkInv` (a confirmed protocol has left `todo` and has its
history), `ShownInv` (what the pages showed is what the proxy is credited with and held against
it), `VerdictInv`, and `CountInv`, the attempts of the protocols begun so far.
`CheckerTypesWitnessed`, `CheckerLevelTellsTruth`, `CheckerHoneypot` and `CheckerPassMeansWanted` follow
from the first four. `CheckerOneEnd` needs the last: its bound is on the whole check, and a step
preserves it only in terms of the protocols already closed. The proof found that a query
with `max_tries` 0 ends a protocol without any attempt, which the model now says.

**Re-checker and watcher** (`MaintenanceProofs`). `MaintenanceTrackedOnce` from `TrackInv`: the heap has
no address twice, and the keys of the averages are the scheduled addresses and the one being
checked; `LoopInv` ties the job to the loop's place, `HealthInv` the two maps to each other.
`MaintenanceGone` is the action property `GoneStaysGone`, from the same invariant.

**grab** (`GrabProofs`), for any registry, pages, limits and capacities.

* `GrabDeliversExactly`. The lemmas say what the extraction finds on any page: `Nth` enumerates a
  finite set of places in order, so filtering and deduplicating keep exactly the good pairs, and
  of the wanted addresses a provider's candidates are the ones its page offers
  (`CandidatesOffered`), with a pattern of its own or without. `CoverInv` then says that what the
  answering providers offer was sent or is in the batch at hand, and nothing else was or is; that
  a seen address in a wanted country was sent, while someone listens; and why the task ended.
* `GrabSinksAgree`. The channel holds the end of what was sent (`ChanInv`), so a single number, how
  much was drained, says at each step of the writer what the output and the save file hold
  (`ShowInv`). `Body` gives the output after e proxies in closed form; `EmitBody` shows that the
  Emitter's comma rule produces the next one, `BodyElements` that its elements are those e proxies.
  `LandInv` follows the buffers: a file lacks at most the write in flight, which has one proxy at
  most, lines on stdout lack nothing, and `flush` leaves nothing behind.

**Store** (`HistoryProofs`), for any addresses, samples and number of checks and starts, each
backend, and any file.

* What `Folds` computes. It is a recursive function over the samples, so its lemmas are proved by
  taking the least place where they would fail: such a function exists and is unique
  (`RunExists`, `RunUnique`), hence appending a sample folds it in (`FoldsAppend`). Then
  `FoldsKeepLatestTypes`: a row's types are those of the latest sample that worked, and
  `FoldsAverageWithin`: the success average is a probability and the latency lies between any
  bounds of the measured ones (a zero counts only where it seeds the row).
* `HistoryRowsExplained`. A row alone does not say which checks are in it. `RowsInv` gives each row
  a log, an order of distinct checks that folds to it and has every check that was acknowledged or
  whose task has committed. A check in a log is `Settled`: no task is still to write it, and
  its upsert did not report an error, unless on Redis. `TasksInv` says that a task inside `upsert`
  works for one open check and no two for the same. A step keeps what a recorded check was and
  keeps it settled (`Keeps`), so logs survive; a commit, acknowledged or lost, appends to one
  log a check that was not settled and therefore not in it (`RowExtended`). A log is an
  enumeration of its set, which is what `Explanations` asks for.
* `HistoryWarmStart`. `PoolInv` gives the proxy of each remembered address a log of its own, the one
  its row had when it was read. That may be later than the start: while Redis is read hash
  by hash rows go on changing, but only to longer logs. Between start and import the proxy is in
  the history and not in the pool, so the invariant speaks of both (`Kept`); under an allow-list it
  says nothing, since restored proxies are screened out.
* `HistoryTypesSurvive` follows from that log and `FoldsKeepLatestTypes`.
* `HistoryLocks`: a connection is locked exactly while one task is inside on it, possibly waiting
  for a silent server. This is the safety half of `UpsertReturns`.

Only model-checked. The liveness properties (`GetReturns`, `GateOpens`, `RunEnds`,
`Answered`, `CheckEnds`, `StaysChecked`, `NoWriteLost`, `UpsertReturns`, `GrabEnds`) are
outside the prover's reach. So is the closed form of `Folds` as a whole (`FoldsInClosedForm`): its
averages hold exactly only where `Scale` divides evenly, and its sums are folds over sets. The two
violations (section 5) are counterexamples and need no proof.

## 5. Where the code and its text disagree

Kept as runs:

* `pool_verify`: the last look of `get` (`server.rs:249`) hands out a proxy that
  `verify_on_lease` never probed, when another caller has just benched it. The test at
  `server.rs:2009` says that an all-dead pool returns `None`; with one caller it does.
* `connector_retry`: a proxy that serves https but has no raw tunnel goes back with
  `put_ok` (`connector.rs:194`), unbenched and unchanged, so a best-first pool hands it
  out again for every remaining try; the comment at `connector.rs:193` says that another
  proxy is tried.

Met while modelling, and visible in the models, but not kept as runs:

* The pool does not deduplicate what it is given. `serve --state` chains the stored history and a
  `find` that does not know it (`bin/proxybroker.rs:845`), a `--load` file may repeat a line, which
  `union_dedup` (`bin/proxybroker.rs:1188`) keeps, and `add` looks at the pooled entries only
  (`server.rs:365`), so an address added while it is on lease is pooled twice after the put
  (`server.rs:339`). Such an address can be leased to two tasks at once. `Exclusive`
  and `ImplementsLease` are therefore about each proxy delivered, `PoolAddressExclusive` names what an
  address needs to have one holder, and `LivePool` counts entries. `get_proxy` gives back with
  `add`, which drops a proxy whose duplicate is pooled, without counting it; `NothingLeaks` excludes that.
* `serve --load --watch` reads the file at `bin/proxybroker.rs:837` and registers the watch at
  `bin/proxybroker.rs:898`, with the metrics listener and the re-checker's judges awaited in
  between and no second read (`watch.rs:81`): a save in between is not loaded before the next
  event. `NoWriteLost` has the hypothesis that the watch saw at least the end of a save.
* `serve --state --countries` forgets the whole history: a restored proxy has no country
  (`proxy.rs:202`), and the pool screens by country (`server.rs:156`, `server.rs:200`). With `--load` it
  even loses what the file knows: the restored proxy replaces the file's entry for the same
  address and is then screened out. `WarmStartRemembers` is stated without `--countries`; the run
  has starts with it.
* The Redis connection has no read timeout (`persist.rs:651`): a reply that never comes
  (`persist.rs:693`) blocks the thread for good, with the connection's mutex locked, and with it every later upsert on
  that connection. `UpsertReturns` names this as the one exception.
* The output of `write_stream` is buffered and the save file is not. An `--outfile` write that
  fails is reported by the next call, when its proxy has been saved (`bin/proxybroker.rs:1448`),
  and a JSON array on stdout stays in the buffer while its proxies are saved
  (`bin/proxybroker.rs:1490`), so after a failure the save file can hold proxies that the output
  does not. `SinksAgree` says by how many.
* The rotations metric counts every draw after a failed attempt, where `server.rs:146`, `483`, `756`
  and `893` say that a rotation is to a different proxy: `get` may hand out the same one again,
  when it is the only one or when all are benched. `RotationsNotOvercounted` claims no more than
  that there are never more rotations than such draws.
* `source.next()` is not raced against the cancellation (`broker.rs:621`), so a
  silent source keeps a finished run open, where the documentation of `ProxyStream`
  (`broker.rs:807`) says that it ends. `RunEnds` needs `FairFind` for this reason.
* `types_passed` (`checker.rs:561`) compares levels for every protocol: with `--lvl High`
  a SOCKS5 proxy, which has no level, does not pass, and `strict` removes the type, where
  `bin/proxybroker.rs:1102` and `types.rs:214` say that levels of other protocols are
  ignored. `PassMeansWanted` uses the text's notion of a wanted type, an asked-for level only
  where a protocol has levels: what passes is wanted in that sense, though not everything
  that is wanted passes.
* A watched file that is truncated but not yet rewritten parses as an empty list and
  empties the pool for a while; `watch.rs:63` says that "a bad write never empties it".
  `NoWriteLost` speaks of the list the watcher ends up with.
* A proxy removed while its re-check is running is added back (`scheduler.rs:222`), where
  the comment at `scheduler.rs:196` says that the loop never resurrects one.
  `GoneStaysGone` holds from the moment nothing holds on to the address.
* Provider addresses with leading zeros are dropped by `canonicalize_ip`, where
  `parse.rs:91` and `resolver.rs:112` say that both paths normalize them alike.
* The first check of an address seeds its average latency even when it failed and measured
  none, so later latencies are averaged with a zero. The comment at `persist.rs:430` says
  so; it is listed because the average then understates every latency.

## 6. Not modelled, and the plan

Left out for good: drawing (`tui.rs`) and argument parsing, CSV, templates and progress
bars of `bin/`; the geo database (pure I/O; its answer is a constant set); the sums of
`stats.rs` (a pure fold; when it is fed is in `CheckStream`); DNS (a free choice); log
texts, header rewriting, the bytes of the handshakes, schema versions and JSON fields;
loading provider files from a directory and the line-wise parser behind `check`, which are
sequential text processing.

Left open: who is charged for a splice that the client broke. A provider's own pattern is one that
compiles and finds a host and a port; a match without two groups is split at its last colon into
the same pair, and a pattern that does not compile finds nothing.

Theorems that could be added: that the request and error counts of a row do not depend on the
order of its log.
