------------------------------- MODULE Store -------------------------------
(* The persistence contract of persist.rs: one aggregate row per address,   *)
(* folded by upsert and read back by load.  The three backends (SQLite's    *)
(* ON CONFLICT update, Redis' Lua script, the mutex-guarded map) compute the *)
(* same fold; they differ in how a call may fail, which History models.     *)
(*                                                                          *)
(* A sample is what one finished check says of its address.  Averages are   *)
(* fixed-point numbers, Scale standing for 1; with Scale = 10^n the first n *)
(* folds of a row divide exactly.                                           *)
EXTENDS Integers, FiniteSets

CONSTANTS Addr,   \* the proxies' addresses
          Scale   \* fixed-point one

ASSUME ScaleAssumption == Scale \in Nat \ {0}

\* The confirmed types decide whether a check counts as a success.
is_working(s) == s.types # {}

success(s) == IF is_working(s) THEN Scale ELSE 0

\* alpha = 0.3, as every backend spells it.
fold_ewma(prev, new) == (3 * new + 7 * prev) \div 10

\* The INSERT arm: the first sample seeds the row, a zero latency included.
inserted(s) ==
  [types    |-> s.types,
   requests |-> s.requests,
   errors   |-> s.errors,
   ewma     |-> success(s),
   latency  |-> s.latency * Scale,
   uptime   |-> IF is_working(s) THEN 1 ELSE 0]

\* The CONFLICT arm: an empty sample erases neither types nor latency.
folded(r, s) ==
  [types    |-> IF is_working(s) THEN s.types ELSE r.types,
   requests |-> r.requests + s.requests,
   errors   |-> r.errors + s.errors,
   ewma     |-> fold_ewma(r.ewma, success(s)),
   latency  |-> IF s.latency > 0 THEN fold_ewma(r.latency, s.latency * Scale)
                                 ELSE r.latency,
   uptime   |-> r.uptime + (IF is_working(s) THEN 1 ELSE 0)]

\* Store::upsert, as the backend executes it: one atomic read-modify-write.
upsert(rows, a, s) ==
  IF a \in DOMAIN rows
    THEN [rows EXCEPT ![a] = folded(@, s)]
    ELSE [b \in DOMAIN rows \cup {a} |-> IF b = a THEN inserted(s) ELSE rows[b]]

\* Proxy::restored and with_ewma: what a row becomes in memory.  The error
\* histogram collapses into one bucket, the latency into one runtime, and the
\* country is not stored, so no allow-list has it.
restored(r) ==
  [types    |-> r.types,
   requests |-> r.requests,
   errors   |-> r.errors,
   runtimes |-> IF r.latency > 0 THEN {r.latency} ELSE {},
   ewma     |-> r.ewma,
   listed   |-> FALSE]

\* A proxy read from a --load file: its types, whether its country is on the
\* allow-list, and none of its statistics.
unscored(p) == [types |-> p.types, requests |-> 0, errors |-> 0, runtimes |-> {},
                ewma |-> 0, listed |-> p.listed]

union_dedup_FileWins(primary, secondary) ==
  [a \in DOMAIN primary \cup DOMAIN secondary |->
     IF a \in DOMAIN secondary THEN secondary[a] ELSE primary[a]]

\* What the store remembers wins over what the file says.
union_dedup(primary, secondary) ==
  [a \in DOMAIN primary \cup DOMAIN secondary |->
     IF a \in DOMAIN primary THEN primary[a] ELSE secondary[a]]
=============================================================================
