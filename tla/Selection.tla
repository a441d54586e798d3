----------------------------- MODULE Selection -----------------------------
(***************************************************************************)
(* How the pool picks an upstream (server.rs, best_for and its helpers).   *)
(* The pool is a sequence of entries in Vec order.  An entry is a proxy    *)
(* and the instant its bench window ends, 0 for one that is not benched.   *)
(***************************************************************************)
EXTENDS Proxy, Sequences, FiniteSets

CONSTANTS
  Item,           \* the proxies a stream yields or a list holds
  AddrOf,         \* AddrOf[x]: its address, which other items may share
  NoItem,         \* a proxy that came neither from the stream nor the list
  PreferConnect,  \* PoolConfig::prefer_connect
  NoAddr          \* no sticky pin

ASSUME SelectionAssumption ==
  /\ AddrOf \in [Item -> Addr]
  /\ NoItem \notin Item
  /\ PreferConnect \in BOOLEAN
  /\ NoAddr \notin Addr

Strategies == {"Best", "RoundRobin", "Random", "Sticky"}

Proxies == [addr : Addr, item : Item \cup {NoItem}, reqs : Nat, errs : Nat,
            rsum : Nat, rn : Nat]

Entries == [p : Proxies, until : Nat]

EligibleIdx(pool, s) == {i \in DOMAIN pool : s \in schemes(pool[i].p.addr)}

\* Mutant: the bench is ignored.
tier_Flat(pool, s, t) == EligibleIdx(pool, s)

\* The ready proxies, or every eligible one when none is ready.
tier(pool, s, t) ==
  LET ready == {i \in EligibleIdx(pool, s) : pool[i].until <= t}
  IN  IF ready # {} THEN ready ELSE EligibleIdx(pool, s)

has_connect(pool, i) == "Connect80" \in Types[pool[i].p.addr]

connect_biased(pool, S) ==
  LET connect == {i \in S : has_connect(pool, i)}
  IN  IF PreferConnect /\ connect # {} THEN connect ELSE S

\* i precedes j: health first, then CONNECT support, then position.
Precedes(pool, i, j) ==
  LET a == priority(pool[i].p)
      b == priority(pool[j].p)
      ac == IF PreferConnect /\ ~has_connect(pool, i) THEN 1 ELSE 0
      bc == IF PreferConnect /\ ~has_connect(pool, j) THEN 1 ELSE 0
  IN  \/ a[1] < b[1]
      \/ a[1] = b[1] /\ a[2] < b[2]
      \/ a[1] = b[1] /\ a[2] = b[2] /\ ac < bc
      \/ a[1] = b[1] /\ a[2] = b[2] /\ ac = bc /\ i < j

best_by_priority(pool, S) == {i \in S : \A j \in S \ {i} : Precedes(pool, i, j)}

\* The k-th element of S in index order, counting from 0.
nth(S, k) == {i \in S : Cardinality({j \in S : j < i}) = k}

(***************************************************************************)
(* The indices best_for may return: none when nothing is eligible, one for *)
(* the deterministic strategies, any of the tier for Random.               *)
(***************************************************************************)
best_for(pool, strategy, s, pin, cursor, t) ==
  LET T == tier(pool, s, t)
      pick == connect_biased(pool, T)
      pinned == {i \in T : pool[i].p.addr = pin}
  IN  CASE strategy = "Best" -> best_by_priority(pool, T)
        [] strategy = "RoundRobin" ->
             IF T = {} THEN {} ELSE nth(pick, cursor % Cardinality(pick))
        [] strategy = "Random" -> pick
        [] strategy = "Sticky" ->
             IF pinned # {} THEN nth(pinned, 0) ELSE best_by_priority(pool, T)

\* Mutant: the entry is cloned, not removed.
swap_remove_Clone(s, i) == s

\* Vec::swap_remove: the last entry takes the place of the one removed.
swap_remove(s, i) ==
  [k \in 1..(Len(s) - 1) |-> IF k = i THEN s[Len(s)] ELSE s[k]]

\* The increasing enumeration of a set of indices (a singleton set).
Enumerations(S) ==
  {f \in [1..Cardinality(S) -> S] :
     \A i, j \in DOMAIN f : i < j => f[i] < f[j]}
=============================================================================
