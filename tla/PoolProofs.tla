---------------------------- MODULE PoolProofs ----------------------------
(***************************************************************************)
(* Proofs about the pool, for every set of addresses, callers and keys,    *)
(* every strategy and every configuration: types, answers, tickets, then   *)
(* that check-outs are exclusive, that the pool implements module Lease,   *)
(* that nothing leaks, and what it selects.                                *)
(***************************************************************************)
EXTENDS Pool, FiniteSetTheorems, TLAPS

-----------------------------------------------------------------------------
(* What the operators of the model return.                                 *)

\* The proxy a check hands over is a well-formed proxy at its own address.
LEMMA CheckedType ==
  ASSUME NEW a \in Addr, NEW x \in Item \cup {NoItem}
  PROVE  /\ Checked(a, x) \in Proxies /\ Checked(a, x).addr = a
         /\ Checked(a, x).item = x
BY ProxyAssumption DEF Checked, Proxies, Stats

\* An item arrives at its address and is not benched.
LEMMA ArrivalType ==
  ASSUME NEW x \in Item
  PROVE  /\ Arrival(x) \in Entries /\ Arrival(x).p.item = x
         /\ Arrival(x).p.addr = AddrOf[x] /\ Arrival(x).until = 0
<1>1. AddrOf[x] \in Addr
  BY SelectionAssumption
<1>2. Checked(AddrOf[x], x) \in Proxies /\ Checked(AddrOf[x], x).addr = AddrOf[x]
      /\ Checked(AddrOf[x], x).item = x
  BY <1>1, CheckedType
<1> QED
  BY <1>2 DEF Arrival, Entry, Entries

\* Recording an attempt keeps a proxy well formed and at its address.
LEMMA RecordType ==
  ASSUME NEW p \in Proxies
  PROVE  /\ RecordOk(p) \in Proxies /\ RecordOk(p).addr = p.addr
         /\ RecordErr(p) \in Proxies /\ RecordErr(p).addr = p.addr
         /\ RecordOk(p).item = p.item /\ RecordErr(p).item = p.item
BY DEF RecordOk, RecordErr, Proxies

\* Whatever the strategy, best_for points at an eligible entry of the pool.
LEMMA BestForEligible ==
  ASSUME NEW pool, NEW s, NEW pin, NEW cursor, NEW t,
         NEW i \in best_for(pool, Strategy, s, pin, cursor, t)
  PROVE  i \in EligibleIdx(pool, s)
<1> DEFINE T == tier(pool, s, t)
<1>1. T \subseteq EligibleIdx(pool, s)
  BY DEF tier
<1>2. connect_biased(pool, T) \subseteq T
  BY DEF connect_biased
<1>3. best_by_priority(pool, T) \subseteq T
  BY DEF best_by_priority
<1>4. \A S, k : nth(S, k) \subseteq S
  BY DEF nth
<1> HIDE DEF T
<1>5. CASE Strategy = "Best"
  BY <1>1, <1>3, <1>5 DEF best_for, T
<1>6. CASE Strategy = "RoundRobin"
  BY <1>1, <1>2, <1>4, <1>6 DEF best_for, T
<1>7. CASE Strategy = "Random"
  BY <1>1, <1>2, <1>7 DEF best_for, T
<1>8. CASE Strategy = "Sticky"
  BY <1>1, <1>3, <1>4, <1>8 DEF best_for, T
<1> QED
  BY <1>5, <1>6, <1>7, <1>8, PoolAssumption DEF Strategies

\* An index of the pool points at a proxy and the end of its bench window.
LEMMA EntryType ==
  ASSUME NEW s \in Seq(Entries), NEW i \in DOMAIN s
  PROVE  /\ s[i] \in Entries /\ s[i].p \in Proxies /\ s[i].until \in Nat
         /\ s[i].p.addr \in Addr /\ s[i].p.item \in Item \cup {NoItem}
<1>1. s[i] \in Entries
  OBVIOUS
<1>2. s[i].p \in Proxies /\ s[i].until \in Nat
  BY <1>1 DEF Entries
<1> QED
  BY <1>1, <1>2 DEF Proxies

\* swap_remove shortens the pool by one and keeps only entries it had.
LEMMA SwapRemoveType ==
  ASSUME NEW s \in Seq(Entries), NEW i \in DOMAIN s
  PROVE  /\ swap_remove(s, i) \in Seq(Entries)
         /\ Len(swap_remove(s, i)) = Len(s) - 1
         /\ \A k \in DOMAIN swap_remove(s, i) :
              \E j \in DOMAIN s : swap_remove(s, i)[k] = s[j]
<1>1. Len(s) \in Nat \ {0} /\ DOMAIN s = 1..Len(s)
  OBVIOUS
<1>2. \A k \in 1..(Len(s) - 1) : k \in DOMAIN s /\ Len(s) \in DOMAIN s
  BY <1>1
<1>3. swap_remove(s, i) \in [1..(Len(s) - 1) -> Entries]
  BY <1>1, <1>2 DEF swap_remove
<1>4. Len(s) - 1 \in Nat
  BY <1>1
<1>5. swap_remove(s, i) \in Seq(Entries) /\ Len(swap_remove(s, i)) = Len(s) - 1
  BY <1>3, <1>4
<1>6. \A k \in 1..(Len(s) - 1) : \E j \in DOMAIN s : swap_remove(s, i)[k] = s[j]
  BY <1>2 DEF swap_remove
<1> QED
  BY <1>3, <1>5, <1>6

\* Retaining some entries leaves a pool that is no longer than it was and
\* holds only entries it had.
LEMMA RetainType ==
  ASSUME state \in Seq(Entries), NEW K, K \subseteq DOMAIN state, Retain(K)
  PROVE  /\ state' \in Seq(Entries)
         /\ Len(state') <= Len(state)
         /\ \A k \in DOMAIN state' : \E j \in K : state'[k] = state[j]
<1>1. DOMAIN state = 1..Len(state) /\ Len(state) \in Nat
  OBVIOUS
<1>2. IsFiniteSet(1..Len(state)) /\ Cardinality(1..Len(state)) = Len(state)
  <2>1. 1 \in Int /\ Len(state) \in Int
    BY <1>1
  <2>2. /\ IsFiniteSet(1..Len(state))
        /\ Cardinality(1..Len(state)) = IF 1 > Len(state) THEN 0
                                        ELSE Len(state) - 1 + 1
    BY <2>1, FS_Interval
  <2> QED
    BY <1>1, <2>2
<1>3. IsFiniteSet(K) /\ Cardinality(K) <= Len(state)
  <2>1. K \in SUBSET (1..Len(state))
    BY <1>1
  <2> QED
    BY <1>2, <2>1, FS_Subset
<1>4. Cardinality(K) \in Nat
  BY <1>3, FS_CardinalityType
<1>5. PICK f \in Enumerations(K) : state' = [k \in DOMAIN f |-> state[f[k]]]
  BY DEF Retain
<1>6. f \in [1..Cardinality(K) -> K]
  BY <1>5 DEF Enumerations
<1>7. state' \in [1..Cardinality(K) -> Entries]
  BY <1>1, <1>5, <1>6
<1>8. state' \in Seq(Entries) /\ Len(state') = Cardinality(K)
  BY <1>4, <1>7
<1> QED
  BY <1>3, <1>5, <1>6, <1>8

-----------------------------------------------------------------------------
(***************************************************************************)
(* Type correctness is not inductive alone: a put pushes what the caller   *)
(* holds, so it must hold something, and the count of failed probes must   *)
(* be below its bound whenever another probe may follow.                   *)
(***************************************************************************)
Holding == {"record", "verify", "held"}

HoldInv == \A c \in Caller : lease[c] # NoProxy <=> pc[c] \in Holding

ProbeInv ==
  \A c \in Caller :
    \/ pc[c] \in {"idle", "held", "none"}
    \/ pc[c] = "notify" /\ after[c] \in {"idle", "none"}
    \/ req[c].probes < VERIFY_MAX_ATTEMPTS

TypeInv == TypeOK /\ HoldInv /\ ProbeInv

\* Initially the pool is well formed and nobody holds anything.
LEMMA TypeInvInit == Init => TypeInv
<1> SUFFICES ASSUME Init PROVE TypeInv
  OBVIOUS
<1>1. state \in Seq(Entries)
  <2>1. CASE spawn
    BY <2>1 DEF spawn
  <2>2. CASE from_proxies
    <3>1. PICK f \in [1..Cardinality(CountryOk) -> CountryOk] :
            state = [i \in DOMAIN f |-> Arrival(f[i])]
      BY <2>2 DEF from_proxies
    <3>2. Cardinality(CountryOk) \in Nat
      BY PoolAssumption, FS_Subset, FS_CardinalityType
    <3>3. \A i \in DOMAIN f : Arrival(f[i]) \in Entries
      BY <3>1, PoolAssumption, ArrivalType
    <3>4. state \in [1..Cardinality(CountryOk) -> Entries]
      BY <3>1, <3>3
    <3> QED
      BY <3>2, <3>4
  <2> QED
    BY <2>1, <2>2 DEF Init
<1>2. /\ source \subseteq Item /\ exhausted \in BOOLEAN
      /\ feed \in {"next", "notify", "endnotify", "done"}
  BY DEF Init, spawn, from_proxies
<1>3. req \in [Caller -> Requests]
  BY PoolAssumption DEF Init, Requests, Request, Scheme
<1>4. TypeOK
  BY <1>1, <1>2, <1>3 DEF Init, TypeOK, Pcs
<1>5. HoldInv
  BY DEF Init, HoldInv, Holding, Holder
<1>6. ProbeInv
  BY DEF Init, ProbeInv
<1> QED
  BY <1>4, <1>5, <1>6 DEF TypeInv

\* Notifying only adds callers and the gate to the woken.
LEMMA NotifyType ==
  ASSUME woken \subseteq Caller \cup {Gate}, notify_waiters
  PROVE  woken' \subseteq Caller \cup {Gate}
BY DEF notify_waiters

\* A put of a well-formed proxy leaves a well-formed pool.
LEMMA PutType ==
  ASSUME TypeInv, NEW c \in Caller, NEW p \in Proxies, NEW until \in Nat,
         NEW next \in {"idle", "arm", "none"}, put_inner(c, p, until, next),
         req' \in [Caller -> Requests]
  PROVE  TypeOK' /\ HoldInv'
<1> USE DEF TypeInv, TypeOK
<1>1. state' \in Seq(Entries) /\ evictions' \in Nat
  <2>1. Entry(p, until) \in Entries
    BY DEF Entry, Entries
  <2>2. CASE unhealthy(p)
    BY <2>2 DEF put_inner
  <2>3. CASE ~unhealthy(p)
    <3>1. state' = Append(state, Entry(p, until)) /\ evictions' = evictions
      BY <2>3 DEF put_inner
    <3> QED
      BY <2>1, <3>1
  <2> QED
    BY <2>2, <2>3
<1>2. /\ lease' \in [Holder -> Proxies \cup {NoProxy}]
      /\ lease'[c] = NoProxy
      /\ \A d \in Caller \ {c} : lease'[d] = lease[d]
  BY DEF put_inner, Holder
<1>3. /\ pc' \in [Caller -> Pcs]
      /\ after' \in [Caller -> {"idle", "arm", "none"}]
      /\ pc'[c] \in {"idle", "arm", "none", "notify"}
      /\ \A d \in Caller \ {c} : pc'[d] = pc[d]
  BY DEF put_inner, Pcs
<1>4. HoldInv'
  BY <1>2, <1>3 DEF HoldInv, Holding
<1>5. TypeOK'
  BY <1>1, <1>2, <1>3 DEF put_inner, envVars
<1> QED
  BY <1>4, <1>5

\* A put moves only the caller that makes it.
LEMMA PutMoves ==
  ASSUME TypeOK, NEW c \in Caller, NEW p, NEW until,
         NEW next \in {"idle", "arm", "none"}, put_inner(c, p, until, next)
  PROVE  /\ pc'[c] = next \/ (pc'[c] = "notify" /\ after'[c] = next)
         /\ \A d \in Caller \ {c} : pc'[d] = pc[d] /\ after'[d] = after[d]
<1>1. CASE unhealthy(p)
  <2>1. pc' = [pc EXCEPT ![c] = next] /\ after' = after
    BY <1>1 DEF put_inner
  <2> QED
    BY <2>1 DEF TypeOK
<1>2. CASE ~unhealthy(p)
  <2>1. /\ pc' = [pc EXCEPT ![c] = "notify"]
        /\ after' = [after EXCEPT ![c] = next]
    BY <1>2 DEF put_inner
  <2> QED
    BY <2>1 DEF TypeOK
<1> QED
  BY <1>1, <1>2

\* Forgetting what a selection read keeps the other locals.
LEMMA SpentType ==
  ASSUME TypeOK, NEW c \in Caller, req' = Spent(c)
  PROVE  /\ req' \in [Caller -> Requests]
         /\ \A d \in Caller : /\ req'[d].probes = req[d].probes
                             /\ req'[d].last = req[d].last
                             /\ req'[d].scheme = req[d].scheme
<1>1. \A d \in Caller : req[d] \in Requests
  BY DEF TypeOK
<1>2. Request(req[c].scheme, req[c].last, req[c].probes) \in Requests
  BY <1>1 DEF Request, Requests
<1>3. req' = [req EXCEPT ![c] = Request(req[c].scheme, req[c].last, req[c].probes)]
  BY DEF Spent
<1> QED
  BY <1>2, <1>3 DEF TypeOK, Request

\* One local of a request read afresh.
LEMMA LocalType ==
  ASSUME NEW r \in Requests
  PROVE  /\ \A n \in Nat :
              /\ [r EXCEPT !.t = n] \in Requests
              /\ [r EXCEPT !.t = n].probes = r.probes
              /\ [r EXCEPT !.cursor = n] \in Requests
              /\ [r EXCEPT !.cursor = n].probes = r.probes
         /\ \A a \in Addr \cup {NoAddr} :
              /\ [r EXCEPT !.pin = a] \in Requests
              /\ [r EXCEPT !.pin = a].probes = r.probes
         /\ \A b \in BOOLEAN :
              /\ [r EXCEPT !.last = b] \in Requests
              /\ [r EXCEPT !.last = b].probes = r.probes
         /\ \A k \in 0..VERIFY_MAX_ATTEMPTS :
              /\ [r EXCEPT !.probes = k] \in Requests
              /\ [r EXCEPT !.probes = k].probes = k
<1>1. ASSUME NEW n \in Nat
      PROVE  /\ [r EXCEPT !.t = n] \in Requests
             /\ [r EXCEPT !.t = n].probes = r.probes
  BY DEF Requests
<1>2. ASSUME NEW n \in Nat
      PROVE  /\ [r EXCEPT !.cursor = n] \in Requests
             /\ [r EXCEPT !.cursor = n].probes = r.probes
  BY DEF Requests
<1>3. ASSUME NEW a \in Addr \cup {NoAddr}
      PROVE  /\ [r EXCEPT !.pin = a] \in Requests
             /\ [r EXCEPT !.pin = a].probes = r.probes
  BY DEF Requests
<1>4. ASSUME NEW b \in BOOLEAN
      PROVE  /\ [r EXCEPT !.last = b] \in Requests
             /\ [r EXCEPT !.last = b].probes = r.probes
  BY DEF Requests
<1>5. ASSUME NEW k \in 0..VERIFY_MAX_ATTEMPTS
      PROVE  /\ [r EXCEPT !.probes = k] \in Requests
             /\ [r EXCEPT !.probes = k].probes = k
  BY DEF Requests
<1> QED
  BY <1>1, <1>2, <1>3, <1>4, <1>5

\* Every step keeps the pool well formed.
LEMMA TypeInvNext == TypeInv /\ [Next]_vars => TypeInv'
<1> SUFFICES ASSUME TypeInv, [Next]_vars PROVE TypeInv'
  OBVIOUS
<1> USE DEF TypeInv
<1> USE DEF poolVars, envVars
<1>1. CASE Tick
  BY <1>1 DEF Tick, TypeOK, HoldInv, ProbeInv
<1>2. ASSUME NEW x \in Item, Import(x)
      PROVE  TypeInv'
  <2>1. Arrival(x) \in Entries
    BY ArrivalType
  <2>2. state' \in Seq(Entries)
    <3>1. CASE x \in CountryOk
      BY <1>2, <2>1, <3>1 DEF Import, TypeOK
    <3>2. CASE x \notin CountryOk
      BY <1>2, <3>2 DEF Import, TypeOK
    <3> QED
      BY <3>1, <3>2
  <2> QED
    BY <1>2, <2>2 DEF Import, TypeOK, HoldInv, ProbeInv
<1>3. CASE ImportNotify
  BY <1>3, NotifyType DEF ImportNotify, TypeOK, HoldInv, ProbeInv
<1>4. CASE SourceEnd
  BY <1>4 DEF SourceEnd, TypeOK, HoldInv, ProbeInv
<1>5. CASE Gating
  BY <1>5 DEF Gating, GateArm, GateLen, GateExhausted, GateWake, TypeOK,
              HoldInv, ProbeInv
<1>6. ASSUME NEW a \in Addr, add(a)
      PROVE  TypeInv'
  <2>1. Entry(Checked(a, NoItem), 0) \in Entries
    BY CheckedType DEF Entry, Entries
  <2>2. state' \in Seq(Entries)
    BY <1>6, <2>1 DEF add, TypeOK
  <2> QED
    BY <1>6, <2>2, NotifyType DEF add, TypeOK, HoldInv, ProbeInv
<1>7. ASSUME NEW a \in Addr, remove(a)
      PROVE  TypeInv'
  <2>1. state' \in Seq(Entries)
    BY <1>7, RetainType DEF remove, TypeOK
  <2> QED
    BY <1>7, <2>1 DEF remove, TypeOK, HoldInv, ProbeInv
<1>8. ASSUME NEW s \in Scheme, NEW R \in Regions, try_get(s, R)
      PROVE  TypeInv'
  <2>1. PICK i \in best_by_priority(state, {j \in EligibleIdx(state, s) :
                                              state[j].p.addr \in R}) :
          /\ lease' = [lease EXCEPT ![Mcp] = state[i].p]
          /\ Retain(DOMAIN state \ {i})
    BY <1>8 DEF try_get
  <2>2. i \in DOMAIN state
    BY <2>1 DEF best_by_priority, EligibleIdx
  <2>3. state' \in Seq(Entries)
    BY <2>1, RetainType DEF TypeOK
  <2>4. state[i].p \in Proxies
    BY <2>2, EntryType DEF TypeOK
  <2>5. lease' \in [Holder -> Proxies \cup {NoProxy}]
        /\ \A c \in Caller : lease'[c] = lease[c]
    BY <2>1, <2>4, PoolAssumption DEF TypeOK, Holder
  <2> QED
    BY <1>8, <2>3, <2>5 DEF try_get, TypeOK, HoldInv, ProbeInv
<1>9. CASE handle_get_proxy
  <2>1. lease[Mcp] \in Proxies
    BY <1>9 DEF handle_get_proxy, TypeOK, Holder
  <2>2. Entry(lease[Mcp], 0) \in Entries
    BY <2>1 DEF Entry, Entries
  <2>3. state' \in Seq(Entries) /\ woken' \subseteq Caller \cup {Gate}
    <3>1. CASE lease[Mcp].addr \in PooledAddrs
      BY <1>9, <3>1 DEF handle_get_proxy, TypeOK
    <3>2. CASE lease[Mcp].addr \notin PooledAddrs
      <4>1. state' = Append(state, Entry(lease[Mcp], 0)) /\ notify_waiters
        BY <1>9, <3>2 DEF handle_get_proxy
      <4> QED
        BY <2>2, <4>1, NotifyType DEF TypeOK
    <3> QED
      BY <3>1, <3>2
  <2>4. lease' \in [Holder -> Proxies \cup {NoProxy}]
        /\ \A c \in Caller : lease'[c] = lease[c]
    BY <1>9, PoolAssumption DEF handle_get_proxy, TypeOK, Holder
  <2> QED
    BY <1>9, <2>3, <2>4 DEF handle_get_proxy, TypeOK, HoldInv, ProbeInv
<1>10. ASSUME NEW c \in Caller, NEW s \in Scheme, get(c, s)
       PROVE  TypeInv'
  <2>1. Request(s, FALSE, 0) \in Requests
    BY PoolAssumption DEF Requests, Request
  <2>2. Request(s, FALSE, 0).probes = 0
    BY DEF Request
  <2>3. /\ req' \in [Caller -> Requests] /\ req'[c].probes = 0
        /\ \A d \in Caller \ {c} : req'[d] = req[d]
    BY <1>10, <2>1, <2>2 DEF get, TypeOK
  <2>4. /\ pc[c] = "idle" /\ pc' \in [Caller -> Pcs]
        /\ pc'[c] \in {"pin", "clock"}
        /\ \A d \in Caller \ {c} : pc'[d] = pc[d]
    BY <1>10 DEF get, Move, TrySelect, TypeOK, Pcs, Armed
  <2>5. /\ calls' = calls + 1 /\ woken' = woken \ {c}
        /\ UNCHANGED <<poolVars, envVars, lease, after>>
    BY <1>10, Zenon DEF get
  <2>6. TypeOK'
    BY <2>3, <2>4, <2>5 DEF TypeOK
  <2>7. HoldInv'
    BY <2>4, <2>5 DEF HoldInv, Holding
  <2>8. ProbeInv'
    BY <2>3, <2>4, <2>5, PoolAssumption DEF ProbeInv
  <2> QED
    BY <2>6, <2>7, <2>8
<1>11. ASSUME NEW c \in Caller, Arm(c)
       PROVE  TypeInv'
  BY <1>11 DEF Arm, Move, TrySelect, TypeOK, Pcs, Armed, HoldInv, Holding,
               ProbeInv
<1>12. ASSUME NEW c \in Caller, ReadPin(c)
       PROVE  TypeInv'
  <2>1. sessions[KeyOf[c]] \in Addr \cup {NoAddr}
    BY PoolAssumption DEF TypeOK
  <2>2. req' \in [Caller -> Requests] /\ \A d \in Caller : req'[d].probes = req[d].probes
    <3>1. PICK r \in {[req[c] EXCEPT !.pin = sessions[KeyOf[c]]],
                      [req[c] EXCEPT !.cursor = round_robin]} :
            req' = [req EXCEPT ![c] = r]
      BY <1>12 DEF ReadPin
    <3>2. req[c] \in Requests /\ round_robin \in Nat
      BY DEF TypeOK
    <3>3. r \in Requests /\ r.probes = req[c].probes
      <4>1. CASE r = [req[c] EXCEPT !.pin = sessions[KeyOf[c]]]
        BY <2>1, <3>2, <4>1, LocalType
      <4>2. CASE r = [req[c] EXCEPT !.cursor = round_robin]
        BY <2>1, <3>2, <4>2, LocalType
      <4> QED
        BY <3>1, <4>1, <4>2
    <3> QED
      BY <3>1, <3>3 DEF TypeOK
  <2> QED
    BY <1>12, <2>2 DEF ReadPin, Move, TypeOK, Pcs, Armed, HoldInv, Holding,
                       ProbeInv
<1>13. ASSUME NEW c \in Caller, ReadClock(c)
       PROVE  TypeInv'
  <2>1. req' \in [Caller -> Requests] /\ \A d \in Caller : req'[d].probes = req[d].probes
    <3>1. req' = [req EXCEPT ![c] = [req[c] EXCEPT !.t = now]]
      BY <1>13 DEF ReadClock
    <3>2. req[c] \in Requests /\ now \in Nat
      BY DEF TypeOK
    <3>3. /\ [req[c] EXCEPT !.t = now] \in Requests
          /\ [req[c] EXCEPT !.t = now].probes = req[c].probes
      BY <3>2, LocalType
    <3> QED
      BY <3>1, <3>3 DEF TypeOK
  <2> QED
    BY <1>13, <2>1 DEF ReadClock, Move, TypeOK, Pcs, Armed, HoldInv, Holding,
                       ProbeInv
<1>14. ASSUME NEW c \in Caller, Select(c)
       PROVE  TypeInv'
  <2>1. PICK i \in Picks(c) : /\ lease' = [lease EXCEPT ![c] = state[i].p]
                              /\ state' = swap_remove(state, i)
    BY <1>14 DEF Select
  <2>2. i \in DOMAIN state
    BY <2>1, BestForEligible DEF Picks, EligibleIdx
  <2>3. state[i].p \in Proxies
    BY <2>2, EntryType DEF TypeOK
  <2>4. state' \in Seq(Entries)
    BY <2>1, <2>2, SwapRemoveType DEF TypeOK
  <2>5. /\ lease' \in [Holder -> Proxies \cup {NoProxy}]
        /\ lease'[c] # NoProxy
        /\ \A d \in Caller \ {c} : lease'[d] = lease[d]
    BY <2>1, <2>3, PoolAssumption DEF TypeOK, Holder
  <2>6. req' \in [Caller -> Requests] /\ \A d \in Caller : req'[d].probes = req[d].probes
    BY <1>14, SpentType DEF Select
  <2>7. /\ pc[c] = "select" /\ pc' \in [Caller -> Pcs]
        /\ pc'[c] \in Holding /\ \A d \in Caller \ {c} : pc'[d] = pc[d]
    BY <1>14 DEF Select, Move, Selected, TypeOK, Pcs, Holding
  <2>8. TypeOK'
    BY <1>14, <2>4, <2>5, <2>6, <2>7 DEF Select, TypeOK
  <2>9. HoldInv'
    BY <2>5, <2>7 DEF HoldInv
  <2>10. ProbeInv'
    BY <1>14, <2>6, <2>7 DEF Select, ProbeInv
  <2> QED
    BY <2>8, <2>9, <2>10
<1>15. ASSUME NEW c \in Caller, SelectNone(c)
       PROVE  TypeInv'
  <2>1. req' \in [Caller -> Requests] /\ \A d \in Caller : req'[d].probes = req[d].probes
    BY <1>15, SpentType DEF SelectNone
  <2> QED
    BY <1>15, <2>1 DEF SelectNone, Move, TypeOK, Pcs, Armed, HoldInv, Holding,
                       ProbeInv
<1>16. ASSUME NEW c \in Caller, Record(c)
       PROVE  TypeInv'
  <2>1. pc[c] = "record" /\ lease[c] \in Proxies
    BY <1>16 DEF Record, Move, HoldInv, Holding, TypeOK, Holder
  <2>2. sessions' \in [Key -> Addr \cup {NoAddr}]
    BY <1>16, <2>1 DEF Record, record_session, TypeOK, Proxies
  <2> QED
    BY <1>16, <2>1, <2>2 DEF Record, Move, Selected, TypeOK, Pcs, HoldInv,
                             Holding, ProbeInv
<1>17. ASSUME NEW c \in Caller, CheckExhausted(c)
       PROVE  TypeInv'
  <2>1. req' \in [Caller -> Requests] /\ \A d \in Caller : req'[d].probes = req[d].probes
    <3>1. req' = [req EXCEPT ![c] = [req[c] EXCEPT !.last = exhausted]]
      BY <1>17 DEF CheckExhausted
    <3>2. req[c] \in Requests /\ exhausted \in BOOLEAN
      BY DEF TypeOK
    <3>3. /\ [req[c] EXCEPT !.last = exhausted] \in Requests
          /\ [req[c] EXCEPT !.last = exhausted].probes = req[c].probes
      BY <3>2, LocalType
    <3> QED
      BY <3>1, <3>3 DEF TypeOK
  <2> QED
    BY <1>17, <2>1 DEF CheckExhausted, Move, TrySelect, TypeOK, Pcs, Armed,
                       HoldInv, Holding, ProbeInv
<1>18. ASSUME NEW c \in Caller, Wake(c) \/ ReturnNone(c)
       PROVE  TypeInv'
  BY <1>18 DEF Wake, ReturnNone, Move, TypeOK, Pcs, HoldInv, Holding, ProbeInv
<1>19. ASSUME NEW c \in Caller, VerifyLive(c)
       PROVE  TypeInv'
  BY <1>19 DEF VerifyLive, Move, TypeOK, Pcs, HoldInv, Holding, ProbeInv
<1>20. ASSUME NEW c \in Caller, VerifyDead(c)
       PROVE  TypeInv'
  <2> DEFINE probes == req[c].probes + 1
             next == IF probes >= VERIFY_MAX_ATTEMPTS THEN "none" ELSE "arm"
  <2>1. pc[c] = "verify" /\ lease[c] \in Proxies
    BY <1>20 DEF VerifyDead, HoldInv, Holding, TypeOK, Holder
  <2>2. req[c].probes < VERIFY_MAX_ATTEMPTS
    BY <2>1 DEF ProbeInv
  <2>3. probes \in 0..VERIFY_MAX_ATTEMPTS
    BY <2>2, PoolAssumption DEF TypeOK, Requests
  <2>4. req' \in [Caller -> Requests] /\ req'[c].probes = probes
        /\ \A d \in Caller \ {c} : req'[d] = req[d]
    <3>1. req' = [req EXCEPT ![c] = [req[c] EXCEPT !.probes = probes]]
      BY <1>20 DEF VerifyDead
    <3>2. req[c] \in Requests
      BY DEF TypeOK
    <3>3. /\ [req[c] EXCEPT !.probes = probes] \in Requests
          /\ [req[c] EXCEPT !.probes = probes].probes = probes
      BY <2>3, <3>2, LocalType
    <3> QED
      BY <3>1, <3>3 DEF TypeOK
  <2>5. now + FailTimeout \in Nat
    BY PoolAssumption DEF TypeOK
  <2>6. put_inner(c, lease[c], now + FailTimeout, next)
    BY <1>20 DEF VerifyDead, put_failed
  <2>7. TypeOK' /\ HoldInv'
    BY <2>1, <2>4, <2>5, <2>6, PutType
  <2>8. next = "none" \/ probes < VERIFY_MAX_ATTEMPTS
    BY <2>3, PoolAssumption
  <2>0. next \in {"idle", "arm", "none"}
    OBVIOUS
  <2> HIDE DEF next
  <2>9. /\ pc'[c] = next \/ (pc'[c] = "notify" /\ after'[c] = next)
        /\ \A d \in Caller \ {c} : pc'[d] = pc[d] /\ after'[d] = after[d]
    BY <2>0, <2>6, PutMoves
  <2>10. ProbeInv'
    BY <2>4, <2>8, <2>9 DEF ProbeInv
  <2> QED
    BY <2>7, <2>10
<1>21. ASSUME NEW c \in Caller, Use(c)
       PROVE  TypeInv'
  <2>1. pc[c] = "held" /\ lease[c] \in Proxies
    BY <1>21 DEF Use, UseOk, UseFailed, UseUntouched, HoldInv, Holding, TypeOK,
                 Holder
  <2>2. now + FailTimeout \in Nat
    BY PoolAssumption DEF TypeOK
  <2>3. PICK p \in Proxies, until \in Nat : put_inner(c, p, until, "idle")
    BY <1>21, <2>1, <2>2, RecordType
    DEF Use, UseOk, UseFailed, UseUntouched, put_ok, put_failed
  <2>4. req' = req
    BY <1>21 DEF Use, UseOk, UseFailed, UseUntouched
  <2>5. TypeOK' /\ HoldInv'
    BY <2>3, <2>4, PutType DEF TypeOK
  <2>6. ProbeInv'
    BY <2>1, <2>3, <2>4 DEF put_inner, ProbeInv, TypeOK
  <2> QED
    BY <2>5, <2>6
<1>22. ASSUME NEW c \in Caller, PutNotify(c)
       PROVE  TypeInv'
  <2>1. woken' \subseteq Caller \cup {Gate}
    BY <1>22, NotifyType DEF PutNotify, TypeOK
  <2> QED
    BY <1>22, <2>1 DEF PutNotify, TypeOK, Pcs, HoldInv, Holding, ProbeInv
<1>23. ASSUME NEW c \in Caller, Abandon(c)
       PROVE  TypeInv'
  BY <1>23 DEF Abandon, TypeOK, Pcs, HoldInv, Holding, Holder, ProbeInv
<1>24. CASE UNCHANGED vars
  BY <1>24 DEF vars, TypeOK, HoldInv, ProbeInv
<1> QED
  BY <1>1, <1>2, <1>3, <1>4, <1>5, <1>6, <1>7, <1>8, <1>9, <1>10, <1>11, <1>12,
     <1>13, <1>14, <1>15, <1>16, <1>17, <1>18, <1>19, <1>20, <1>21, <1>22,
     <1>23, <1>24
  DEF Next, Importing, Getting

(***************************************************************************)
(* The pool is type correct: in particular every entry is a proxy with the *)
(* end of its bench window, whatever is imported, put back, added, taken   *)
(* and removed, and get makes at most VERIFY_MAX_ATTEMPTS probes.          *)
(***************************************************************************)
THEOREM PoolTypeCorrect == Spec => []TypeOK
<1>1. TypeInv => TypeOK
  BY DEF TypeInv
<1> QED
  BY <1>1, TypeInvInit, TypeInvNext, PTL DEF Spec

-----------------------------------------------------------------------------
(***************************************************************************)
(* The invariant behind NoLostWakeup.  What a sleeping task may rely on is *)
(* true from the moment it looks: a caller that found nothing eligible, a  *)
(* gate that found too few, and each that then found the source running,   *)
(* is right until it is woken or a notification is pending.                *)
(***************************************************************************)
Uninformed(x) == x \notin woken /\ ~NotifyPending

CallerInv(c) ==
  Uninformed(c) =>
    /\ pc[c] \in {"empty", "wait"} => EligibleIdx(state, req[c].scheme) = {}
    /\ pc[c] = "wait" => ~exhausted

GateInv ==
  Uninformed(Gate) =>
    /\ gate \in {"exh", "wait"} => Len(state) < MinQueue
    /\ gate = "wait" => ~exhausted

WakeInv == (\A c \in Caller : CallerInv(c)) /\ GateInv

\* The step takes entries out of the pool, if anything.
Shrinks ==
  /\ Len(state') <= Len(state)
  /\ \A s : EligibleIdx(state, s) = {} => EligibleIdx(state', s) = {}

\* The step is c's own: it clears no notification but c's, and delivers none.
OwnStep(c) ==
  /\ pc[c] # "notify"
  /\ feed' = feed /\ gate' = gate /\ exhausted' = exhausted
  /\ \A d \in Caller \ {c} : pc'[d] = pc[d] /\ req'[d].scheme = req[d].scheme
  /\ woken \ {c} \subseteq woken'

\* A pool whose entries were all there before has shrunk.
LEMMA ShrinksBy ==
  ASSUME Len(state') <= Len(state),
         \A k \in DOMAIN state' : \E j \in DOMAIN state : state'[k] = state[j]
  PROVE  Shrinks
BY DEF Shrinks, EligibleIdx

\* An unchanged pool has shrunk.
LEMMA ShrinksNot ==
  ASSUME state \in Seq(Entries), state' = state
  PROVE  Shrinks
BY DEF Shrinks

\* While a notification is pending, nobody relies on anything.
LEMMA PendingWake ==
  ASSUME NotifyPending'
  PROVE  WakeInv'
BY DEF WakeInv, CallerInv, GateInv, Uninformed

\* Once notified, nobody who has created a future relies on anything.
LEMMA NotifiedWake ==
  ASSUME notify_waiters, gate' = gate,
         \A c \in Caller : pc'[c] \in {"empty", "wait"} => pc'[c] = pc[c]
  PROVE  WakeInv'
<1>1. \A c \in Caller : pc'[c] \in {"empty", "wait"} => c \in woken'
  BY DEF notify_waiters, Armed
<1>2. gate' \in {"exh", "wait"} => Gate \in woken'
  BY DEF notify_waiters
<1> QED
  BY <1>1, <1>2 DEF WakeInv, CallerInv, GateInv, Uninformed

\* A step of caller c, made while the pool does not grow, concerns c alone.
LEMMA OwnStepWake ==
  ASSUME WakeInv, NEW c \in Caller, OwnStep(c), Shrinks, Len(state) \in Nat,
         Len(state') \in Nat, CallerInv(c)'
  PROVE  WakeInv'
<1>1. NotifyPending => NotifyPending'
  BY DEF OwnStep, NotifyPending
<1>2. ASSUME NEW d \in Caller \ {c}
      PROVE  CallerInv(d)'
  <2>1. Uninformed(d)' => Uninformed(d)
    BY <1>1 DEF OwnStep, Uninformed
  <2>2. CallerInv(d)
    BY DEF WakeInv
  <2> QED
    BY <2>1, <2>2 DEF OwnStep, Shrinks, CallerInv
<1>3. GateInv'
  <2>1. Uninformed(Gate)' => Uninformed(Gate)
    BY <1>1, PoolAssumption DEF OwnStep, Uninformed
  <2>2. GateInv
    BY DEF WakeInv
  <2>3. MinQueue \in Nat
    BY PoolAssumption
  <2> QED
    BY <2>1, <2>2, <2>3 DEF OwnStep, Shrinks, GateInv
<1> QED
  BY <1>2, <1>3 DEF WakeInv

\* A step of somebody else's that moves no caller and shrinks the pool.
LEMMA OthersWake ==
  ASSUME WakeInv, Shrinks, Len(state) \in Nat, Len(state') \in Nat,
         UNCHANGED <<feed, gate, exhausted, pc, req, woken>>
  PROVE  WakeInv'
<1>1. NotifyPending' <=> NotifyPending
  BY DEF NotifyPending
<1>2. \A x : Uninformed(x)' => Uninformed(x)
  BY <1>1 DEF Uninformed
<1>3. MinQueue \in Nat
  BY PoolAssumption
<1>4. ASSUME NEW c \in Caller
      PROVE  CallerInv(c)'
  BY <1>2 DEF WakeInv, CallerInv, Shrinks
<1>5. GateInv'
  BY <1>2, <1>3 DEF WakeInv, GateInv, Shrinks
<1> QED
  BY <1>4, <1>5 DEF WakeInv

\* Initially nobody sleeps.
LEMMA WakeInvInit == Init => WakeInv
BY DEF Init, WakeInv, CallerInv, GateInv

\* Every step keeps the sleepers right.
LEMMA WakeInvNext == TypeInv /\ TypeInv' /\ WakeInv /\ [Next]_vars => WakeInv'
<1> SUFFICES ASSUME TypeInv, TypeInv', WakeInv, [Next]_vars PROVE WakeInv'
  OBVIOUS
<1> USE DEF poolVars, envVars
<1>t. /\ state \in Seq(Entries) /\ state' \in Seq(Entries)
      /\ Len(state) \in Nat /\ Len(state') \in Nat
  BY DEF TypeInv, TypeOK
<1>p. /\ pc \in [Caller -> Pcs] /\ after \in [Caller -> {"idle", "arm", "none"}]
      /\ req \in [Caller -> Requests]
  BY DEF TypeInv, TypeOK
<1>1. CASE Tick
  BY <1>1, <1>t, ShrinksNot, OthersWake DEF Tick
<1>2. ASSUME NEW x \in Item, Import(x)
      PROVE  WakeInv'
  <2>1. CASE x \in CountryOk
    BY <1>2, <2>1, PendingWake DEF Import, NotifyPending
  <2>2. CASE x \notin CountryOk
    BY <1>2, <1>t, <2>2, ShrinksNot, OthersWake DEF Import
  <2> QED
    BY <2>1, <2>2
<1>3. CASE ImportNotify
  BY <1>3, NotifiedWake DEF ImportNotify
<1>4. CASE SourceEnd
  BY <1>4, PendingWake DEF SourceEnd, NotifyPending
<1>5. CASE Gating
  <2>1. \A c \in Caller : CallerInv(c)'
    BY <1>5, PoolAssumption
    DEF Gating, GateArm, GateLen, GateExhausted, GateWake, WakeInv, CallerInv,
        Uninformed, NotifyPending
  <2>2. GateInv'
    BY <1>5, <1>t, PoolAssumption
    DEF Gating, GateArm, GateLen, GateExhausted, GateWake, WakeInv, GateInv,
        Uninformed, NotifyPending
  <2> QED
    BY <2>1, <2>2 DEF WakeInv
<1>6. ASSUME NEW a \in Addr, add(a)
      PROVE  WakeInv'
  BY <1>6, NotifiedWake DEF add
<1>7. ASSUME NEW a \in Addr, remove(a)
      PROVE  WakeInv'
  <2>1. Shrinks
    BY <1>7, <1>t, RetainType, ShrinksBy DEF remove
  <2> QED
    BY <1>7, <1>t, <2>1, OthersWake DEF remove
<1>8. ASSUME NEW s \in Scheme, NEW R \in Regions, try_get(s, R)
      PROVE  WakeInv'
  <2>1. PICK i : Retain(DOMAIN state \ {i})
    BY <1>8 DEF try_get
  <2>2. Shrinks
    BY <1>t, <2>1, RetainType, ShrinksBy
  <2> QED
    BY <1>8, <1>t, <2>2, OthersWake DEF try_get
<1>9. CASE handle_get_proxy
  <2>1. CASE lease[Mcp].addr \in PooledAddrs
    BY <1>9, <1>t, <2>1, ShrinksNot, OthersWake DEF handle_get_proxy
  <2>2. CASE lease[Mcp].addr \notin PooledAddrs
    BY <1>9, <2>2, NotifiedWake DEF handle_get_proxy
  <2> QED
    BY <2>1, <2>2
<1>10. ASSUME NEW c \in Caller, NEW s \in Scheme, get(c, s)
       PROVE  WakeInv'
  <2>1. OwnStep(c) /\ state' = state
    BY <1>10, <1>p DEF get, Move, OwnStep
  <2>2. pc'[c] \notin {"empty", "wait"}
    BY <1>10, <1>p DEF get, Move, TrySelect
  <2>3. CallerInv(c)'
    BY <2>2 DEF CallerInv
  <2> QED
    BY <1>t, <2>1, <2>3, ShrinksNot, OwnStepWake
<1>11. ASSUME NEW c \in Caller,
              Arm(c) \/ ReadPin(c) \/ ReadClock(c) \/ Record(c) \/ Wake(c)
                \/ ReturnNone(c) \/ VerifyLive(c) \/ Abandon(c)
       PROVE  WakeInv'
  <2>1. OwnStep(c) /\ state' = state /\ pc'[c] \notin {"empty", "wait"}
    BY <1>11, <1>p
    DEF Arm, ReadPin, ReadClock, Record, Wake, ReturnNone, VerifyLive, Abandon,
        Move, TrySelect, Selected, OwnStep, Requests
  <2>2. CallerInv(c)'
    BY <2>1 DEF CallerInv
  <2> QED
    BY <1>t, <2>1, <2>2, ShrinksNot, OwnStepWake
<1>12. ASSUME NEW c \in Caller, Select(c)
       PROVE  WakeInv'
  <2>1. PICK i \in Picks(c) : state' = swap_remove(state, i)
    BY <1>12 DEF Select
  <2>2. i \in DOMAIN state
    BY <2>1, BestForEligible DEF Picks, EligibleIdx
  <2>3. Shrinks
    BY <1>t, <2>1, <2>2, SwapRemoveType, ShrinksBy
  <2>4. \A d \in Caller : req'[d].scheme = req[d].scheme
    BY <1>12, SpentType DEF Select, TypeInv
  <2>5. OwnStep(c) /\ pc'[c] \notin {"empty", "wait"}
    BY <1>12, <1>p, <2>4 DEF Select, Move, Selected, OwnStep
  <2>6. CallerInv(c)'
    BY <2>5 DEF CallerInv
  <2> QED
    BY <1>t, <2>3, <2>5, <2>6, OwnStepWake
<1>13. ASSUME NEW c \in Caller, SelectNone(c)
       PROVE  WakeInv'
  <2>1. \A d \in Caller : req'[d].scheme = req[d].scheme
    BY <1>13, SpentType DEF SelectNone, TypeInv
  <2>2. OwnStep(c) /\ state' = state /\ pc'[c] # "wait"
    BY <1>13, <1>p, <2>1 DEF SelectNone, Move, OwnStep
  <2>3. EligibleIdx(state', req'[c].scheme) = {}
    BY <1>13, <2>1, <2>2 DEF SelectNone
  <2>4. CallerInv(c)'
    BY <2>2, <2>3 DEF CallerInv
  <2> QED
    BY <1>t, <2>2, <2>4, ShrinksNot, OwnStepWake
<1>14. ASSUME NEW c \in Caller, CheckExhausted(c)
       PROVE  WakeInv'
  <2>1. \A d \in Caller : req'[d].scheme = req[d].scheme
    BY <1>14, <1>p DEF CheckExhausted, Requests
  <2>2. OwnStep(c) /\ state' = state /\ pc[c] = "empty" /\ woken' = woken
    BY <1>14, <1>p, <2>1 DEF CheckExhausted, Move, OwnStep
  <2>3. pc'[c] \in {"empty", "wait"} => pc'[c] = "wait" /\ ~exhausted'
    BY <1>14, <1>p DEF CheckExhausted, Move, TrySelect
  <2>4. Uninformed(c)' => Uninformed(c)
    BY <2>2 DEF Uninformed, NotifyPending, OwnStep
  <2>5. Uninformed(c) => EligibleIdx(state, req[c].scheme) = {}
    BY <2>2 DEF WakeInv, CallerInv
  <2>6. CallerInv(c)'
    BY <2>1, <2>2, <2>3, <2>4, <2>5 DEF CallerInv
  <2> QED
    BY <1>t, <2>2, <2>6, ShrinksNot, OwnStepWake
<1>15. ASSUME NEW c \in Caller, NEW p, NEW until,
              NEW next \in {"idle", "arm", "none"}, put_inner(c, p, until, next),
              pc[c] # "notify",
              \A d \in Caller \ {c} : req'[d].scheme = req[d].scheme
       PROVE  WakeInv'
  <2>1. CASE unhealthy(p)
    <3>1. pc' = [pc EXCEPT ![c] = next] /\ state' = state
          /\ UNCHANGED <<exhausted, feed, gate, woken>>
      BY <1>15, <2>1 DEF put_inner
    <3>2. OwnStep(c) /\ pc'[c] \notin {"empty", "wait"}
      BY <1>15, <1>p, <3>1 DEF OwnStep
    <3>3. CallerInv(c)'
      BY <3>2 DEF CallerInv
    <3> QED
      BY <1>t, <3>1, <3>2, <3>3, ShrinksNot, OwnStepWake
  <2>2. CASE ~unhealthy(p)
    <3>1. pc' = [pc EXCEPT ![c] = "notify"]
      BY <1>15, <2>2 DEF put_inner
    <3>2. pc'[c] = "notify"
      BY <1>p, <3>1
    <3> QED
      BY <3>2, PendingWake DEF NotifyPending
  <2> QED
    BY <2>1, <2>2
<1>16. ASSUME NEW c \in Caller, VerifyDead(c)
       PROVE  WakeInv'
  <2> DEFINE next == IF req[c].probes + 1 >= VERIFY_MAX_ATTEMPTS
                     THEN "none" ELSE "arm"
  <2>1. put_inner(c, lease[c], now + FailTimeout, next) /\ pc[c] = "verify"
    BY <1>16 DEF VerifyDead, put_failed
  <2>2. \A d \in Caller \ {c} : req'[d].scheme = req[d].scheme
    BY <1>16, <1>p DEF VerifyDead
  <2>3. next \in {"idle", "arm", "none"}
    OBVIOUS
  <2> HIDE DEF next
  <2> QED
    BY <1>15, <2>1, <2>2, <2>3
<1>17. ASSUME NEW c \in Caller, Use(c)
       PROVE  WakeInv'
  <2>1. PICK p, until : put_inner(c, p, until, "idle")
    BY <1>17 DEF Use, UseOk, UseFailed, UseUntouched, put_ok, put_failed
  <2>2. pc[c] = "held" /\ req' = req
    BY <1>17 DEF Use, UseOk, UseFailed, UseUntouched
  <2> QED
    BY <1>15, <2>1, <2>2
<1>18. ASSUME NEW c \in Caller, PutNotify(c)
       PROVE  WakeInv'
  BY <1>18, <1>p, NotifiedWake DEF PutNotify
<1>19. CASE UNCHANGED vars
  BY <1>19, <1>t, ShrinksNot, OthersWake DEF vars
<1> QED
  BY <1>1, <1>2, <1>3, <1>4, <1>5, <1>6, <1>7, <1>8, <1>9, <1>10, <1>11, <1>12,
     <1>13, <1>14, <1>16, <1>17, <1>18, <1>19
  DEF Next, Importing, Getting

(***************************************************************************)
(* No wakeup is lost, for any number of callers, any strategy and any mix  *)
(* of imports, puts, additions, removals and cancellations: a caller of    *)
(* get that sleeps un-notified has nothing to wake up for, and neither has *)
(* the gate of wait_ready.                                                 *)
(***************************************************************************)
THEOREM PoolNoLostWakeup == Spec => []NoLostWakeup
<1>1. TypeInv /\ WakeInv => NoLostWakeup
  BY DEF WakeInv, CallerInv, GateInv, Uninformed, NoLostWakeup
<1> QED
  BY <1>1, TypeInvInit, TypeInvNext, WakeInvInit, WakeInvNext, PTL DEF Spec

-----------------------------------------------------------------------------
(***************************************************************************)
(* The invariant behind NoneIsFinal: the last look comes after the end of  *)
(* the source, and a put that will answer None follows the last probe.     *)
(***************************************************************************)
AnswerInv(c) ==
  /\ pc[c] = "none" => exhausted \/ req[c].probes = VERIFY_MAX_ATTEMPTS
  /\ req[c].last => exhausted
  /\ pc[c] = "notify" /\ after[c] = "none" =>
       req[c].probes = VERIFY_MAX_ATTEMPTS

NoneInv == \A c \in Caller : AnswerInv(c)

\* Initially no call is under way.
LEMMA NoneInvInit == Init => NoneInv
<1> SUFFICES ASSUME Init, NEW c \in Caller PROVE AnswerInv(c)
  BY DEF NoneInv
<1>1. pc[c] = "idle" /\ req[c] = Request("http", FALSE, 0)
  BY DEF Init
<1>2. ~req[c].last
  BY <1>1 DEF Request
<1> QED
  BY <1>1, <1>2 DEF AnswerInv

\* What a step does not touch, it does not disturb.
LEMMA AnswerFrame ==
  ASSUME NoneInv, NEW d \in Caller, pc'[d] = pc[d], after'[d] = after[d],
         req'[d].probes = req[d].probes, req'[d].last = req[d].last,
         exhausted => exhausted'
  PROVE  AnswerInv(d)'
<1>1. AnswerInv(d)
  BY DEF NoneInv
<1>2. req'[d].last => req[d].last
  OBVIOUS
<1> QED
  BY <1>1, <1>2 DEF AnswerInv

\* Every step keeps the answers right.
LEMMA NoneInvNext == TypeInv /\ NoneInv /\ [Next]_vars => NoneInv'
<1> SUFFICES ASSUME TypeInv, NoneInv, [Next]_vars, NEW d \in Caller
             PROVE  AnswerInv(d)'
  BY DEF NoneInv
<1> USE DEF poolVars, envVars
<1>p. /\ pc \in [Caller -> Pcs] /\ after \in [Caller -> {"idle", "arm", "none"}]
      /\ req \in [Caller -> Requests]
  BY DEF TypeInv, TypeOK
<1>a. AnswerInv(d)
  BY DEF NoneInv
<1>1. CASE UNCHANGED <<pc, req, after>> /\ (exhausted => exhausted')
  BY <1>1, AnswerFrame
<1>2. ASSUME NEW c \in Caller, NEW s \in Scheme, get(c, s)
      PROVE  AnswerInv(d)'
  <2>1. CASE d = c
    <3>1. req'[c] = Request(s, FALSE, 0) /\ pc'[c] \in {"pin", "clock"}
      BY <1>2, <1>p DEF get, Move, TrySelect
    <3>2. ~req'[c].last
      BY <3>1 DEF Request
    <3> QED
      BY <2>1, <3>1, <3>2 DEF AnswerInv
  <2>2. CASE d # c
    <3>1. /\ req'[d] = req[d] /\ pc'[d] = pc[d] /\ after'[d] = after[d]
          /\ exhausted' = exhausted
      BY <1>2, <1>p, <2>2 DEF get, Move
    <3> QED
      BY <3>1, AnswerFrame
  <2> QED
    BY <2>1, <2>2
<1>3. ASSUME NEW c \in Caller,
             \/ Arm(c) \/ ReadPin(c) \/ ReadClock(c) \/ Record(c) \/ Wake(c)
             \/ ReturnNone(c) \/ VerifyLive(c) \/ Abandon(c) \/ Select(c)
      PROVE  AnswerInv(d)'
  <2>1. /\ req'[d].probes = req[d].probes /\ req'[d].last = req[d].last
        /\ exhausted' = exhausted /\ after' = after
    <3>1. CASE Select(c)
      BY <3>1, SpentType DEF Select, TypeInv
    <3>2. CASE ReadPin(c) \/ ReadClock(c)
      BY <3>2, <1>p DEF ReadPin, ReadClock, Requests
    <3>3. CASE \/ Arm(c) \/ Record(c) \/ Wake(c) \/ ReturnNone(c)
               \/ VerifyLive(c) \/ Abandon(c)
      BY <3>3 DEF Arm, Record, Wake, ReturnNone, VerifyLive, Abandon
    <3> QED
      BY <1>3, <3>1, <3>2, <3>3
  <2>2. pc'[d] = pc[d] \/ pc'[d] \notin {"none", "notify"}
    BY <1>3, <1>p
    DEF Arm, ReadPin, ReadClock, Record, Wake, ReturnNone, VerifyLive, Abandon,
        Select, Move, TrySelect, Selected
  <2> QED
    BY <1>a, <2>1, <2>2 DEF AnswerInv
<1>4. ASSUME NEW c \in Caller, SelectNone(c)
      PROVE  AnswerInv(d)'
  <2>1. /\ req'[d].probes = req[d].probes /\ req'[d].last = req[d].last
        /\ exhausted' = exhausted /\ after' = after
    BY <1>4, SpentType DEF SelectNone, TypeInv
  <2>2. \/ pc'[d] = pc[d]
        \/ pc'[d] = "none" /\ req[d].last
        \/ pc'[d] = "empty"
    BY <1>4, <1>p DEF SelectNone, Move
  <2> QED
    BY <1>a, <2>1, <2>2 DEF AnswerInv
<1>5. ASSUME NEW c \in Caller, CheckExhausted(c)
      PROVE  AnswerInv(d)'
  <2>1. CASE d = c
    <3>1. req'[c].last = exhausted /\ exhausted' = exhausted
          /\ pc'[c] \notin {"none", "notify"}
      BY <1>5, <1>p DEF CheckExhausted, Move, TrySelect, Requests
    <3> QED
      BY <2>1, <3>1 DEF AnswerInv
  <2>2. CASE d # c
    <3>1. /\ req'[d] = req[d] /\ pc'[d] = pc[d] /\ after'[d] = after[d]
          /\ exhausted' = exhausted
      BY <1>5, <1>p, <2>2 DEF CheckExhausted, Move
    <3> QED
      BY <3>1, AnswerFrame
  <2> QED
    BY <2>1, <2>2
<1>6. ASSUME NEW c \in Caller, VerifyDead(c)
      PROVE  AnswerInv(d)'
  <2> DEFINE probes == req[c].probes + 1
             next == IF probes >= VERIFY_MAX_ATTEMPTS THEN "none" ELSE "arm"
  <2>1. pc[c] = "verify" /\ put_inner(c, lease[c], now + FailTimeout, next)
    BY <1>6 DEF VerifyDead, put_failed
  <2>2. next \in {"idle", "arm", "none"} /\ exhausted' = exhausted
    BY <2>1 DEF put_inner
  <2>3. req[c].probes < VERIFY_MAX_ATTEMPTS
    BY <2>1 DEF TypeInv, ProbeInv
  <2>4. next = "none" => probes = VERIFY_MAX_ATTEMPTS
    <3>1. req[c].probes \in Nat /\ VERIFY_MAX_ATTEMPTS \in Nat
      BY <1>p, PoolAssumption DEF Requests
    <3> QED
      BY <2>3, <3>1
  <2>5. /\ req'[c].probes = probes /\ req'[c].last = req[c].last
        /\ \A e \in Caller \ {c} : req'[e] = req[e]
    BY <1>6, <1>p DEF VerifyDead, Requests
  <2> HIDE DEF next
  <2>6. /\ pc'[c] = next \/ (pc'[c] = "notify" /\ after'[c] = next)
        /\ \A e \in Caller \ {c} : pc'[e] = pc[e] /\ after'[e] = after[e]
    BY <2>1, <2>2, PutMoves DEF TypeInv
  <2>7. CASE d = c
    BY <1>a, <2>2, <2>4, <2>5, <2>6, <2>7 DEF AnswerInv
  <2>8. CASE d # c
    BY <2>2, <2>5, <2>6, <2>8, AnswerFrame
  <2> QED
    BY <2>7, <2>8
<1>7. ASSUME NEW c \in Caller, Use(c)
      PROVE  AnswerInv(d)'
  <2>1. PICK p, until : put_inner(c, p, until, "idle")
    BY <1>7 DEF Use, UseOk, UseFailed, UseUntouched, put_ok, put_failed
  <2>2. req' = req /\ exhausted' = exhausted
    BY <1>7, <2>1 DEF Use, UseOk, UseFailed, UseUntouched, put_inner
  <2>3. /\ pc'[c] = "idle" \/ (pc'[c] = "notify" /\ after'[c] = "idle")
        /\ \A e \in Caller \ {c} : pc'[e] = pc[e] /\ after'[e] = after[e]
    BY <2>1, PutMoves DEF TypeInv
  <2> QED
    BY <1>a, <2>2, <2>3 DEF AnswerInv
<1>8. ASSUME NEW c \in Caller, PutNotify(c)
      PROVE  AnswerInv(d)'
  BY <1>8, <1>a, <1>p DEF PutNotify, AnswerInv
<1>9. CASE Tick \/ Importing \/ Gating \/ handle_get_proxy
  BY <1>1, <1>9
  DEF Tick, Importing, Import, ImportNotify, SourceEnd, Gating, GateArm,
      GateLen, GateExhausted, GateWake, handle_get_proxy
<1>10. CASE \E a \in Addr : add(a) \/ remove(a)
  BY <1>1, <1>10 DEF add, remove
<1>11. CASE \E s \in Scheme, R \in Regions : try_get(s, R)
  BY <1>1, <1>11 DEF try_get
<1>12. CASE UNCHANGED vars
  BY <1>1, <1>12 DEF vars
<1> QED
  BY <1>2, <1>3, <1>4, <1>5, <1>6, <1>7, <1>8, <1>9, <1>10, <1>11, <1>12
  DEF Next, Getting

(***************************************************************************)
(* get answers None only once the source has ended, or after               *)
(* VERIFY_MAX_ATTEMPTS failed probes.                                      *)
(***************************************************************************)
THEOREM PoolNoneIsFinal == Spec => []NoneIsFinal
<1>1. NoneInv => NoneIsFinal
  BY DEF NoneInv, AnswerInv, NoneIsFinal
<1> QED
  BY <1>1, TypeInvInit, TypeInvNext, NoneInvInit, NoneInvNext, PTL DEF Spec

-----------------------------------------------------------------------------
(* Where the items are after the pool's sequence has changed.          *)

\* The pool has one entry for item a at most.
Unique(a) ==
  \A i, j \in DOMAIN state : state[i].p.item = a /\ state[j].p.item = a => i = j

\* A push adds one item.
LEMMA PushPlaces ==
  ASSUME state \in Seq(Entries), NEW e \in Entries, state' = Append(state, e)
  PROVE  /\ PooledItems' = PooledItems \cup {e.p.item}
         /\ \A a : Unique(a) /\ (e.p.item = a => a \notin PooledItems) => Unique(a)'
         /\ Len(state') = Len(state) + 1
<1>1. /\ DOMAIN state = 1..Len(state) /\ DOMAIN state' = 1..(Len(state) + 1)
      /\ Len(state) \in Nat /\ Len(state') = Len(state) + 1
      /\ \A i \in 1..Len(state) : state'[i] = state[i]
      /\ state'[Len(state) + 1] = e
  OBVIOUS
<1>2. ASSUME NEW i \in DOMAIN state'
      PROVE  \/ i \in DOMAIN state /\ state'[i] = state[i]
             \/ i = Len(state) + 1 /\ state'[i] = e
  BY <1>1
<1>3. PooledItems' \subseteq PooledItems \cup {e.p.item}
  BY <1>2 DEF PooledItems
<1>4. PooledItems \subseteq PooledItems'
  BY <1>1 DEF PooledItems
<1>5. e.p.item \in PooledItems'
  BY <1>1 DEF PooledItems
<1>6. ASSUME NEW a, Unique(a), e.p.item = a => a \notin PooledItems
      PROVE  Unique(a)'
  BY <1>2, <1>6 DEF Unique, PooledItems
<1> QED
  BY <1>1, <1>3, <1>4, <1>5, <1>6

\* swap_remove takes one entry out and keeps every other one.
LEMMA SwapRemovePlaces ==
  ASSUME state \in Seq(Entries), NEW i \in DOMAIN state,
         state' = swap_remove(state, i)
  PROVE  /\ \A a : Unique(a) => Unique(a)'
         /\ \A a : a # state[i].p.item => (a \in PooledItems' <=> a \in PooledItems)
         /\ Unique(state[i].p.item) => state[i].p.item \notin PooledItems'
         /\ Len(state') = Len(state) - 1
<1>0. /\ DOMAIN state = 1..Len(state) /\ Len(state) \in Nat \ {0} /\ i \in 1..Len(state)
  OBVIOUS
<1>1. /\ DOMAIN state' = 1..(Len(state) - 1) /\ Len(state') = Len(state) - 1
      /\ \A k \in 1..(Len(state) - 1) :
           state'[k] = IF k = i THEN state[Len(state)] ELSE state[k]
  BY <1>0, SwapRemoveType DEF swap_remove
<1> DEFINE from(k) == IF k = i THEN Len(state) ELSE k
<1>2. ASSUME NEW k \in DOMAIN state'
      PROVE  from(k) \in DOMAIN state \ {i} /\ state'[k] = state[from(k)]
  BY <1>0, <1>1
<1>3. \A k, l \in DOMAIN state' : from(k) = from(l) => k = l
  BY <1>0, <1>1
<1>4. ASSUME NEW j \in DOMAIN state \ {i}
      PROVE  \E k \in DOMAIN state' : from(k) = j
  <2>1. CASE j = Len(state)
    BY <1>0, <1>1, <2>1
  <2>2. CASE j # Len(state)
    BY <1>0, <1>1, <2>2
  <2> QED
    BY <2>1, <2>2
<1> HIDE DEF from
<1>5. ASSUME NEW a, Unique(a) PROVE Unique(a)'
  BY <1>2, <1>3, <1>5 DEF Unique
<1>6. ASSUME NEW a, a # state[i].p.item
      PROVE  a \in PooledItems' <=> a \in PooledItems
  BY <1>2, <1>4, <1>6 DEF PooledItems
<1>7. ASSUME Unique(state[i].p.item) PROVE state[i].p.item \notin PooledItems'
  BY <1>2, <1>7 DEF Unique, PooledItems
<1> QED
  BY <1>1, <1>5, <1>6, <1>7

\* retain keeps every entry of K, and only those: an increasing enumeration
\* of a finite set reaches each of its elements.
LEMMA RetainPlaces ==
  ASSUME state \in Seq(Entries), NEW K, K \subseteq DOMAIN state, Retain(K)
  PROVE  /\ \A a : Unique(a) => Unique(a)'
         /\ PooledItems' = {state[j].p.item : j \in K}
         /\ Len(state') = Cardinality(K)
<1>1. DOMAIN state = 1..Len(state) /\ Len(state) \in Nat
  OBVIOUS
<1>2. IsFiniteSet(1..Len(state))
  BY <1>1, FS_Interval
<1>3. IsFiniteSet(K) /\ Cardinality(K) \in Nat
  BY <1>1, <1>2, FS_Subset, FS_CardinalityType
<1> DEFINE n == Cardinality(K)
<1>4. PICK f \in Enumerations(K) : state' = [k \in DOMAIN f |-> state[f[k]]]
  BY DEF Retain
<1>5. f \in [1..n -> K] /\ \A i, j \in 1..n : i < j => f[i] < f[j]
  BY <1>4 DEF Enumerations
<1>6. \A i \in 1..n : f[i] \in Nat
  BY <1>1, <1>5
<1>7. \A i, j \in 1..n : f[i] = f[j] => i = j
  BY <1>3, <1>5, <1>6
<1>8. \A j \in K : \E i \in 1..n : f[i] = j
  <2>1. f \in Injection(1..n, K)
    BY <1>5, <1>7 DEF Injection, IsInjective
  <2>2. IsFiniteSet(1..n) /\ Cardinality(1..n) = n
    <3>1. 1 \in Int /\ n \in Int
      BY <1>3
    <3>2. /\ IsFiniteSet(1..n)
          /\ Cardinality(1..n) = IF 1 > n THEN 0 ELSE n - 1 + 1
      BY <3>1, FS_Interval
    <3> QED
      BY <1>3, <3>2
  <2>3. f \in Surjection(1..n, K)
    BY <1>3, <2>1, <2>2, FS_Injection
  <2> QED
    BY <2>3 DEF Surjection
<1>9. /\ DOMAIN state' = 1..n /\ Len(state') = n
      /\ \A k \in 1..n : state'[k] = state[f[k]]
  <2>1. state' \in [1..n -> Entries]
    BY <1>1, <1>4, <1>5
  <2> QED
    BY <1>3, <1>4, <1>5, <2>1
<1>10. ASSUME NEW a, Unique(a) PROVE Unique(a)'
  BY <1>5, <1>7, <1>9, <1>10 DEF Unique
<1>11. PooledItems' = {state[j].p.item : j \in K}
  BY <1>5, <1>8, <1>9 DEF PooledItems
<1> QED
  BY <1>9, <1>10, <1>11

-----------------------------------------------------------------------------
(***************************************************************************)
(* Every step of the pool is one of these, as far as the whereabouts of    *)
(* its proxies are concerned: nothing moves, one arrives, is added or is   *)
(* removed, a holder takes one, gives it back, or loses it.                *)
(***************************************************************************)
Stays == UNCHANGED <<state, source, lease, evictions>>

Takes(h, i) ==
  /\ lease[h] = NoProxy
  /\ lease' = [lease EXCEPT ![h] = state[i].p]
  /\ state' = swap_remove(state, i) \/ Retain(DOMAIN state \ {i})
  /\ h = Mcp => state[i].p.addr \in UNION Regions
  /\ UNCHANGED <<source, evictions>>

GivesBack(h, e) ==
  /\ lease[h] # NoProxy
  /\ e.p.item = lease[h].item /\ e.p.addr = lease[h].addr
  /\ lease' = [lease EXCEPT ![h] = NoProxy]
  /\ state' = Append(state, e)
  /\ h = Mcp => lease[h].addr \notin PooledAddrs
  /\ UNCHANGED <<source, evictions>>

Loses(h) ==
  /\ lease[h] # NoProxy
  /\ lease' = [lease EXCEPT ![h] = NoProxy]
  /\ UNCHANGED <<state, source>>
  /\ \/ evictions' = evictions + 1
     \/ h \in Droppable /\ UNCHANGED evictions
     \/ h = Mcp /\ lease[h].addr \in PooledAddrs /\ UNCHANGED evictions

Moved ==
  \/ Stays
  \/ \E x \in Item : Import(x)
  \/ \E a \in Addr : add(a) \/ remove(a)
  \/ \E h \in Holder : \E i \in DOMAIN state : Takes(h, i)
  \/ \E h \in Holder : \E e \in Entries : GivesBack(h, e)
  \/ \E h \in Holder : Loses(h)

\* A put gives the proxy back, or evicts it.
LEMMA PutMoved ==
  ASSUME TypeInv, NEW c \in Caller, NEW p \in Proxies, NEW until \in Nat, NEW next,
         lease[c] # NoProxy, p.addr = lease[c].addr, p.item = lease[c].item,
         put_inner(c, p, until, next)
  PROVE  Moved
<1>1. c \in Holder /\ c # Mcp
  BY PoolAssumption DEF Holder
<1>2. CASE unhealthy(p)
  BY <1>1, <1>2 DEF put_inner, Moved, Loses, envVars
<1>3. CASE ~unhealthy(p)
  <2>1. Entry(p, until) \in Entries /\ Entry(p, until).p = p
    BY DEF Entry, Entries
  <2>2. GivesBack(c, Entry(p, until))
    BY <1>1, <1>3, <2>1 DEF put_inner, GivesBack, envVars
  <2> QED
    BY <1>1, <2>1, <2>2 DEF Moved
<1> QED
  BY <1>2, <1>3

LEMMA NextMoved ==
  ASSUME TypeInv, [Next]_vars
  PROVE  Moved
<1> USE DEF TypeInv, TypeOK, poolVars, envVars
<1>1. CASE Tick \/ ImportNotify \/ SourceEnd \/ Gating
  BY <1>1 DEF Tick, ImportNotify, SourceEnd, Gating, GateArm, GateLen,
     GateExhausted, GateWake, Moved, Stays
<1>2. CASE (\E x \in Item : Import(x)) \/ \E a \in Addr : add(a) \/ remove(a)
  BY <1>2 DEF Moved
<1>3. ASSUME NEW s \in Scheme, NEW R \in Regions, try_get(s, R) PROVE Moved
  <2>1. PICK i \in EligibleIdx(state, s) :
          /\ lease' = [lease EXCEPT ![Mcp] = state[i].p] /\ Retain(DOMAIN state \ {i})
          /\ state[i].p.addr \in R
    BY <1>3 DEF try_get, best_by_priority
  <2>2. i \in DOMAIN state /\ Mcp \in Holder
    BY <2>1 DEF EligibleIdx, Holder
  <2>3. Takes(Mcp, i)
    BY <1>3, <2>1 DEF try_get, Takes
  <2> QED
    BY <2>2, <2>3 DEF Moved
<1>4. CASE handle_get_proxy
  <2>1. Mcp \in Holder /\ lease[Mcp] \in Proxies
    BY <1>4 DEF handle_get_proxy, Holder
  <2>2. CASE lease[Mcp].addr \in PooledAddrs
    BY <1>4, <2>1, <2>2 DEF handle_get_proxy, Moved, Loses
  <2>3. CASE lease[Mcp].addr \notin PooledAddrs
    <3>1. Entry(lease[Mcp], 0) \in Entries /\ Entry(lease[Mcp], 0).p = lease[Mcp]
      BY <2>1 DEF Entry, Entries
    <3>2. GivesBack(Mcp, Entry(lease[Mcp], 0))
      BY <1>4, <2>3, <3>1 DEF handle_get_proxy, GivesBack
    <3> QED
      BY <2>1, <3>1, <3>2 DEF Moved
  <2> QED
    BY <2>2, <2>3
<1>5. ASSUME NEW c \in Caller, Select(c) PROVE Moved
  <2>1. PICK i \in Picks(c) :
          lease' = [lease EXCEPT ![c] = state[i].p] /\ state' = swap_remove(state, i)
    BY <1>5 DEF Select
  <2>2. i \in DOMAIN state /\ c \in Holder
    BY <2>1, BestForEligible DEF Picks, EligibleIdx, Holder
  <2>3. lease[c] = NoProxy
    BY <1>5 DEF Select, Move, HoldInv, Holding
  <2>4. Takes(c, i)
    BY <1>5, <2>1, <2>3, PoolAssumption DEF Select, Takes
  <2> QED
    BY <2>2, <2>4 DEF Moved
<1>6. ASSUME NEW c \in Caller, VerifyDead(c) \/ Use(c) PROVE Moved
  <2>1. lease[c] # NoProxy /\ lease[c] \in Proxies
    BY <1>6 DEF VerifyDead, Use, UseOk, UseFailed, UseUntouched, HoldInv, Holding, Holder
  <2>2. now + FailTimeout \in Nat /\ 0 \in Nat
    BY PoolAssumption
  <2>3. CASE VerifyDead(c)
    BY <2>1, <2>2, <2>3, PutMoved DEF VerifyDead, put_failed
  <2>4. CASE Use(c)
    BY <2>1, <2>2, <2>4, PutMoved, RecordType
    DEF Use, UseOk, UseFailed, UseUntouched, put_ok, put_failed
  <2> QED
    BY <1>6, <2>3, <2>4
<1>7. ASSUME NEW c \in Caller, Abandon(c) PROVE Moved
  <2>1. c \in Holder
    BY DEF Holder
  <2>2. CASE lease[c] = NoProxy
    <3>1. lease' = lease
      BY <1>7, <2>1, <2>2 DEF Abandon
    <3> QED
      BY <1>7, <3>1 DEF Abandon, Moved, Stays
  <2>3. CASE lease[c] # NoProxy
    BY <1>7, <2>1, <2>3 DEF Abandon, Moved, Loses
  <2> QED
    BY <2>2, <2>3
<1>8. ASSUME NEW c \in Caller, NEW s \in Scheme, get(c, s) PROVE Moved
  BY <1>8 DEF get, Moved, Stays
<1>9. ASSUME NEW c \in Caller,
             \/ Arm(c) \/ ReadPin(c) \/ ReadClock(c) \/ SelectNone(c) \/ Record(c)
             \/ CheckExhausted(c) \/ Wake(c) \/ VerifyLive(c) \/ PutNotify(c)
             \/ ReturnNone(c)
      PROVE  Moved
  BY <1>9 DEF Arm, ReadPin, ReadClock, SelectNone, Record, CheckExhausted, Wake,
     VerifyLive, PutNotify, ReturnNone, Moved, Stays
<1>10. CASE UNCHANGED vars
  BY <1>10 DEF vars, Moved, Stays
<1> QED
  BY <1>1, <1>2, <1>3, <1>4, <1>5, <1>6, <1>7, <1>8, <1>9, <1>10
  DEF Next, Importing, Getting

\* A change of one lease changes the holders of no other address.
LEMMA LeasePlaces ==
  ASSUME TypeOK, NEW h \in Holder, NEW p, lease' = [lease EXCEPT ![h] = p]
  PROVE  \A a, g : g \in Holders(a)' <=>
           IF g = h THEN p # NoProxy /\ p.item = a ELSE g \in Holders(a)
BY DEF TypeOK, Holders

LEMMA SamePlaces ==
  ASSUME Stays
  PROVE  \A a :
           /\ Unique(a)' <=> Unique(a)
           /\ a \in PooledItems' <=> a \in PooledItems
           /\ Holders(a)' = Holders(a)
           /\ a \in source' <=> a \in source
BY DEF Stays, Unique, PooledItems, Holders

-----------------------------------------------------------------------------
(* Exclusive check-outs.                                                   *)

\* One step, one item.
LEMMA ExclusiveStep ==
  ASSUME TypeInv, TypeInv', [Next]_vars, NEW a \in Item, ExclusiveFor(a)
  PROVE  ExclusiveFor(a)'
<1>0. /\ state \in Seq(Entries) /\ lease \in [Holder -> Proxies \cup {NoProxy}]
      /\ TypeOK
  BY DEF TypeInv, TypeOK
<1>1. /\ Unique(a) /\ \A c, d \in Holders(a) : c = d
      /\ a \in PooledItems => Holders(a) = {}
      /\ a \in source => a \notin PooledItems /\ Holders(a) = {}
  BY DEF ExclusiveFor, Unique
<1>2. ASSUME Unique(a)', \A c, d \in Holders(a)' : c = d,
             a \in PooledItems' => Holders(a)' = {},
             a \in source' => a \notin PooledItems' /\ Holders(a)' = {}
      PROVE  ExclusiveFor(a)'
  BY <1>2 DEF ExclusiveFor, Unique
<1>3. CASE Stays
  BY <1>1, <1>2, <1>3, SamePlaces
<1>4. ASSUME NEW b \in Item, Import(b) PROVE ExclusiveFor(a)'
  <2>1. Holders(a)' = Holders(a) /\ source' = source \ {b} /\ b \in source
    BY <1>4 DEF Import, Holders
  <2>2. CASE b \in CountryOk
    <3>1. /\ Arrival(b) \in Entries /\ Arrival(b).p.item = b
          /\ state' = Append(state, Arrival(b))
      BY <1>4, <2>2, ArrivalType DEF Import
    <3>2. /\ PooledItems' = PooledItems \cup {b}
          /\ (b = a => a \notin PooledItems) => Unique(a)'
      BY <1>0, <1>1, <3>1, PushPlaces
    <3> QED
      BY <1>1, <1>2, <2>1, <3>2
  <2>3. CASE b \notin CountryOk
    <3>1. Unique(a)' /\ PooledItems' = PooledItems
      BY <1>1, <1>4, <2>3 DEF Import, Unique, PooledItems
    <3> QED
      BY <1>1, <1>2, <2>1, <3>1
  <2> QED
    BY <2>2, <2>3
<1>5. ASSUME NEW b \in Addr, add(b) PROVE ExclusiveFor(a)'
  <2>1. NoItem # a /\ Holders(a)' = Holders(a) /\ source' = source
    BY <1>5, SelectionAssumption DEF add, Holders, envVars
  <2>2. /\ Entry(Checked(b, NoItem), 0) \in Entries
        /\ Entry(Checked(b, NoItem), 0).p.item = NoItem
        /\ state' = Append(state, Entry(Checked(b, NoItem), 0))
    BY <1>5, CheckedType DEF add, Entry, Entries
  <2>3. PooledItems' = PooledItems \cup {NoItem} /\ Unique(a)'
    BY <1>0, <1>1, <2>1, <2>2, PushPlaces
  <2> QED
    BY <1>1, <1>2, <2>1, <2>3
<1>6. ASSUME NEW b \in Addr, remove(b) PROVE ExclusiveFor(a)'
  <2>1. Holders(a)' = Holders(a) /\ source' = source
    BY <1>6 DEF remove, Holders, envVars
  <2> DEFINE K == {i \in DOMAIN state : state[i].p.addr # b}
  <2>2. K \subseteq DOMAIN state /\ Retain(K)
    BY <1>6 DEF remove
  <2>3. Unique(a)' /\ PooledItems' = {state[j].p.item : j \in K}
    BY <1>0, <1>1, <2>2, RetainPlaces
  <2>4. PooledItems' \subseteq PooledItems
    BY <2>3 DEF PooledItems
  <2> QED
    BY <1>1, <1>2, <2>1, <2>3, <2>4
<1>7. ASSUME NEW h \in Holder, NEW i \in DOMAIN state, Takes(h, i) PROVE ExclusiveFor(a)'
  <2>1. state[i].p \in Proxies /\ source' = source
    BY <1>0, <1>7, EntryType DEF Takes
  <2>2. \A g : g \in Holders(a)' <=>
          IF g = h THEN state[i].p # NoProxy /\ state[i].p.item = a ELSE g \in Holders(a)
    BY <1>0, <1>7, LeasePlaces DEF Takes
  <2>3. /\ Unique(a)' /\ (a \in PooledItems' => a \in PooledItems)
        /\ state[i].p.item = a => a \notin PooledItems'
    <3>1. CASE state' = swap_remove(state, i)
      BY <1>0, <1>1, <3>1, SwapRemovePlaces
    <3>2. CASE Retain(DOMAIN state \ {i})
      <4>1. /\ Unique(a)'
            /\ PooledItems' = {state[j].p.item : j \in DOMAIN state \ {i}}
        BY <1>0, <1>1, <3>2, RetainPlaces
      <4> QED
        BY <1>1, <4>1 DEF Unique, PooledItems
    <3> QED
      BY <1>7, <3>1, <3>2 DEF Takes
  <2>4. CASE state[i].p.item = a
    <3>1. a \in PooledItems
      BY <2>4 DEF PooledItems
    <3> QED
      BY <1>1, <1>2, <2>1, <2>2, <2>3, <2>4, <3>1
  <2>5. CASE state[i].p.item # a
    <3>1. h \notin Holders(a)
      BY <1>7 DEF Takes, Holders
    <3> QED
      BY <1>1, <1>2, <2>1, <2>2, <2>3, <2>5, <3>1
  <2> QED
    BY <2>4, <2>5
<1>8. ASSUME NEW h \in Holder, NEW e \in Entries, GivesBack(h, e) PROVE ExclusiveFor(a)'
  <2>1. \A g : g \in Holders(a)' <=> g # h /\ g \in Holders(a)
    BY <1>0, <1>8, LeasePlaces DEF GivesBack
  <2>2. /\ PooledItems' = PooledItems \cup {e.p.item}
        /\ (e.p.item = a => a \notin PooledItems) => Unique(a)'
    BY <1>0, <1>1, <1>8, PushPlaces DEF GivesBack
  <2>3. source' = source /\ (e.p.item = a => h \in Holders(a))
    BY <1>8 DEF GivesBack, Holders
  <2> QED
    BY <1>1, <1>2, <2>1, <2>2, <2>3
<1>9. ASSUME NEW h \in Holder, Loses(h) PROVE ExclusiveFor(a)'
  <2>1. \A g : g \in Holders(a)' <=> g # h /\ g \in Holders(a)
    BY <1>0, <1>9, LeasePlaces DEF Loses
  <2>2. source' = source /\ Unique(a)' /\ PooledItems' = PooledItems
    BY <1>1, <1>9 DEF Loses, Unique, PooledItems
  <2> QED
    BY <1>1, <1>2, <2>1, <2>2
<1> QED
  BY <1>3, <1>4, <1>5, <1>6, <1>7, <1>8, <1>9, NextMoved DEF Moved

LEMMA ExclusiveInit == Init => Exclusive
<1> SUFFICES ASSUME Init, NEW a \in Item PROVE ExclusiveFor(a)
  BY DEF Exclusive
<1>1. Holders(a) = {}
  BY DEF Init, Holders
<1>2. CASE spawn
  BY <1>1, <1>2 DEF spawn, ExclusiveFor, PooledItems
<1>3. CASE from_proxies
  <2>1. PICK f \in [1..Cardinality(CountryOk) -> CountryOk] :
          /\ \A i, j \in DOMAIN f : f[i] = f[j] => i = j
          /\ state = [i \in DOMAIN f |-> Arrival(f[i])]
    BY <1>3 DEF from_proxies
  <2>2. ASSUME NEW i \in DOMAIN state PROVE i \in DOMAIN f /\ state[i].p.item = f[i]
    <3>1. f[i] \in Item /\ state[i] = Arrival(f[i])
      BY <2>1, PoolAssumption
    <3> QED
      BY <2>1, <3>1, ArrivalType
  <2>3. \A i, j \in DOMAIN state : state[i].p.item = a /\ state[j].p.item = a => i = j
    BY <2>1, <2>2
  <2>4. source = {}
    BY <1>3 DEF from_proxies
  <2> QED
    BY <1>1, <2>3, <2>4 DEF ExclusiveFor
<1> QED
  BY <1>2, <1>3 DEF Init

LEMMA ExclusiveNext == TypeInv /\ TypeInv' /\ Exclusive /\ [Next]_vars => Exclusive'
BY ExclusiveStep DEF Exclusive

(***************************************************************************)
(* A check-out is exclusive under every interleaving of imports, gets,     *)
(* puts, additions, removals and the MCP handler: each proxy the stream    *)
(* or the list delivered is still to come, in the pool once, or with one   *)
(* holder.                                                                 *)
(***************************************************************************)
THEOREM PoolExclusive == Spec => []Exclusive
BY TypeInvInit, TypeInvNext, ExclusiveInit, ExclusiveNext, PTL DEF Spec

-----------------------------------------------------------------------------
(* Where a proxy comes from, and one holder per address.                   *)

\* Where a proxy at address a comes from: from a if somebody may add it, and
\* else from an item at a.
Known(p) == IF p.item = NoItem THEN p.addr \in Addable ELSE p.addr = AddrOf[p.item]

OriginInv ==
  /\ \A i \in DOMAIN state : Known(state[i].p)
  /\ \A h \in Holder : lease[h] # NoProxy => Known(lease[h])
  /\ lease[Mcp] # NoProxy => lease[Mcp].addr \in UNION Regions

LEMMA OriginInit == Init => OriginInv
<1> SUFFICES ASSUME Init PROVE OriginInv
  OBVIOUS
<1>1. \A h \in Holder : lease[h] = NoProxy
  BY DEF Init
<1>2. CASE spawn
  BY <1>1, <1>2 DEF spawn, OriginInv, Holder
<1>3. CASE from_proxies
  <2>1. PICK f \in [1..Cardinality(CountryOk) -> CountryOk] :
          state = [i \in DOMAIN f |-> Arrival(f[i])]
    BY <1>3 DEF from_proxies
  <2>2. ASSUME NEW i \in DOMAIN state PROVE Known(state[i].p)
    <3>1. f[i] \in Item /\ state[i] = Arrival(f[i])
      BY <2>1, PoolAssumption
    <3> QED
      BY <3>1, ArrivalType, SelectionAssumption DEF Known
  <2> QED
    BY <1>1, <2>2 DEF OriginInv, Holder
<1> QED
  BY <1>2, <1>3 DEF Init

LEMMA OriginNext == TypeInv /\ OriginInv /\ [Next]_vars => OriginInv'
<1> SUFFICES ASSUME TypeInv, OriginInv, [Next]_vars PROVE OriginInv'
  OBVIOUS
<1>0. /\ state \in Seq(Entries) /\ lease \in [Holder -> Proxies \cup {NoProxy}]
      /\ Mcp \in Holder
  BY DEF TypeInv, TypeOK, Holder
<1>1. CASE Stays
  BY <1>1 DEF Stays, OriginInv, Known
<1>2. ASSUME NEW e \in Entries, state' = Append(state, e), Known(e.p),
             NEW h \in Holder, lease' = lease \/ lease' = [lease EXCEPT ![h] = NoProxy]
      PROVE  OriginInv'
  <2>1. /\ DOMAIN state = 1..Len(state) /\ DOMAIN state' = 1..(Len(state) + 1)
        /\ Len(state) \in Nat
    BY <1>0, <1>2
  <2>2. \A i \in 1..Len(state) : state'[i] = state[i]
    BY <1>0, <1>2
  <2>3. state'[Len(state) + 1] = e
    BY <1>0, <1>2
  <2>4. \A i \in DOMAIN state' : Known(state'[i].p)
    BY <1>2, <2>1, <2>2, <2>3 DEF OriginInv
  <2>5. \A g \in Holder : lease'[g] = lease[g] \/ lease'[g] = NoProxy
    BY <1>0, <1>2
  <2> QED
    BY <1>0, <2>4, <2>5 DEF OriginInv, Known
<1>3. ASSUME NEW x \in Item, Import(x) PROVE OriginInv'
  <2>1. CASE x \in CountryOk
    <3>1. Arrival(x) \in Entries /\ Known(Arrival(x).p)
      BY ArrivalType, SelectionAssumption DEF Known
    <3>2. state' = Append(state, Arrival(x)) /\ lease' = lease
      BY <1>3, <2>1 DEF Import
    <3> QED
      BY <1>0, <1>2, <3>1, <3>2
  <2>2. CASE x \notin CountryOk
    BY <1>3, <2>2 DEF Import, OriginInv, Known
  <2> QED
    BY <2>1, <2>2
<1>4. ASSUME NEW a \in Addr, add(a) PROVE OriginInv'
  <2>1. /\ Entry(Checked(a, NoItem), 0) \in Entries
        /\ Entry(Checked(a, NoItem), 0).p.item = NoItem
        /\ Entry(Checked(a, NoItem), 0).p.addr = a
    BY CheckedType DEF Entry, Entries
  <2>2. Known(Entry(Checked(a, NoItem), 0).p)
    BY <1>4, <2>1 DEF add, Known
  <2> QED
    BY <1>0, <1>2, <1>4, <2>1, <2>2 DEF add
<1>5. ASSUME \A k \in DOMAIN state' : \E j \in DOMAIN state : state'[k] = state[j],
             lease' = lease
      PROVE  OriginInv'
  BY <1>5 DEF OriginInv, Known
<1>6. ASSUME NEW a \in Addr, remove(a) PROVE OriginInv'
  <2> DEFINE K == {i \in DOMAIN state : state[i].p.addr # a}
  <2>1. K \subseteq DOMAIN state /\ Retain(K) /\ lease' = lease
    BY <1>6 DEF remove
  <2>2. \A k \in DOMAIN state' : \E j \in K : state'[k] = state[j]
    BY <1>0, <2>1, RetainType
  <2> QED
    BY <1>5, <2>1, <2>2
<1>7. ASSUME NEW h \in Holder, NEW i \in DOMAIN state, Takes(h, i) PROVE OriginInv'
  <2>1. \A k \in DOMAIN state' : \E j \in DOMAIN state : state'[k] = state[j]
    <3>1. CASE state' = swap_remove(state, i)
      BY <1>0, <3>1, SwapRemoveType
    <3>2. CASE Retain(DOMAIN state \ {i})
      <4>1. \A k \in DOMAIN state' : \E j \in DOMAIN state \ {i} : state'[k] = state[j]
        BY <1>0, <3>2, RetainType
      <4> QED
        BY <4>1
    <3> QED
      BY <1>7, <3>1, <3>2 DEF Takes
  <2>2. \A g \in Holder : lease'[g] = IF g = h THEN state[i].p ELSE lease[g]
    BY <1>0, <1>7 DEF Takes
  <2> QED
    BY <1>0, <1>7, <2>1, <2>2 DEF OriginInv, Known, Takes
<1>8. ASSUME NEW h \in Holder, NEW e \in Entries, GivesBack(h, e) PROVE OriginInv'
  <2>1. Known(e.p)
    BY <1>8 DEF GivesBack, OriginInv, Known
  <2> QED
    BY <1>2, <1>8, <2>1 DEF GivesBack
<1>9. ASSUME NEW h \in Holder, Loses(h) PROVE OriginInv'
  <2>1. \A g \in Holder : lease'[g] = lease[g] \/ lease'[g] = NoProxy
    BY <1>0, <1>9 DEF Loses
  <2> QED
    BY <1>0, <1>9, <2>1 DEF OriginInv, Known, Loses
<1> QED
  BY <1>1, <1>3, <1>4, <1>6, <1>7, <1>8, <1>9, NextMoved DEF Moved

(***************************************************************************)
(* What callers care about is the address.  An address that is delivered   *)
(* once, and that nobody adds to the running pool, is held by one caller   *)
(* at a time, in every interleaving.                                       *)
(***************************************************************************)
THEOREM PoolAddressExclusive ==
  ASSUME NEW a \in Addr \ Addable,
         \A x, y \in Item : AddrOf[x] = a /\ AddrOf[y] = a => x = y
  PROVE  Spec => [](\A c, d \in Holder :
                      /\ lease[c] # NoProxy /\ lease[c].addr = a
                      /\ lease[d] # NoProxy /\ lease[d].addr = a
                      => c = d)
<1> DEFINE OneHolder == \A c, d \in Holder :
                          /\ lease[c] # NoProxy /\ lease[c].addr = a
                          /\ lease[d] # NoProxy /\ lease[d].addr = a
                          => c = d
<1>1. TypeInv /\ Exclusive /\ OriginInv => OneHolder
  <2> SUFFICES ASSUME TypeInv, Exclusive, OriginInv, NEW c \in Holder, NEW d \in Holder,
                      lease[c] # NoProxy, lease[c].addr = a,
                      lease[d] # NoProxy, lease[d].addr = a
               PROVE  c = d
    OBVIOUS
  <2>1. lease[c] \in Proxies /\ lease[d] \in Proxies
    BY DEF TypeInv, TypeOK
  <2>2. lease[c].item \in Item \cup {NoItem} /\ lease[d].item \in Item \cup {NoItem}
    BY <2>1 DEF Proxies
  <2>3. Known(lease[c]) /\ Known(lease[d])
    BY DEF OriginInv
  <2>4. lease[c].item \in Item /\ lease[c].item = lease[d].item
    BY <2>2, <2>3 DEF Known
  <2> QED
    BY <2>4 DEF Exclusive, ExclusiveFor, Holders
<1> HIDE DEF OneHolder
<1>2. Spec => []OneHolder
  BY <1>1, TypeInvInit, TypeInvNext, ExclusiveInit, ExclusiveNext, OriginInit, OriginNext,
     PTL DEF Spec
<1> QED
  BY <1>2 DEF OneHolder

-----------------------------------------------------------------------------
(* Nothing leaks.                                                          *)

Leased == {h \in Holder : lease[h] # NoProxy}

\* Nobody adds, removes or drops: then only put_inner's eviction loses one.
Closed == Addable = {} /\ Removable = {} /\ Droppable = {} /\ SingleForMcp

LeakInv ==
  /\ IsFiniteSet(Leased)
  /\ Cardinality(CountryOk \ source) = Len(state) + Cardinality(Leased) + evictions

\* A sequence of entries has as many indices as its length.
LEMMA DomainCard ==
  ASSUME state \in Seq(Entries)
  PROVE  IsFiniteSet(DOMAIN state) /\ Cardinality(DOMAIN state) = Len(state)
<1>1. DOMAIN state = 1..Len(state) /\ Len(state) \in Nat
  OBVIOUS
<1>2. /\ IsFiniteSet(1..Len(state))
      /\ Cardinality(1..Len(state)) = IF 1 > Len(state) THEN 0 ELSE Len(state) - 1 + 1
  BY <1>1, 1 \in Int, Len(state) \in Int, FS_Interval
<1> QED
  BY <1>1, <1>2

LEMMA LeakStep ==
  ASSUME Closed, TypeInv, Exclusive, OriginInv, LeakInv, [Next]_vars
  PROVE  LeakInv'
<1>0. /\ state \in Seq(Entries) /\ lease \in [Holder -> Proxies \cup {NoProxy}]
      /\ TypeOK /\ evictions \in Nat /\ source \subseteq Item
  BY DEF TypeInv, TypeOK
<1>1. /\ Len(state) \in Nat /\ Cardinality(Leased) \in Nat
      /\ IsFiniteSet(CountryOk \ source) /\ Cardinality(CountryOk \ source) \in Nat
  BY <1>0, PoolAssumption, FS_Subset, FS_CardinalityType DEF LeakInv
<1>2. CASE Stays
  BY <1>2 DEF Stays, LeakInv, Leased
<1>3. ASSUME NEW a \in Item, Import(a) PROVE LeakInv'
  <2>1. a \in source /\ source' = source \ {a} /\ Leased' = Leased /\ evictions' = evictions
    BY <1>3 DEF Import, Leased
  <2>2. CASE a \in CountryOk
    <3>1. Arrival(a) \in Entries
      BY ArrivalType
    <3>2. Len(state') = Len(state) + 1
      BY <1>0, <1>3, <2>2, <3>1 DEF Import
    <3>3. CountryOk \ source' = (CountryOk \ source) \cup {a} /\ a \notin CountryOk \ source
      BY <2>1, <2>2
    <3>4. Cardinality((CountryOk \ source) \cup {a}) = Cardinality(CountryOk \ source) + 1
      BY <1>1, <3>3, FS_AddElement
    <3>5. Cardinality(CountryOk \ source') = Cardinality(CountryOk \ source) + 1
      BY <3>3, <3>4, Zenon
    <3> QED
      BY <1>0, <1>1, <2>1, <3>2, <3>5 DEF LeakInv
  <2>3. CASE a \notin CountryOk
    <3>1. CountryOk \ source' = CountryOk \ source /\ state' = state
      BY <1>3, <2>1, <2>3 DEF Import
    <3> QED
      BY <2>1, <3>1 DEF LeakInv
  <2> QED
    BY <2>2, <2>3
<1>4. ASSUME NEW a \in Addr, add(a) \/ remove(a) PROVE FALSE
  BY <1>4 DEF add, remove, Closed
<1>5. ASSUME NEW h \in Holder, NEW i \in DOMAIN state, Takes(h, i) PROVE LeakInv'
  <2>1. Len(state') = Len(state) - 1
    <3>1. CASE state' = swap_remove(state, i)
      BY <1>0, <3>1, SwapRemoveType
    <3>2. CASE Retain(DOMAIN state \ {i})
      <4>1. Len(state') = Cardinality(DOMAIN state \ {i})
        BY <1>0, <3>2, RetainPlaces
      <4>2. Cardinality(DOMAIN state \ {i}) = Cardinality(DOMAIN state) - 1
        BY <1>0, DomainCard, FS_RemoveElement
      <4> QED
        BY <1>0, <4>1, <4>2, DomainCard
    <3> QED
      BY <1>5, <3>1, <3>2 DEF Takes
  <2>2. state[i].p # NoProxy
    BY <1>0, EntryType, PoolAssumption
  <2>3. Leased' = Leased \cup {h} /\ h \notin Leased
    BY <1>0, <1>5, <2>2 DEF Takes, Leased
  <2>4. /\ IsFiniteSet(Leased \cup {h})
        /\ Cardinality(Leased \cup {h}) = Cardinality(Leased) + 1
    BY <2>3, FS_AddElement DEF LeakInv
  <2>5. evictions' = evictions /\ source' = source
    BY <1>5 DEF Takes
  <2> QED
    BY <1>0, <1>1, <2>1, <2>3, <2>4, <2>5 DEF LeakInv
<1>6. ASSUME NEW h \in Holder, lease[h] # NoProxy, lease' = [lease EXCEPT ![h] = NoProxy]
      PROVE  /\ IsFiniteSet(Leased') /\ Cardinality(Leased') = Cardinality(Leased) - 1
  <2>1. Leased' = Leased \ {h} /\ h \in Leased
    BY <1>0, <1>6 DEF Leased
  <2> QED
    BY <2>1, FS_RemoveElement DEF LeakInv
<1>7. ASSUME NEW h \in Holder, NEW e \in Entries, GivesBack(h, e) PROVE LeakInv'
  <2>1. IsFiniteSet(Leased') /\ Cardinality(Leased') = Cardinality(Leased) - 1
    BY <1>6, <1>7 DEF GivesBack
  <2>2. Len(state') = Len(state) + 1 /\ evictions' = evictions /\ source' = source
    BY <1>0, <1>7 DEF GivesBack
  <2> QED
    BY <1>0, <1>1, <2>1, <2>2 DEF LeakInv
<1>8. ASSUME NEW h \in Holder, Loses(h) PROVE LeakInv'
  <2>1. IsFiniteSet(Leased') /\ Cardinality(Leased') = Cardinality(Leased) - 1
    BY <1>6, <1>8 DEF Loses
  <2>2. h = Mcp => lease[h].addr \notin PooledAddrs
    <3> SUFFICES ASSUME h = Mcp, NEW i \in DOMAIN state, state[i].p.addr = lease[h].addr
                 PROVE  FALSE
      BY DEF PooledAddrs
    <3>1. /\ lease[h] # NoProxy /\ lease[h].item \in Item \cup {NoItem}
          /\ state[i].p.item \in Item \cup {NoItem}
      BY <1>0, <1>8, EntryType DEF Loses, Proxies
    <3>2. /\ Known(lease[h]) /\ Known(state[i].p)
          /\ lease[h].addr \in UNION Regions
      BY <3>1 DEF OriginInv
    <3>3. lease[h].item \in Item /\ state[i].p.item = lease[h].item
      BY <3>1, <3>2 DEF Known, Closed, SingleForMcp
    <3>4. lease[h].item \in PooledItems /\ h \in Holders(lease[h].item)
      BY <3>1, <3>3 DEF PooledItems, Holders
    <3> QED
      BY <3>3, <3>4 DEF Exclusive, ExclusiveFor
  <2>3. evictions' = evictions + 1 /\ state' = state /\ source' = source
    BY <1>8, <2>2 DEF Loses, Closed
  <2> QED
    BY <1>0, <1>1, <2>1, <2>3 DEF LeakInv
<1> QED
  BY <1>2, <1>3, <1>4, <1>5, <1>7, <1>8, NextMoved DEF Moved

LEMMA LeakInit == Init => LeakInv
<1> SUFFICES ASSUME Init PROVE LeakInv
  OBVIOUS
<1>1. Leased = {} /\ evictions = 0
  BY DEF Init, Leased
<1>2. IsFiniteSet(Leased) /\ Cardinality(Leased) = 0
  BY <1>1, FS_EmptySet
<1>3. CASE spawn
  <2>1. CountryOk \ source = {} /\ Len(state) = 0
    BY <1>3, PoolAssumption DEF spawn
  <2> QED
    BY <1>1, <1>2, <2>1, FS_EmptySet DEF LeakInv
<1>4. CASE from_proxies
  <2>1. Cardinality(CountryOk) \in Nat
    BY PoolAssumption, FS_Subset, FS_CardinalityType
  <2>2. CountryOk \ source = CountryOk
    BY <1>4 DEF from_proxies
  <2>3. DOMAIN state = 1..Cardinality(CountryOk)
    BY <1>4 DEF from_proxies
  <2>4. state \in Seq(Entries)
    BY TypeInvInit DEF TypeInv, TypeOK
  <2>5. Len(state) = Cardinality(CountryOk)
    BY <2>1, <2>3, <2>4
  <2>6. Cardinality(CountryOk \ source) = Cardinality(CountryOk)
    BY <2>2, Zenon
  <2> QED
    BY <1>1, <1>2, <2>1, <2>5, <2>6 DEF LeakInv
<1> QED
  BY <1>3, <1>4 DEF Init

(***************************************************************************)
(* In a pool that nobody adds to or removes from, and whose get_proxy      *)
(* draws only addresses delivered once, every admitted proxy is            *)
(* pooled, held or counted as evicted, once, at every moment, whatever the *)
(* callers, the importer, the probes and the MCP handler do.               *)
(***************************************************************************)
THEOREM PoolNothingLeaks == Spec => []NothingLeaks
<1> DEFINE Inv == Closed => LeakInv
<1>1. Init => Inv
  BY LeakInit
<1>2. TypeInv /\ Exclusive /\ OriginInv /\ Inv /\ [Next]_vars => Inv'
  BY LeakStep DEF Closed, SingleForMcp
<1>3. Inv => NothingLeaks
  BY DEF LeakInv, Closed, NothingLeaks, Leased
<1> HIDE DEF Inv
<1> QED
  BY <1>1, <1>2, <1>3, TypeInvInit, TypeInvNext, ExclusiveInit, ExclusiveNext,
     OriginInit, OriginNext, PTL DEF Spec

-----------------------------------------------------------------------------
(* The sticky pin.                                                         *)

PinOf(c) == sessions[KeyOf[c]] \in {lease[c].addr, NoAddr}

\* A recorded pin replaces the client's own, and may displace another's.
LEMMA RecordSessionPins ==
  ASSUME TypeOK, NEW k \in Key, NEW a, record_session(k, a)
  PROVE  /\ sessions'[k] = a
         /\ \A j \in Key \ {k} : sessions'[j] \in {sessions[j], NoAddr}
<1>1. CASE \E v \in Pinned : /\ k \notin Pinned
                            /\ sessions' = [sessions EXCEPT ![v] = NoAddr, ![k] = a]
  BY <1>1 DEF TypeOK
<1>2. CASE sessions' = [sessions EXCEPT ![k] = a]
  BY <1>2 DEF TypeOK
<1> QED
  BY <1>1, <1>2 DEF record_session

LEMMA PinNext == TypeInv /\ PinFollowsLease /\ [Next]_vars => PinFollowsLease'
<1> SUFFICES ASSUME TypeInv, PinFollowsLease, [Next]_vars, NEW c \in Caller,
                    Strategy = "Sticky", pc'[c] \in {"verify", "held"},
                    \A d \in Caller \ {c} : KeyOf[d] # KeyOf[c]
             PROVE  PinOf(c)'
  BY DEF PinFollowsLease, PinOf
<1> USE DEF TypeInv, poolVars, envVars
<1>1. ASSUME pc[c] \in {"verify", "held"}, lease'[c] = lease[c],
             sessions'[KeyOf[c]] \in {sessions[KeyOf[c]], NoAddr}
      PROVE  PinOf(c)'
  BY <1>1 DEF PinFollowsLease, PinOf
<1>2. ASSUME pc'[c] = pc[c], lease'[c] = lease[c], UNCHANGED sessions
      PROVE  PinOf(c)'
  BY <1>1, <1>2
<1>3. CASE Tick \/ Importing \/ Gating \/ \E a \in Addr : add(a) \/ remove(a)
  BY <1>2, <1>3 DEF Tick, Importing, Import, ImportNotify, SourceEnd, Gating, GateArm,
     GateLen, GateExhausted, GateWake, add, remove
<1>4. CASE (\E s \in Scheme, R \in Regions : try_get(s, R)) \/ handle_get_proxy
  <2>1. Mcp # c /\ c \in Holder
    BY PoolAssumption DEF Holder
  <2>2. lease'[c] = lease[c] /\ UNCHANGED <<pc, sessions>>
    BY <1>4, <2>1 DEF try_get, handle_get_proxy, TypeOK
  <2> QED
    BY <1>2, <2>2
<1>5. ASSUME NEW d \in Caller, Record(d) PROVE PinOf(c)'
  <2>1. record_session(KeyOf[d], lease[d].addr) /\ lease' = lease
    BY <1>5 DEF Record
  <2>2. KeyOf[d] \in Key /\ KeyOf[c] \in Key
    BY PoolAssumption
  <2>3. CASE d = c
    BY <2>1, <2>2, <2>3, RecordSessionPins DEF PinOf
  <2>4. CASE d # c
    <3>1. sessions'[KeyOf[c]] \in {sessions[KeyOf[c]], NoAddr}
      BY <2>1, <2>2, <2>4, RecordSessionPins
    <3>2. pc'[c] = pc[c]
      BY <1>5, <2>4 DEF Record, Move, TypeOK
    <3> QED
      BY <1>1, <2>1, <3>1, <3>2
  <2> QED
    BY <2>3, <2>4
<1>6. ASSUME NEW d \in Caller, VerifyLive(d) PROVE PinOf(c)'
  <2>1. pc[c] \in {"verify", "held"}
    BY <1>6 DEF VerifyLive, Move, TypeOK
  <2> QED
    BY <1>1, <1>6, <2>1 DEF VerifyLive
<1>7. ASSUME NEW d \in Caller, Select(d) PROVE PinOf(c)'
  <2>1. c # d
    BY <1>7 DEF Select, Move, TypeOK
  <2>2. pc'[c] = pc[c] /\ lease'[c] = lease[c] /\ UNCHANGED sessions
    BY <1>7, <2>1 DEF Select, Move, TypeOK, Holder
  <2> QED
    BY <1>2, <2>2
<1>8. ASSUME NEW d \in Caller, VerifyDead(d) \/ Use(d) PROVE PinOf(c)'
  <2>1. PICK next \in {"idle", "arm", "none"} :
          \E p, until : put_inner(d, p, until, next)
    BY <1>8 DEF VerifyDead, Use, UseOk, UseFailed, UseUntouched, put_ok, put_failed
  <2>2. c # d
    BY <2>1, PutMoves
  <2>3. pc'[c] = pc[c] /\ lease'[c] = lease[c] /\ UNCHANGED sessions
    BY <2>1, <2>2, PutMoves DEF put_inner, TypeOK, Holder
  <2> QED
    BY <1>2, <2>3
<1>9. ASSUME NEW d \in Caller, Abandon(d) PROVE PinOf(c)'
  <2>1. c # d
    BY <1>9 DEF Abandon, TypeOK
  <2> QED
    BY <1>2, <1>9, <2>1 DEF Abandon, TypeOK, Holder
<1>10. ASSUME NEW d \in Caller,
              \/ (\E s \in Scheme : get(d, s)) \/ Arm(d) \/ ReadPin(d) \/ ReadClock(d)
              \/ SelectNone(d) \/ CheckExhausted(d) \/ Wake(d) \/ ReturnNone(d)
              \/ PutNotify(d)
       PROVE  PinOf(c)'
  <2>1. pc'[d] \notin {"verify", "held"} /\ \A e \in Caller \ {d} : pc'[e] = pc[e]
    BY <1>10 DEF get, Arm, ReadPin, ReadClock, SelectNone, CheckExhausted, Wake,
       ReturnNone, PutNotify, Move, TrySelect, TypeOK
  <2>2. UNCHANGED <<lease, sessions>>
    BY <1>10 DEF get, Arm, ReadPin, ReadClock, SelectNone, CheckExhausted, Wake,
       ReturnNone, PutNotify
  <2> QED
    BY <1>2, <2>1, <2>2
<1>11. CASE UNCHANGED vars
  BY <1>2, <1>11 DEF vars
<1> QED
  BY <1>3, <1>4, <1>5, <1>6, <1>7, <1>8, <1>9, <1>10, <1>11 DEF Next, Getting

(***************************************************************************)
(* With any number of clients and any bound on the sessions, the pin of a  *)
(* client that holds a proxy is that proxy, or was displaced.              *)
(***************************************************************************)
THEOREM PoolPinFollowsLease == Spec => []PinFollowsLease
<1>1. Init => PinFollowsLease
  BY DEF Init, PinFollowsLease
<1> QED
  BY <1>1, PinNext, TypeInvInit, TypeInvNext, PTL DEF Spec

-----------------------------------------------------------------------------
(* The bench.                                                              *)

\* A clock that was read is not ahead of the clock.
ClockInv == \A c \in Caller : req[c].t <= now

LEMMA ClockNext == TypeInv /\ ClockInv /\ [Next]_vars => ClockInv'
<1> SUFFICES ASSUME TypeInv, ClockInv, [Next]_vars PROVE ClockInv'
  OBVIOUS
<1> USE DEF TypeInv, poolVars, envVars
<1>0. now \in Nat /\ \A c \in Caller : req[c] \in Requests /\ req[c].t \in Nat
  BY DEF TypeOK, Requests
<1>1. CASE UNCHANGED <<req, now>>
  BY <1>1 DEF ClockInv
<1>2. CASE Tick
  BY <1>0, <1>2 DEF Tick, ClockInv
<1>3. ASSUME NEW c \in Caller, UNCHANGED now, req'[c].t \in {0, req[c].t, now},
             \A d \in Caller \ {c} : req'[d] = req[d]
      PROVE  ClockInv'
  BY <1>0, <1>3 DEF ClockInv
<1>4. ASSUME NEW c \in Caller, NEW s \in Scheme, get(c, s) PROVE ClockInv'
  BY <1>3, <1>4 DEF get, Request, TypeOK
<1>5. ASSUME NEW c \in Caller, ReadPin(c) \/ ReadClock(c) \/ CheckExhausted(c)
      PROVE ClockInv'
  <2>1. /\ UNCHANGED now
        /\ \/ req' = [req EXCEPT ![c].pin = sessions[KeyOf[c]]]
           \/ req' = [req EXCEPT ![c].cursor = round_robin]
           \/ req' = [req EXCEPT ![c].t = now]
           \/ req' = [req EXCEPT ![c].last = exhausted]
    BY <1>5 DEF ReadPin, ReadClock, CheckExhausted
  <2> QED
    BY <1>0, <1>3, <2>1 DEF TypeOK, Requests
<1>6. ASSUME NEW c \in Caller, Select(c) \/ SelectNone(c) PROVE ClockInv'
  BY <1>3, <1>6 DEF Select, SelectNone, Spent, Request, TypeOK
<1>7. ASSUME NEW c \in Caller, VerifyDead(c) PROVE ClockInv'
  <2>1. UNCHANGED now /\ req' = [req EXCEPT ![c].probes = req[c].probes + 1]
    BY <1>7 DEF VerifyDead, put_failed, put_inner
  <2> QED
    BY <1>0, <1>3, <2>1 DEF TypeOK, Requests
<1>8. ASSUME NEW c \in Caller,
             \/ Arm(c) \/ Record(c) \/ Wake(c) \/ VerifyLive(c) \/ PutNotify(c)
             \/ Use(c) \/ ReturnNone(c) \/ Abandon(c)
      PROVE  ClockInv'
  BY <1>1, <1>8 DEF Arm, Record, Wake, VerifyLive, PutNotify, Use, UseOk, UseFailed,
     UseUntouched, put_ok, put_failed, put_inner, ReturnNone, Abandon
<1>9. CASE \/ Importing \/ Gating \/ handle_get_proxy
           \/ \E a \in Addr : add(a) \/ remove(a)
           \/ \E s \in Scheme, R \in Regions : try_get(s, R)
  BY <1>1, <1>9 DEF Importing, Import, ImportNotify, SourceEnd, Gating, GateArm, GateLen,
     GateExhausted, GateWake, handle_get_proxy, add, remove, try_get
<1>10. CASE UNCHANGED vars
  BY <1>1, <1>10 DEF vars
<1> QED
  BY <1>2, <1>4, <1>5, <1>6, <1>7, <1>8, <1>9, <1>10 DEF Next, Getting

\* Every strategy picks from the tier: a benched entry only if all are.
LEMMA BestForTier ==
  ASSUME NEW pool, NEW s, NEW pin, NEW cursor, NEW t,
         NEW i \in best_for(pool, Strategy, s, pin, cursor, t)
  PROVE  i \in tier(pool, s, t)
<1> DEFINE T == tier(pool, s, t)
<1>1. connect_biased(pool, T) \subseteq T
  BY DEF connect_biased
<1>2. best_by_priority(pool, T) \subseteq T
  BY DEF best_by_priority
<1>3. \A S, k : nth(S, k) \subseteq S
  BY DEF nth
<1> HIDE DEF T
<1>4. CASE Strategy = "Best"
  BY <1>2, <1>4 DEF best_for, T
<1>5. CASE Strategy = "RoundRobin"
  BY <1>1, <1>3, <1>5 DEF best_for, T
<1>6. CASE Strategy = "Random"
  BY <1>1, <1>6 DEF best_for, T
<1>7. CASE Strategy = "Sticky"
  BY <1>2, <1>3, <1>7 DEF best_for, T
<1> QED
  BY <1>4, <1>5, <1>6, <1>7, PoolAssumption DEF Strategies

\* Only its own Select gives a proxy to a caller that is about to select.
LEMMA SelectTakes ==
  ASSUME TypeInv, Next, NEW c \in Caller, pc[c] = "select", lease'[c] # lease[c]
  PROVE  Select(c)
<1> USE DEF TypeInv, poolVars, envVars
<1>0. c \in Holder /\ c # Mcp /\ lease \in [Holder -> Proxies \cup {NoProxy}]
  BY PoolAssumption DEF Holder, TypeOK
<1>1. ASSUME lease' = lease PROVE FALSE
  BY <1>1
<1>2. ASSUME NEW h \in Holder \ {c}, NEW p, lease' = [lease EXCEPT ![h] = p] PROVE FALSE
  BY <1>0, <1>2
<1>3. CASE \/ Tick \/ Importing \/ Gating \/ \E a \in Addr : add(a) \/ remove(a)
  BY <1>1, <1>3 DEF Tick, Importing, Import, ImportNotify, SourceEnd, Gating, GateArm,
     GateLen, GateExhausted, GateWake, add, remove
<1>4. CASE (\E s \in Scheme, R \in Regions : try_get(s, R)) \/ handle_get_proxy
  <2>1. \E p : lease' = [lease EXCEPT ![Mcp] = p]
    BY <1>4 DEF try_get, handle_get_proxy
  <2> QED
    BY <1>0, <1>2, <2>1 DEF Holder
<1>5. ASSUME NEW d \in Caller,
             Select(d) \/ VerifyDead(d) \/ Use(d) \/ Abandon(d)
      PROVE  Select(c)
  <2>1. \E p : lease' = [lease EXCEPT ![d] = p]
    BY <1>5 DEF Select, VerifyDead, Use, UseOk, UseFailed, UseUntouched, put_ok,
       put_failed, put_inner, Abandon
  <2>2. d = c
    BY <1>2, <2>1 DEF Holder
  <2> QED
    BY <1>5, <2>2 DEF VerifyDead, Use, UseOk, UseFailed, UseUntouched, Abandon
<1>6. ASSUME NEW d \in Caller,
             \/ (\E s \in Scheme : get(d, s)) \/ Arm(d) \/ ReadPin(d) \/ ReadClock(d)
             \/ SelectNone(d) \/ Record(d) \/ CheckExhausted(d) \/ Wake(d)
             \/ VerifyLive(d) \/ ReturnNone(d) \/ PutNotify(d)
      PROVE  FALSE
  BY <1>1, <1>6 DEF get, Arm, ReadPin, ReadClock, SelectNone, Record, CheckExhausted,
     Wake, VerifyLive, ReturnNone, PutNotify
<1> QED
  BY <1>3, <1>4, <1>5, <1>6 DEF Next, Getting

(***************************************************************************)
(* Under every strategy and with any number of callers racing the clock, a *)
(* proxy that is still benched is checked out only when, at the time the   *)
(* caller read, every proxy for its scheme was benched.                    *)
(***************************************************************************)
THEOREM PoolBenchedIsLastResort == Spec => BenchedIsLastResort
<1> DEFINE Rests ==
      \A c \in Caller :
        LET benched == \A i \in DOMAIN state :
                         state[i].p = lease'[c] => state[i].until > now
        IN  pc[c] = "select" /\ lease'[c] # lease[c] /\ benched =>
              \A i \in EligibleIdx(state, req[c].scheme) :
                state[i].until > req[c].t
<1>1. TypeInv /\ ClockInv /\ [Next]_vars => [Rests]_vars
  <2> SUFFICES ASSUME TypeInv, ClockInv, Next, NEW c \in Caller,
                      pc[c] = "select", lease'[c] # lease[c],
                      \A i \in DOMAIN state :
                        state[i].p = lease'[c] => state[i].until > now,
                      NEW j \in EligibleIdx(state, req[c].scheme)
               PROVE  state[j].until > req[c].t
    OBVIOUS
  <2>1. Select(c)
    BY SelectTakes
  <2>2. PICK i \in Picks(c) : lease' = [lease EXCEPT ![c] = state[i].p]
    BY <2>1 DEF Select
  <2>3. lease'[c] = state[i].p
    BY <2>2 DEF TypeInv, TypeOK, Holder
  <2>4. i \in tier(state, req[c].scheme, req[c].t) /\ i \in DOMAIN state
    BY <2>2, BestForTier, BestForEligible DEF Picks, EligibleIdx
  <2>5. j \in DOMAIN state
    BY DEF EligibleIdx
  <2>6. /\ state[i].until \in Nat /\ state[j].until \in Nat
        /\ now \in Nat /\ req[c].t \in Nat /\ req[c].t <= now
    BY <2>4, <2>5, EntryType DEF TypeInv, TypeOK, Requests, ClockInv
  <2>7. state[i].until > now
    BY <2>3, <2>4
  <2>8. ~(state[i].until <= req[c].t)
    BY <2>6, <2>7
  <2>9. {k \in EligibleIdx(state, req[c].scheme) : state[k].until <= req[c].t} = {}
    BY <2>4, <2>8 DEF tier
  <2> QED
    BY <2>6, <2>9
<1>2. Init => ClockInv
  BY DEF Init, ClockInv, Request
<1> QED
  BY <1>1, <1>2, ClockNext, TypeInvInit, TypeInvNext, PTL DEF Spec, BenchedIsLastResort

-----------------------------------------------------------------------------
(* The refinement of module Lease.                                         *)

\* Who owns an item, read off the four places it can be in.
OwnerTold ==
  \A a \in Item : ExclusiveFor(a) =>
    /\ a \in source => Owner(a) = "source"
    /\ a \in PooledItems => Owner(a) = "pool"
    /\ \A h \in Holders(a) : Owner(a) = h
    /\ a \notin source \cup PooledItems /\ Holders(a) = {} => Owner(a) = "gone"

LEMMA OwnerNow == OwnerTold
<1> SUFFICES ASSUME NEW a \in Item, ExclusiveFor(a)
             PROVE  /\ a \in source => Owner(a) = "source"
                    /\ a \in PooledItems => Owner(a) = "pool"
                    /\ \A h \in Holders(a) : Owner(a) = h
                    /\ a \notin source \cup PooledItems /\ Holders(a) = {} =>
                         Owner(a) = "gone"
  BY DEF OwnerTold
<1>1. CASE a \in source
  BY <1>1 DEF Owner, ExclusiveFor
<1>2. CASE a \in PooledItems
  BY <1>2 DEF Owner, ExclusiveFor
<1>3. ASSUME NEW h \in Holders(a) PROVE Owner(a) = h /\ a \notin source \cup PooledItems
  <2>1. a \notin source \cup PooledItems /\ Holders(a) # {}
    BY <1>3 DEF ExclusiveFor
  <2>2. Owner(a) = CHOOSE g \in Holder : g \in Holders(a)
    BY <2>1 DEF Owner
  <2>3. h \in Holder
    BY <1>3 DEF Holders
  <2>4. (CHOOSE g \in Holder : g \in Holders(a)) \in Holders(a)
    BY <1>3, <2>3
  <2> QED
    BY <1>3, <2>1, <2>2, <2>4 DEF ExclusiveFor
<1>4. CASE a \notin source \cup PooledItems /\ Holders(a) = {}
  BY <1>4 DEF Owner
<1> QED
  BY <1>1, <1>2, <1>3, <1>4

LEMMA OwnerNext == OwnerTold'
BY OwnerNow, PTL

\* b stays where it is.
SamePlace(b) ==
  /\ b \in source' <=> b \in source
  /\ b \in PooledItems' <=> b \in PooledItems
  /\ Holders(b)' = Holders(b)

\* What stays where it is keeps its owner.
LEMMA SameOwner ==
  ASSUME Exclusive, Exclusive', NEW b \in Item, SamePlace(b)
  PROVE  Owner(b)' = Owner(b)
<1>1. ExclusiveFor(b) /\ ExclusiveFor(b)'
  BY DEF Exclusive
<1>2. CASE Holders(b) = {}
  BY <1>1, <1>2, OwnerNow, OwnerNext DEF OwnerTold, SamePlace
<1>3. CASE Holders(b) # {}
  <2>1. PICK h : h \in Holders(b) /\ h \in Holders(b)'
    BY <1>3 DEF SamePlace
  <2> QED
    BY <1>1, <2>1, OwnerNow, OwnerNext DEF OwnerTold
<1> QED
  BY <1>2, <1>3

\* If one item moves, from one owner to another, that is a Give.
LEMMA OneMoves ==
  ASSUME Exclusive, Exclusive', NEW a \in Item, NEW from, NEW to,
         \A b \in Item \ {a} : SamePlace(b),
         Owner(a) = from, Owner(a)' = to
  PROVE  Ownership!Give(a, from, to)
<1>1. \A b \in Item \ {a} : Owner(b)' = Owner(b)
  BY SameOwner
<1>2. [x \in Item |-> Owner(x)]' = [[x \in Item |-> Owner(x)] EXCEPT ![a] = to]
  BY <1>1
<1> QED
  BY <1>2 DEF Ownership!Give

LEMMA NoneMoves ==
  ASSUME Exclusive, Exclusive', \A b \in Item : SamePlace(b)
  PROVE  UNCHANGED [x \in Item |-> Owner(x)]
<1>1. \A b \in Item : Owner(b)' = Owner(b)
  BY SameOwner
<1> QED
  BY <1>1

\* A holder that holds nothing owns nothing.
LEMMA EmptyHands ==
  ASSUME TypeOK, Exclusive, NEW h \in Holder, lease[h] = NoProxy, NEW b \in Item
  PROVE  Owner(b) # h
<1>1. h \notin {"source", "pool", "gone"} /\ h \notin Holders(b) /\ ExclusiveFor(b)
  BY PoolAssumption DEF Holder, Holders, Exclusive
<1>2. \/ b \in source \/ b \in PooledItems \/ (\E g : g \in Holders(b))
      \/ b \notin source \cup PooledItems /\ Holders(b) = {}
  OBVIOUS
<1> QED
  BY <1>1, <1>2, OwnerNow DEF OwnerTold

LEMMA LeaseStep ==
  ASSUME TypeInv, Exclusive, Exclusive', [Next]_vars
  PROVE  [Ownership!Next]_[x \in Item |-> Owner(x)]
<1>0. /\ state \in Seq(Entries) /\ lease \in [Holder -> Proxies \cup {NoProxy}]
      /\ TypeOK
  BY DEF TypeInv, TypeOK
<1>1. \A a \in Item : ExclusiveFor(a) /\ ExclusiveFor(a)'
  BY DEF Exclusive
<1>2. CASE Stays
  BY <1>2, SamePlaces, NoneMoves DEF SamePlace
<1>3. ASSUME NEW a \in Item, Import(a) PROVE Ownership!Next
  <2>1. /\ a \in source /\ source' = source \ {a} /\ \A b : Holders(b)' = Holders(b)
    BY <1>3 DEF Import, Holders
  <2>2. Owner(a) = "source" /\ a \notin PooledItems /\ Holders(a) = {}
    BY <1>1, <2>1, OwnerNow DEF OwnerTold, ExclusiveFor
  <2>3. CASE a \in CountryOk
    <3>1. /\ Arrival(a) \in Entries /\ Arrival(a).p.item = a
          /\ state' = Append(state, Arrival(a))
      BY <1>3, <2>3, ArrivalType DEF Import
    <3>2. PooledItems' = PooledItems \cup {a}
      BY <1>0, <3>1, PushPlaces
    <3>3. Owner(a)' = "pool"
      BY <1>1, <3>2, OwnerNext DEF OwnerTold
    <3>4. Ownership!Give(a, "source", "pool")
      BY <2>1, <2>2, <3>2, <3>3, OneMoves DEF SamePlace
    <3> QED
      BY <3>4 DEF Ownership!Next, Ownership!Deliver
  <2>4. CASE a \notin CountryOk
    <3>1. PooledItems' = PooledItems
      BY <1>3, <2>4 DEF Import, PooledItems
    <3>2. a \notin source' \cup PooledItems' /\ Holders(a)' = {}
      BY <2>1, <2>2, <3>1
    <3>3. Owner(a)' = "gone"
      BY <1>1, <3>2, OwnerNext DEF OwnerTold
    <3>4. Ownership!Give(a, "source", "gone")
      BY <2>1, <2>2, <3>1, <3>3, OneMoves DEF SamePlace
    <3> QED
      BY <3>4 DEF Ownership!Next, Ownership!Deliver
  <2> QED
    BY <2>3, <2>4
<1>4. ASSUME NEW a \in Addr, add(a) PROVE UNCHANGED [x \in Item |-> Owner(x)]
  <2>1. /\ Entry(Checked(a, NoItem), 0) \in Entries
        /\ Entry(Checked(a, NoItem), 0).p.item = NoItem
    BY CheckedType DEF Entry, Entries
  <2>2. PooledItems' = PooledItems \cup {NoItem}
    BY <1>0, <1>4, <2>1, PushPlaces DEF add
  <2>3. source' = source /\ \A b : Holders(b)' = Holders(b)
    BY <1>4 DEF add, Holders, envVars
  <2> QED
    BY <2>2, <2>3, NoneMoves, SelectionAssumption DEF SamePlace
<1>5. ASSUME NEW a \in Addr, remove(a) PROVE Ownership!Next
  <2>1. source' = source /\ \A b : Holders(b)' = Holders(b)
    BY <1>5 DEF remove, Holders, envVars
  <2> DEFINE K == {i \in DOMAIN state : state[i].p.addr # a}
             S == {x \in Item : x \in PooledItems /\ x \notin PooledItems'}
  <2>2. K \subseteq DOMAIN state /\ Retain(K)
    BY <1>5 DEF remove
  <2>3. PooledItems' = {state[j].p.item : j \in K}
    BY <1>0, <2>2, RetainPlaces
  <2>4. PooledItems' \subseteq PooledItems
    BY <2>3 DEF PooledItems
  <2>5. ASSUME NEW x \in S PROVE Owner(x) = "pool" /\ Owner(x)' = "gone"
    <3>1. x \in Item /\ x \in PooledItems /\ x \notin PooledItems'
      OBVIOUS
    <3>2. x \notin source' \cup PooledItems' /\ Holders(x)' = {}
      BY <1>1, <2>1, <3>1 DEF ExclusiveFor
    <3> QED
      BY <1>1, <3>1, <3>2, OwnerNow, OwnerNext DEF OwnerTold
  <2>6. ASSUME NEW x \in Item \ S PROVE Owner(x)' = Owner(x)
    BY <2>1, <2>4, <2>6, SameOwner DEF SamePlace
  <2> HIDE DEF S
  <2>7. S \subseteq Item
    BY DEF S
  <2>8. [x \in Item |-> Owner(x)]' =
          [y \in Item |-> IF y \in S THEN "gone" ELSE [x \in Item |-> Owner(x)][y]]
    BY <2>5, <2>6
  <2>9. \A y \in S : [x \in Item |-> Owner(x)][y] = "pool"
    BY <2>5, <2>7
  <2>10. Ownership!Discard(S)
    BY <2>8, <2>9 DEF Ownership!Discard
  <2> QED
    BY <2>7, <2>10 DEF Ownership!Next
<1>6. ASSUME NEW h \in Holder, NEW i \in DOMAIN state, Takes(h, i)
      PROVE  [Ownership!Next]_[x \in Item |-> Owner(x)]
  <2>0. PICK a : a = state[i].p.item
    OBVIOUS
  <2>1. /\ state[i].p \in Proxies /\ state[i].p # NoProxy /\ a \in Item \cup {NoItem}
        /\ a \in PooledItems /\ source' = source
    BY <1>0, <1>6, <2>0, EntryType, PoolAssumption DEF Takes, PooledItems
  <2>2. \A b : b # a => (b \in PooledItems' <=> b \in PooledItems)
    <3>1. CASE state' = swap_remove(state, i)
      BY <1>0, <2>0, <3>1, SwapRemovePlaces
    <3>2. CASE Retain(DOMAIN state \ {i})
      <4>1. PooledItems' = {state[j].p.item : j \in DOMAIN state \ {i}}
        BY <1>0, <3>2, RetainPlaces
      <4> QED
        BY <2>0, <4>1 DEF PooledItems
    <3> QED
      BY <1>6, <3>1, <3>2 DEF Takes
  <2>3. \A b, g : g \in Holders(b)' <=> IF g = h THEN b = a ELSE g \in Holders(b)
    BY <1>0, <1>6, <2>0, <2>1, LeasePlaces DEF Takes
  <2>4. \A b : h \notin Holders(b)
    BY <1>6 DEF Takes, Holders
  <2>5. \A b \in Item \ {a} : SamePlace(b)
    BY <2>1, <2>2, <2>3, <2>4 DEF SamePlace
  <2>6. CASE a \in Item
    <3>1. Owner(a) = "pool"
      BY <1>1, <2>1, <2>6, OwnerNow DEF OwnerTold
    <3>2. Owner(a)' = h
      BY <1>1, <2>1, <2>3, <2>6, OwnerNext DEF OwnerTold
    <3>3. Ownership!Give(a, "pool", h)
      BY <2>5, <2>6, <3>1, <3>2, OneMoves
    <3>4. \A b \in Item : Owner(b) # h
      BY <1>0, <1>6, EmptyHands DEF Takes
    <3>5. Ownership!CheckOut(h, a)
      BY <3>3, <3>4 DEF Ownership!CheckOut
    <3> QED
      BY <2>6, <3>5 DEF Ownership!Next
  <2>7. CASE a \notin Item
    <3>1. \A b \in Item : SamePlace(b)
      BY <2>5, <2>7
    <3> QED
      BY <3>1, NoneMoves
  <2> QED
    BY <2>6, <2>7
<1>7. ASSUME NEW h \in Holder, lease[h] # NoProxy, lease[h].item \in Item
      PROVE  /\ h \in Holders(lease[h].item)
             /\ Owner(lease[h].item) = h
             /\ Holders(lease[h].item) = {h}
             /\ lease[h].item \notin source \cup PooledItems
  <2>1. h \in Holders(lease[h].item)
    BY <1>7 DEF Holders
  <2> QED
    BY <1>1, <1>7, <2>1, OwnerNow DEF OwnerTold, ExclusiveFor
<1>8. ASSUME NEW h \in Holder, lease[h] # NoProxy, lease' = [lease EXCEPT ![h] = NoProxy]
      PROVE  \A b, g : g \in Holders(b)' <=> g # h /\ g \in Holders(b)
  BY <1>0, <1>8, LeasePlaces
<1>9. ASSUME NEW h \in Holder, NEW e \in Entries, GivesBack(h, e)
      PROVE  [Ownership!Next]_[x \in Item |-> Owner(x)]
  <2>0. PICK a : a = lease[h].item
    OBVIOUS
  <2>1. /\ \A b, g : g \in Holders(b)' <=> g # h /\ g \in Holders(b)
        /\ source' = source /\ e.p.item = a
    BY <1>8, <1>9, <2>0 DEF GivesBack
  <2>2. PooledItems' = PooledItems \cup {a}
    BY <1>0, <1>9, <2>1, PushPlaces DEF GivesBack
  <2>3. \A b : b # a => h \notin Holders(b)
    BY <2>0 DEF Holders
  <2>4. \A b \in Item \ {a} : SamePlace(b)
    BY <2>1, <2>2, <2>3 DEF SamePlace
  <2>5. CASE a \in Item
    <3>1. Owner(a) = h
      BY <1>7, <1>9, <2>0, <2>5 DEF GivesBack
    <3>2. Owner(a)' = "pool"
      BY <1>1, <2>2, <2>5, OwnerNext DEF OwnerTold
    <3>3. Ownership!Give(a, h, "pool")
      BY <2>4, <2>5, <3>1, <3>2, OneMoves
    <3> QED
      BY <2>5, <3>3 DEF Ownership!Next, Ownership!Return
  <2>6. CASE a \notin Item
    <3>1. \A b \in Item : SamePlace(b)
      BY <2>4, <2>6
    <3> QED
      BY <3>1, NoneMoves
  <2> QED
    BY <2>5, <2>6
<1>10. ASSUME NEW h \in Holder, Loses(h)
       PROVE  [Ownership!Next]_[x \in Item |-> Owner(x)]
  <2>0. PICK a : a = lease[h].item
    OBVIOUS
  <2>1. \A b, g : g \in Holders(b)' <=> g # h /\ g \in Holders(b)
    BY <1>8, <1>10 DEF Loses
  <2>2. source' = source /\ PooledItems' = PooledItems
    BY <1>10 DEF Loses, PooledItems
  <2>3. \A b : b # a => h \notin Holders(b)
    BY <2>0 DEF Holders
  <2>4. \A b \in Item \ {a} : SamePlace(b)
    BY <2>1, <2>2, <2>3 DEF SamePlace
  <2>5. CASE a \in Item
    <3>1. /\ Owner(a) = h /\ Holders(a) = {h} /\ a \notin source \cup PooledItems
      BY <1>7, <1>10, <2>0, <2>5 DEF Loses
    <3>2. a \notin source' \cup PooledItems' /\ Holders(a)' = {}
      BY <2>1, <2>2, <3>1
    <3>3. Owner(a)' = "gone"
      BY <1>1, <2>5, <3>2, OwnerNext DEF OwnerTold
    <3>4. Ownership!Give(a, h, "gone")
      BY <2>4, <2>5, <3>1, <3>3, OneMoves
    <3> QED
      BY <2>5, <3>4 DEF Ownership!Next, Ownership!Return
  <2>6. CASE a \notin Item
    <3>1. \A b \in Item : SamePlace(b)
      BY <2>4, <2>6
    <3> QED
      BY <3>1, NoneMoves
  <2> QED
    BY <2>5, <2>6
<1> QED
  BY <1>2, <1>3, <1>4, <1>5, <1>6, <1>9, <1>10, NextMoved DEF Moved

(***************************************************************************)
(* The pool implements module Lease, whatever tasks add to it and remove   *)
(* from it: each delivered proxy has one owner, and goes from the source   *)
(* to the pool, from there to a caller with empty hands, and back or away, *)
(* in every interleaving.                                                  *)
(***************************************************************************)
THEOREM PoolImplementsLease == Spec => ImplementsLease
<1>1. Init => Ownership!Init
  <2> SUFFICES ASSUME Init, NEW a \in Item PROVE Owner(a) \in {"source", "pool", "gone"}
    BY DEF Ownership!Init
  <2>1. Holders(a) = {}
    BY DEF Init, Holders
  <2> QED
    BY <2>1 DEF Owner
<1>2. TypeInv /\ Exclusive /\ Exclusive' /\ [Next]_vars
        => [Ownership!Next]_[x \in Item |-> Owner(x)]
  BY LeaseStep
<1>3. Spec => [][Ownership!Next]_[x \in Item |-> Owner(x)]
  BY <1>2, PoolExclusive, TypeInvInit, TypeInvNext, PTL DEF Spec
<1>4. Spec => Ownership!Init
  BY <1>1 DEF Spec
<1> QED
  BY <1>3, <1>4, PTL DEF ImplementsLease, Ownership!Spec
=============================================================================
