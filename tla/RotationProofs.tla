--------------------------- MODULE RotationProofs ---------------------------
(***************************************************************************)
(* Proof that round-robin draws visit every proxy, for any number of       *)
(* proxies in any order.                                                   *)
(***************************************************************************)
EXTENDS Rotation, PoolProofs

-----------------------------------------------------------------------------
(***************************************************************************)
(* The inductive invariant.  Let n be the number of draws, and k what the  *)
(* cursor n is modulo the number N of proxies: the next draw takes place   *)
(* k + 1.  A draw from there moves the last entry, which is the proxy put  *)
(* back last, into place k + 1, so in every round place j receives the     *)
(* proxy of draw j - 1 of that round, and keeps it until draw j of the     *)
(* next one.  Drawn(j) is the draw that the proxy in place j < N came      *)
(* from, if there was one.                                                 *)
(***************************************************************************)
Turn == Len(picked) % Size

Drawn(j) == Len(picked) - Turn + j - 1 - (IF j <= Turn THEN 0 ELSE Size)

HeldBy(c) == IF pc[c] \in Holding THEN {lease[c].item} ELSE {}

\* All of the rotation is pooled or held, in the places its draws gave it.
PlaceInv(c) ==
  /\ Len(picked) = round_robin + (IF pc[c] = "record" THEN 1 ELSE 0)
  /\ Len(state) = Size - (IF pc[c] \in Holding THEN 1 ELSE 0)
  /\ CountryOk \subseteq PooledItems \cup HeldBy(c)
  /\ \A j \in 1..(Size - 1) : Drawn(j) > 0 => state[j].p.item = picked[Drawn(j)]
  /\ Len(picked) > 0 =>
       picked[Len(picked)] = IF pc[c] \in Holding THEN lease[c].item
                                                  ELSE state[Size].p.item

\* What the caller's locals say, and that no proxy is benched or a stranger.
CallInv(c) ==
  /\ pc[c] # "verify"
  /\ req[c].scheme = "http"
  /\ pc[c] \in {"clock", "select"} => req[c].cursor = round_robin
  /\ HeldBy(c) \subseteq CountryOk

ReadyInv ==
  /\ picked \in Seq(CountryOk)
  /\ \A i \in DOMAIN state : state[i].p.item \in CountryOk /\ state[i].until = 0

RotInv ==
  /\ ReadyInv
  /\ \A c \in Caller : CallInv(c) /\ (evictions = 0 => PlaceInv(c))
-----------------------------------------------------------------------------
(* Arithmetic, and what a draw picks.                                       *)

\* The cursor modulo n goes up by one, or from n - 1 to 0.
LEMMA ModNext ==
  ASSUME NEW m \in Nat, NEW n \in Nat \ {0}
  PROVE  /\ m % n \in 0..(n - 1)
         /\ (m + 1) % n = IF m % n = n - 1 THEN 0 ELSE (m % n) + 1
<1> DEFINE q == m \div n  r == m % n  Q == (m + 1) \div n  R == (m + 1) % n
<1>1. /\ m = n * q + r /\ q \in Int /\ r \in 0..(n - 1)
      /\ m + 1 = n * Q + R /\ Q \in Int /\ R \in 0..(n - 1)
  OBVIOUS
<1> HIDE DEF q, r, Q, R
<1>2. n * (Q - q) = 1 + r - R
  BY <1>1
<1>3. Q - q \in {0, 1}
  <2>1. Q - q <= 1
    BY <1>1, <1>2
  <2>2. Q - q > -1
    BY <1>1, <1>2
  <2> QED
    BY <1>1, <2>1, <2>2
<1>4. R = IF r = n - 1 THEN 0 ELSE r + 1
  BY <1>1, <1>2, <1>3
<1> QED
  BY <1>1, <1>4 DEF r, R

\* The rotation is a finite set with a size.
LEMMA SizeType == IsFiniteSet(CountryOk) /\ Size \in Nat
BY PoolAssumption, FS_Subset, FS_CardinalityType DEF Size

\* In a full pool without benched entries the cursor alone decides.
LEMMA PicksInTurn ==
  ASSUME TypeOK, OriginInv, ReadyInv, NEW c \in Caller, CallInv(c), Len(state) = Size,
         Size > 0
  PROVE  Picks(c) = {(req[c].cursor % Size) + 1}
<1> DEFINE T == tier(state, "http", req[c].t)
           k == req[c].cursor % Size
<1>1. /\ DOMAIN state = 1..Size /\ Size \in Nat \ {0}
      /\ req[c].cursor \in Nat /\ req[c].t \in Nat /\ req[c].scheme = "http"
      /\ k \in 0..(Size - 1)
  <2>1. /\ DOMAIN state = 1..Size /\ Size \in Nat \ {0}
        /\ req[c].cursor \in Nat /\ req[c].t \in Nat /\ req[c].scheme = "http"
    BY SizeType DEF TypeOK, Requests, CallInv
  <2> QED
    BY <2>1, ModNext
<1>2. EligibleIdx(state, "http") = 1..Size
  <2>1. \A i \in 1..Size : state[i].p.item \in CountryOk /\ Known(state[i].p)
    BY <1>1 DEF ReadyInv, OriginInv
  <2>2. \A i \in 1..Size : state[i].p.addr = AddrOf[state[i].p.item]
    BY <2>1, PoolAssumption, SelectionAssumption DEF Known
  <2> QED
    BY <1>1, <2>1, <2>2, RotationAssumption DEF EligibleIdx
<1>3. T = 1..Size
  BY <1>1, <1>2 DEF tier, ReadyInv
<1>4. connect_biased(state, T) = 1..Size
  BY <1>3, RotationAssumption DEF connect_biased
<1>5. \A n \in Nat : Cardinality(1..n) = n
  <2> TAKE n \in Nat
  <2>1. Cardinality(1..n) = IF 1 > n THEN 0 ELSE n - 1 + 1
    BY 1 \in Int, n \in Int, FS_Interval
  <2> QED
    BY <2>1
<1> HIDE DEF k
<1>6. nth(1..Size, k) = {k + 1}
  <2>1. ASSUME NEW i \in 1..Size
        PROVE  Cardinality({j \in 1..Size : j < i}) = i - 1
    <3>1. {j \in 1..Size : j < i} = 1..(i - 1) /\ i - 1 \in Nat
      BY <1>1
    <3> QED
      BY <1>5, <3>1
  <2>2. \A i \in 1..Size : i - 1 = k <=> i = k + 1
    BY <1>1
  <2>3. k + 1 \in 1..Size
    BY <1>1
  <2> QED
    BY <2>1, <2>2, <2>3 DEF nth
<1>7. 1 \in 1..Size
  BY <1>1
<1> HIDE DEF T
<1>8. Picks(c) = nth(connect_biased(state, T), req[c].cursor % Cardinality(connect_biased(state, T)))
  BY <1>1, <1>3, <1>7, RotationAssumption DEF Picks, best_for, T
<1> QED
  BY <1>1, <1>4, <1>5, <1>6, <1>8 DEF k

-----------------------------------------------------------------------------
(* The steps.                                                               *)

\* The history: a draw is the only step that shortens the pool.
Remembers(c) ==
  picked' = IF Len(state') < Len(state) THEN Append(picked, lease'[c].item) ELSE picked

\* After a draw from place k + 1 every place still tells its draw.
LEMMA DrawnNext ==
  ASSUME picked \in Seq(CountryOk), Len(picked') = Len(picked) + 1, Size > 0,
         NEW j \in 1..(Size - 1)
  PROVE  /\ j # Turn + 1 => Drawn(j)' = Drawn(j)
         /\ j = Turn + 1 => Drawn(j)' = Len(picked)
         /\ Drawn(j) \in Int /\ Drawn(j) <= Len(picked)
<1>1. Len(picked) \in Nat /\ Size \in Nat \ {0}
  BY SizeType
<1>2. /\ Turn \in 0..(Size - 1) /\ Size' = Size
      /\ Turn' = IF Turn = Size - 1 THEN 0 ELSE Turn + 1
  BY <1>1, ModNext DEF Turn, Size
<1>3. /\ Drawn(j) = Len(picked) - Turn + j - 1 - (IF j <= Turn THEN 0 ELSE Size)
      /\ Drawn(j)' = Len(picked) + 1 - Turn' + j - 1 - (IF j <= Turn' THEN 0 ELSE Size)
  BY <1>2 DEF Drawn
<1>4. j \in Nat /\ j <= Size - 1 /\ j >= 1 /\ Turn \in Nat /\ Turn <= Size - 1
  BY <1>1, <1>2
<1>5. CASE Turn = Size - 1
  <2>1. Turn' = 0 /\ j <= Turn /\ ~(j <= Turn')
    BY <1>1, <1>2, <1>4, <1>5
  <2> QED
    BY <1>1, <1>3, <1>4, <1>5, <2>1
<1>6. CASE Turn # Size - 1
  <2>1. Turn' = Turn + 1
    BY <1>2, <1>6
  <2> QED
    BY <1>1, <1>3, <1>4, <2>1
<1> QED
  BY <1>5, <1>6

LEMMA SelectTurn ==
  ASSUME TypeInv, OriginInv, RotInv, NEW c \in Caller, Caller = {c}, Select(c),
         Remembers(c)
  PROVE  RotInv'
<1>1. PICK i \in Picks(c) : /\ lease' = [lease EXCEPT ![c] = state[i].p]
                            /\ state' = swap_remove(state, i)
  BY DEF Select
<1>2. /\ pc[c] = "select" /\ pc'[c] = "record" /\ lease'[c] = state[i].p
      /\ req'[c].scheme = "http" /\ req[c].cursor = round_robin
      /\ UNCHANGED <<round_robin, evictions>>
  <2>1. req' = Spent(c) /\ pc[c] = "select" /\ UNCHANGED <<round_robin, evictions>>
    BY DEF Select, Move
  <2>2. req'[c].scheme = "http"
    BY <2>1, SpentType DEF TypeInv, RotInv, CallInv
  <2>3. pc'[c] = "record"
    BY RotationAssumption DEF Select, Move, TypeInv, TypeOK
  <2>4. lease'[c] = state[i].p
    BY <1>1 DEF TypeInv, TypeOK, Holder
  <2> QED
    BY <2>1, <2>2, <2>3, <2>4 DEF RotInv, CallInv
<1>3. /\ state \in Seq(Entries) /\ i \in DOMAIN state /\ DOMAIN state = 1..Len(state)
      /\ Len(state) \in Nat /\ picked \in Seq(CountryOk)
      /\ state[i].p.item \in CountryOk
  BY BestForEligible DEF Picks, EligibleIdx, TypeInv, TypeOK, RotInv, ReadyInv
<1>4. /\ Len(state') = Len(state) - 1 /\ DOMAIN state' = 1..(Len(state) - 1)
      /\ \A k \in 1..(Len(state) - 1) :
           state'[k] = IF k = i THEN state[Len(state)] ELSE state[k]
  BY <1>1, <1>3, SwapRemoveType DEF swap_remove
<1>5. /\ picked' = Append(picked, state[i].p.item) /\ picked' \in Seq(CountryOk)
      /\ Len(picked') = Len(picked) + 1 /\ picked'[Len(picked')] = state[i].p.item
      /\ \A d \in 1..Len(picked) : picked'[d] = picked[d]
      /\ Len(picked) \in Nat
  BY <1>2, <1>3, <1>4 DEF Remembers
<1>6. ReadyInv'
  <2>1. ASSUME NEW k \in DOMAIN state'
        PROVE  state'[k].p.item \in CountryOk /\ state'[k].until = 0
    <3>1. \E l \in DOMAIN state : state'[k] = state[l]
      BY <1>3, <1>4
    <3> QED
      BY <3>1 DEF RotInv, ReadyInv
  <2> QED
    BY <1>5, <2>1 DEF ReadyInv
<1>7. CallInv(c)'
  BY <1>2, <1>3 DEF CallInv, HeldBy
<1>8. ASSUME evictions = 0 PROVE PlaceInv(c)'
  <2>1. /\ Len(picked) = round_robin /\ Len(state) = Size /\ Size \in Nat
        /\ CountryOk \subseteq PooledItems
        /\ \A j \in 1..(Size - 1) : Drawn(j) > 0 => state[j].p.item = picked[Drawn(j)]
        /\ Len(picked) > 0 => picked[Len(picked)] = state[Size].p.item
    <3>1. PlaceInv(c) /\ round_robin \in Nat /\ Size \in Nat
      BY <1>8, SizeType DEF RotInv, TypeInv, TypeOK
    <3> QED
      BY <1>2, <3>1 DEF PlaceInv, HeldBy, Holding
  <2>2. i = Turn + 1 /\ Size > 0
    BY <1>1, <1>2, <1>3, <2>1, PicksInTurn DEF Turn, RotInv, TypeInv
  <2>3. ASSUME NEW j \in 1..(Size - 1), Drawn(j)' > 0
        PROVE  state'[j].p.item = picked'[Drawn(j)']
    <3>1. CASE j = i
      BY <1>4, <1>5, <2>1, <2>2, <2>3, <3>1, DrawnNext, <1>3
    <3>2. CASE j # i
      <4>1. Drawn(j)' = Drawn(j) /\ Drawn(j) \in 1..Len(picked)
        BY <1>3, <1>5, <2>2, <2>3, <3>2, DrawnNext
      <4> QED
        BY <1>4, <1>5, <2>1, <2>3, <3>2, <4>1
    <3> QED
      BY <3>1, <3>2
  <2>4. CountryOk \subseteq PooledItems' \cup {state[i].p.item}
    BY <1>1, <1>3, <2>1, SwapRemovePlaces
  <2>5. Size' = Size
    BY DEF Size
  <2> QED
    BY <1>2, <1>4, <1>5, <2>1, <2>3, <2>4, <2>5 DEF PlaceInv, HeldBy, Holding
<1> QED
  BY <1>2, <1>6, <1>7, <1>8 DEF RotInv

\* The put of a served request brings the proxy to the last place.
LEMMA PutTurn ==
  ASSUME TypeInv, RotInv, NEW c \in Caller, Caller = {c}, UseOk(c), Remembers(c)
  PROVE  RotInv'
<1> DEFINE p == RecordOk(lease[c])
<1>1. /\ pc[c] = "held" /\ put_inner(c, p, 0, "idle") /\ UNCHANGED <<req, round_robin>>
      /\ lease[c] \in Proxies
  BY DEF UseOk, put_ok, put_inner, TypeInv, TypeOK, HoldInv, Holding, Holder
<1>2. p \in Proxies /\ p.item = lease[c].item /\ p.item \in CountryOk
  BY <1>1, RecordType DEF RotInv, CallInv, HeldBy, Holding
<1> HIDE DEF p
<1>3. pc'[c] \in {"idle", "notify"}
  BY <1>1, PutMoves DEF TypeInv
<1>4. /\ state \in Seq(Entries) /\ Len(state) \in Nat /\ picked \in Seq(CountryOk)
      /\ DOMAIN state = 1..Len(state) /\ evictions \in Nat
  BY DEF TypeInv, TypeOK, RotInv, ReadyInv
<1>5. CallInv(c)'
  BY <1>1, <1>3 DEF CallInv, HeldBy, Holding, RotInv
<1>6. CASE unhealthy(p)
  <2>1. state' = state /\ evictions' = evictions + 1 /\ picked' = picked
    BY <1>1, <1>4, <1>6 DEF put_inner, Remembers
  <2> QED
    BY <1>4, <1>5, <2>1 DEF RotInv, ReadyInv
<1>7. CASE ~unhealthy(p)
  <2>1. state' = Append(state, Entry(p, 0)) /\ evictions' = evictions
    BY <1>1, <1>7 DEF put_inner
  <2>2. Entry(p, 0) \in Entries /\ Entry(p, 0).p = p /\ Entry(p, 0).until = 0
    BY <1>2 DEF Entry, Entries
  <2>3. /\ Len(state') = Len(state) + 1 /\ DOMAIN state' = 1..(Len(state) + 1)
        /\ \A k \in 1..Len(state) : state'[k] = state[k]
        /\ state'[Len(state) + 1] = Entry(p, 0)
    BY <1>4, <2>1, <2>2
  <2>4. picked' = picked
    BY <1>4, <2>3 DEF Remembers
  <2>5. ReadyInv'
    BY <1>2, <1>4, <2>2, <2>3, <2>4 DEF RotInv, ReadyInv
  <2>6. ASSUME evictions = 0 PROVE PlaceInv(c)'
    <3>1. PlaceInv(c) /\ round_robin \in Nat /\ Size \in Nat
      BY <2>6, SizeType DEF RotInv, TypeInv, TypeOK
    <3>2. Len(state) = Size - 1 /\ Len(picked) = round_robin
      BY <1>1, <3>1 DEF PlaceInv, Holding
    <3>3. CountryOk \subseteq PooledItems'
      <4>1. PooledItems' = PooledItems \cup {p.item}
        BY <1>4, <2>1, <2>2, PushPlaces
      <4> QED
        BY <1>1, <1>2, <3>1, <4>1 DEF PlaceInv, HeldBy, Holding
    <3>4. Size' = Size /\ \A j \in 1..(Size - 1) : Drawn(j)' = Drawn(j)
      BY <2>4 DEF Size, Drawn, Turn
    <3>5. \A j \in 1..(Size - 1) : Drawn(j) > 0 => state'[j].p.item = picked[Drawn(j)]
      BY <2>3, <3>1, <3>2 DEF PlaceInv
    <3>6. Len(picked) > 0 => picked[Len(picked)] = state'[Size].p.item
      BY <1>1, <1>2, <2>2, <2>3, <3>1, <3>2 DEF PlaceInv, Holding
    <3>7. Len(state') = Size /\ pc'[c] \notin Holding /\ pc'[c] # "record"
      BY <1>3, <2>3, <3>1, <3>2 DEF Holding
    <3> QED
      BY <1>1, <2>4, <3>2, <3>3, <3>4, <3>5, <3>6, <3>7 DEF PlaceInv, HeldBy
  <2> QED
    BY <1>5, <2>1, <2>5, <2>6 DEF RotInv
<1> QED
  BY <1>6, <1>7

\* Any other step leaves the places alone; Record moves the cursor.
LEMMA QuietTurn ==
  ASSUME TypeInv, RotInv, NEW c \in Caller, Caller = {c},
         UNCHANGED <<state, lease, evictions, picked>>,
         pc'[c] \in Holding <=> pc[c] \in Holding,
         pc'[c] # "verify", req'[c].scheme = "http",
         pc'[c] \in {"clock", "select"} => req'[c].cursor = round_robin',
         round_robin' + (IF pc'[c] = "record" THEN 1 ELSE 0)
           = round_robin + (IF pc[c] = "record" THEN 1 ELSE 0)
  PROVE  RotInv'
<1>1. ReadyInv'
  BY DEF RotInv, ReadyInv
<1>2. HeldBy(c)' = HeldBy(c) /\ PooledItems' = PooledItems /\ Size' = Size
  BY DEF HeldBy, PooledItems, Size
<1>3. \A j \in 1..(Size - 1) : Drawn(j)' = Drawn(j)
  BY <1>2 DEF Drawn, Turn
<1>4. CallInv(c)'
  BY <1>2 DEF RotInv, CallInv
<1>5. PlaceInv(c) => PlaceInv(c)'
  BY <1>2, <1>3 DEF PlaceInv
<1> QED
  BY <1>1, <1>4, <1>5 DEF RotInv

LEMMA RotInvNext ==
  TypeInv /\ OriginInv /\ RotInv /\ [RotNext]_<<vars, picked>> => RotInv'
<1> SUFFICES ASSUME TypeInv, OriginInv, RotInv, [RotNext]_<<vars, picked>> PROVE RotInv'
  OBVIOUS
<1> USE DEF TypeInv
<1>1. CASE UNCHANGED <<vars, picked>>
  <2>1. PICK c \in Caller : Caller = {c}
    BY RotationAssumption
  <2> QED
    BY <1>1, <2>1, QuietTurn DEF vars, RotInv, CallInv
<1>2. CASE RotNext
  <2>1. PICK c \in Caller : /\ get(c, "http") \/ Getting(c) \/ PutNotify(c) \/ UseOk(c)
                            /\ Remembers(c)
    BY <1>2 DEF RotNext, Remembers
  <2>2. Caller = {c}
    BY RotationAssumption
  <2>3. /\ CallInv(c) /\ pc \in [Caller -> Pcs] /\ req \in [Caller -> Requests]
        /\ state \in Seq(Entries) /\ round_robin \in Nat
    BY DEF RotInv, TypeOK
  <2>4. state' = state => picked' = picked
    BY <2>1, <2>3 DEF Remembers
  <2>5. CASE get(c, "http") \/ Arm(c)
    <3>1. /\ pc[c] \in {"idle", "arm"} /\ pc'[c] = "pin"
          /\ UNCHANGED <<state, lease, evictions, round_robin>>
      BY <2>3, <2>5, RotationAssumption DEF get, Arm, Move, TrySelect, poolVars
    <3>2. req'[c].scheme = "http"
      BY <2>3, <2>5 DEF get, Arm, Request, CallInv
    <3> QED
      BY <2>2, <2>3, <2>4, <3>1, <3>2, QuietTurn DEF Holding
  <2>6. CASE ReadPin(c)
    <3>1. /\ pc[c] = "pin" /\ pc'[c] = "clock"
          /\ UNCHANGED <<state, lease, evictions, round_robin>>
      BY <2>3, <2>6 DEF ReadPin, Move, poolVars
    <3>2. req' = [req EXCEPT ![c].cursor = round_robin]
      BY <2>6, RotationAssumption DEF ReadPin
    <3>3. req'[c].scheme = "http" /\ req'[c].cursor = round_robin
      BY <2>3, <3>2 DEF CallInv, Requests
    <3> QED
      BY <2>2, <2>3, <2>4, <3>1, <3>3, QuietTurn DEF Holding
  <2>7. CASE ReadClock(c)
    <3>1. /\ pc[c] = "clock" /\ pc'[c] = "select"
          /\ UNCHANGED <<state, lease, evictions, round_robin>>
          /\ req' = [req EXCEPT ![c].t = now]
      BY <2>3, <2>7 DEF ReadClock, Move, poolVars
    <3>2. req'[c].scheme = "http" /\ req'[c].cursor = round_robin
      BY <2>3, <3>1 DEF CallInv, Requests
    <3> QED
      BY <2>2, <2>3, <2>4, <3>1, <3>2, QuietTurn DEF Holding
  <2>8. CASE Select(c)
    BY <2>1, <2>2, <2>8, SelectTurn
  <2>9. CASE SelectNone(c)
    <3>1. /\ pc[c] = "select" /\ pc'[c] \in {"none", "empty"}
          /\ UNCHANGED <<state, lease, evictions, round_robin>>
          /\ req' = Spent(c)
      BY <2>3, <2>9 DEF SelectNone, Move, poolVars
    <3>2. req'[c].scheme = "http"
      BY <2>3, <3>1, SpentType DEF CallInv
    <3> QED
      BY <2>2, <2>3, <2>4, <3>1, <3>2, QuietTurn DEF Holding
  <2>10. CASE Record(c)
    <3>1. /\ pc[c] = "record" /\ pc'[c] = "held" /\ round_robin' = round_robin + 1
          /\ UNCHANGED <<state, lease, evictions, req>>
      BY <2>3, <2>10, RotationAssumption DEF Record, Move, Selected
    <3> QED
      BY <2>2, <2>3, <2>4, <3>1, QuietTurn DEF Holding, CallInv
  <2>11. CASE CheckExhausted(c)
    <3>1. /\ pc[c] = "empty" /\ pc'[c] \in {"pin", "wait"}
          /\ UNCHANGED <<state, lease, evictions, round_robin>>
          /\ req' = [req EXCEPT ![c].last = exhausted]
      BY <2>3, <2>11, RotationAssumption DEF CheckExhausted, Move, TrySelect, poolVars
    <3>2. req'[c].scheme = "http"
      BY <2>3, <3>1 DEF CallInv, Requests
    <3> QED
      BY <2>2, <2>3, <2>4, <3>1, <3>2, QuietTurn DEF Holding
  <2>12. CASE Wake(c)
    <3>1. /\ pc[c] = "wait" /\ pc'[c] = "arm"
          /\ UNCHANGED <<state, lease, evictions, round_robin, req>>
      BY <2>3, <2>12 DEF Wake, Move, poolVars
    <3> QED
      BY <2>2, <2>3, <2>4, <3>1, QuietTurn DEF Holding, CallInv
  <2>13. CASE VerifyLive(c) \/ VerifyDead(c)
    BY <2>3, <2>13 DEF VerifyLive, VerifyDead, Move, CallInv
  <2>14. CASE PutNotify(c)
    <3>1. /\ pc[c] = "notify" /\ pc'[c] \in {"idle", "arm", "none"}
          /\ UNCHANGED <<state, lease, evictions, round_robin, req>>
      BY <2>3, <2>14 DEF PutNotify, TypeOK, poolVars
    <3> QED
      BY <2>2, <2>3, <2>4, <3>1, QuietTurn DEF Holding, CallInv
  <2>15. CASE UseOk(c)
    BY <2>1, <2>2, <2>15, PutTurn
  <2> QED
    BY <2>1, <2>5, <2>6, <2>7, <2>8, <2>9, <2>10, <2>11, <2>12, <2>13, <2>14, <2>15
       DEF Getting
<1> QED
  BY <1>1, <1>2

\* Nothing has been drawn yet, so no place has to tell a draw.
LEMMA RotInvInit == RotInit => RotInv
<1> SUFFICES ASSUME RotInit PROVE RotInv
  OBVIOUS
<1>1. PICK f \in [1..Size -> CountryOk] :
        /\ \A i, j \in DOMAIN f : f[i] = f[j] => i = j
        /\ state = [i \in DOMAIN f |-> Arrival(f[i])]
  BY RotationAssumption DEF RotInit, Init, spawn, from_proxies, Size
<1>2. picked = << >> /\ round_robin = 0 /\ Size \in Nat /\ CountryOk \subseteq Item
  BY SizeType, PoolAssumption DEF RotInit, Init
<1>3. /\ DOMAIN state = 1..Size /\ Len(state) = Size
      /\ \A i \in 1..Size : state[i].p.item = f[i] /\ state[i].until = 0
  BY <1>1, <1>2, ArrivalType
<1>4. CountryOk \subseteq PooledItems
  <2>1. \A a \in CountryOk : \E i \in 1..Size : f[i] = a
    <3>1. f \in Injection(1..Size, CountryOk)
      BY <1>1 DEF Injection, IsInjective
    <3>2. IsFiniteSet(1..Size) /\ Cardinality(1..Size) = Size
      <4>1. /\ IsFiniteSet(1..Size)
            /\ Cardinality(1..Size) = IF 1 > Size THEN 0 ELSE Size - 1 + 1
        BY <1>2, 1 \in Int, Size \in Int, FS_Interval
      <4> QED
        BY <1>2, <4>1
    <3>3. f \in Surjection(1..Size, CountryOk)
      BY <1>1, <3>1, <3>2, SizeType, FS_Injection DEF Size
    <3> QED
      BY <3>3 DEF Surjection
  <2> QED
    BY <1>3, <2>1 DEF PooledItems
<1>5. \A c \in Caller : pc[c] = "idle" /\ req[c].scheme = "http"
  BY DEF RotInit, Init, Request
<1>6. ReadyInv
  BY <1>1, <1>2, <1>3 DEF ReadyInv
<1>7. \A j \in 1..(Size - 1) : ~(Drawn(j) > 0)
  <2> TAKE j \in 1..(Size - 1)
  <2>1. Len(picked) = 0 /\ Turn \in 0..(Size - 1) /\ Size \in Nat \ {0}
    BY <1>2, ModNext DEF Turn
  <2>2. Turn = 0
    BY <2>1 DEF Turn
  <2> QED
    BY <2>1, <2>2 DEF Drawn
<1> QED
  BY <1>2, <1>3, <1>4, <1>5, <1>6, <1>7 DEF RotInv, CallInv, PlaceInv, HeldBy, Holding

(***************************************************************************)
(* However many proxies there are, in whatever order they start: as long   *)
(* as none is evicted, any N + 1 consecutive draws of a round-robin caller *)
(* visit every one of them.                                                *)
(***************************************************************************)
THEOREM RotationVisitsAll == RotSpec => []RotationCoversPool
<1>1. RotInit => TypeInv /\ OriginInv /\ RotInv
  BY TypeInvInit, OriginInit, RotInvInit DEF RotInit
<1>2. TypeInv /\ OriginInv /\ RotInv /\ [RotNext]_<<vars, picked>>
        => (TypeInv /\ OriginInv /\ RotInv)'
  <2>1. [RotNext]_<<vars, picked>> => [Next]_vars
    <3>1. RotNext => Next
      BY DEF RotNext, Next, Use, Scheme
    <3>2. UNCHANGED <<vars, picked>> => UNCHANGED vars
      OBVIOUS
    <3> QED
      BY <3>1, <3>2
  <2> QED
    BY <2>1, TypeInvNext, OriginNext, RotInvNext
<1>3. TypeInv /\ RotInv => RotationCoversPool
  <2> SUFFICES ASSUME TypeInv, RotInv, evictions = 0, Len(picked) > Size
               PROVE  Recent(Size + 1) = CountryOk
    BY DEF RotationCoversPool
  <2> DEFINE n == Len(picked)
  <2>1. PICK c \in Caller : Caller = {c}
    BY RotationAssumption
  <2>2. /\ PlaceInv(c) /\ CallInv(c) /\ picked \in Seq(CountryOk) /\ n \in Nat /\ Size \in Nat
        /\ state \in Seq(Entries) /\ DOMAIN state = 1..Len(state)
    BY SizeType DEF RotInv, ReadyInv, TypeInv, TypeOK
  <2>3. Recent(Size + 1) = {picked[i] : i \in (n - Size)..n}
    <3>1. n - (Size + 1) + 1 = n - Size
      BY <2>2
    <3> QED
      BY <3>1 DEF Recent
  <2>4. Recent(Size + 1) \subseteq CountryOk
    <3>1. \A i \in (n - Size)..n : i \in 1..Len(picked)
      BY <2>2
    <3>2. \A i \in 1..Len(picked) : picked[i] \in CountryOk
      BY <2>2
    <3> QED
      BY <2>3, <3>1, <3>2
  <2>5. ASSUME NEW a \in CountryOk PROVE a \in Recent(Size + 1)
    <3>0. n > 0 /\ n \in (n - Size)..n
      BY <2>2
    <3>1. CASE a \in HeldBy(c)
      <4>1. a = picked[n]
        BY <2>2, <3>0, <3>1 DEF PlaceInv, HeldBy
      <4> QED
        BY <2>3, <3>0, <4>1
    <3>2. CASE a \in PooledItems
      <4>1. PICK j \in DOMAIN state : state[j].p.item = a
        BY <3>2 DEF PooledItems
      <4>2. Len(state) \in {Size - 1, Size} /\ j \in 1..Size
        BY <2>2, <4>1 DEF PlaceInv
      <4>3. CASE j = Size
        BY <2>2, <2>3, <4>1, <4>2, <4>3 DEF PlaceInv
      <4>4. CASE j # Size
        <5>1. Turn \in 0..(Size - 1) /\ Size > 0 /\ j \in 1..(Size - 1)
          <6>0. j >= 1 /\ j <= Size /\ j \in Int /\ Size \in Nat
            BY <4>2, SizeType
          <6>1. Size \in Nat \ {0} /\ Len(picked) \in Nat
            BY <2>2, <6>0
          <6>2. Len(picked) % Size \in 0..(Size - 1)
            BY <6>1, ModNext
          <6> QED
            BY <4>4, <6>0, <6>1, <6>2 DEF Turn
        <5>2. Drawn(j) \in (n - Size)..n /\ Drawn(j) > 0
          BY <2>2, <5>1 DEF Drawn
        <5>3. a = picked[Drawn(j)]
          BY <2>2, <4>1, <5>1, <5>2 DEF PlaceInv
        <5> QED
          BY <2>3, <5>2, <5>3
      <4> QED
        BY <4>3, <4>4
    <3> QED
      BY <2>2, <3>1, <3>2 DEF PlaceInv
  <2> QED
    BY <2>4, <2>5
<1> QED
  BY <1>1, <1>2, <1>3, PTL DEF RotSpec
=============================================================================
