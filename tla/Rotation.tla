------------------------------ MODULE Rotation ------------------------------
(***************************************************************************)
(* One caller drawing from a round-robin pool again and again, every       *)
(* request served: which proxies does it visit?                            *)
(***************************************************************************)
EXTENDS Pool

\* A pool from given proxies that all serve the caller's scheme, drawn from in
\* turn by a single task.
ASSUME RotationAssumption ==
  /\ Strategy = "RoundRobin"
  /\ ~PreferConnect /\ ~VerifyOnLease /\ ~Spawned
  /\ \E c \in Caller : Caller = {c}
  /\ \A x \in CountryOk : "http" \in schemes(AddrOf[x])

VARIABLE picked  \* history: the items drawn so far

RotInit == Init /\ picked = << >>

\* Sequential get and put_ok calls of one caller.
RotNext ==
  \E c \in Caller :
    /\ \/ get(c, "http")
       \/ Getting(c) \/ PutNotify(c) \/ UseOk(c)
    /\ picked' = IF Len(state') < Len(state)
                 THEN Append(picked, lease'[c].item) ELSE picked

RotSpec == RotInit /\ [][RotNext]_<<vars, picked>>

\* The proxies in rotation.
Size == Cardinality(CountryOk)

\* The items among the last n draws.
Recent(n) == {picked[i] : i \in (Len(picked) - n + 1)..Len(picked)}

(***************************************************************************)
(* RoundRobin starves nobody.  swap_remove and the push of put_ok permute  *)
(* the pool under the cursor, and still any N + 1 consecutive draws from N *)
(* ready proxies visit every one of them, as long as none was evicted.     *)
(***************************************************************************)
RotationCoversPool ==
  evictions = 0 /\ Len(picked) > Size => Recent(Size + 1) = CountryOk
=============================================================================
