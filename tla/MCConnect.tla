----------------------------- MODULE MCConnect ------------------------------
(***************************************************************************)
(* One connect future of the connector over the pool itself: which proxies *)
(* does its retry loop try for an https URI?                               *)
(***************************************************************************)
EXTENDS Pool

CONSTANTS a1, a2, x1, x2, k1, c1, ConnTries

VARIABLE tried  \* history: the addresses checked out so far

ConnAddrOf == [x \in Item |-> IF x = x1 THEN a1 ELSE a2]

\* a1 answers faster, but has no raw tunnel for https.
ConnTypes == [a \in Addr |-> IF a = a1 THEN {"Http", "Https"} ELSE {"Socks5"}]

ConnEwma == [a \in Addr |-> 100]

ConnStats ==
  [a \in Addr |-> [reqs |-> 1, errs |-> 0,
                   rsum |-> IF a = a1 THEN 20 ELSE 90, rn |-> 1]]

ConnKeyOf == [c \in Caller |-> k1]

ConnInit == Init /\ tried = << >>

Usable(a) == tunnel_proto(a, "https") # NoTunnel

\* The loop ends with a proxy that has a tunnel, or with the last try.
Looping == Len(tried) < ConnTries /\ \A i \in DOMAIN tried : ~Usable(tried[i])

ConnNext ==
  \E c \in Caller :
    /\ \/ Looping /\ get(c, "https")
       \/ Getting(c) \/ PutNotify(c)
       \/ lease[c] # NoProxy /\ ~Usable(lease[c].addr) /\ UseUntouched(c)
       \/ lease[c] # NoProxy /\ Usable(lease[c].addr) /\ (UseOk(c) \/ UseFailed(c))
    /\ tried' = IF Len(state') < Len(state)
                THEN Append(tried, lease'[c].addr) ELSE tried

ConnSpec == ConnInit /\ [][ConnNext]_<<vars, tried>>

(***************************************************************************)
(* What connect says of a proxy without a raw tunnel: it is returned, "and *)
(* try another proxy".  With two proxies in the pool the next one checked  *)
(* out is the other.                                                       *)
(***************************************************************************)
TriesAnother == \A i \in 2..Len(tried) : tried[i] # tried[i - 1]
=============================================================================
