------------------------------- MODULE Lease -------------------------------
(***************************************************************************)
(* What a pool of exclusive check-outs promises, without saying how.  Each *)
(* proxy has one owner at a time: the stream that will deliver it, the     *)
(* pool, the caller it is leased to, or nobody once it has been dropped.   *)
(***************************************************************************)
CONSTANTS Item, Caller

VARIABLE owner

Owners == {"source", "pool", "gone"} \cup Caller

\* The pool starts from a stream or from a list of proxies.
Init == owner \in [Item -> {"source", "pool", "gone"}]

Give(x, from, to) ==
  /\ owner[x] = from
  /\ owner' = [owner EXCEPT ![x] = to]

\* The stream delivers x, which is admitted or screened out.
Deliver(x) == Give(x, "source", "pool") \/ Give(x, "source", "gone")

\* A caller without a lease takes x.
CheckOut(c, x) ==
  /\ \A y \in Item : owner[y] # c
  /\ Give(x, "pool", c)

\* The holder of x gives it up, or it is evicted on the way back.
Return(c, x) == Give(x, c, "pool") \/ Give(x, c, "gone")

\* Some pooled proxies, those of one address, are removed together.
Discard(S) ==
  /\ \A x \in S : owner[x] = "pool"
  /\ owner' = [x \in Item |-> IF x \in S THEN "gone" ELSE owner[x]]

Next ==
  \/ \E x \in Item :
       Deliver(x) \/ \E c \in Caller : CheckOut(c, x) \/ Return(c, x)
  \/ \E S \in SUBSET Item : Discard(S)

Spec == Init /\ [][Next]_owner
=============================================================================
