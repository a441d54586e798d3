---------------------------- MODULE ProxyStream ----------------------------
(***************************************************************************)
(* What a stream of checked proxies promises its consumer, without saying  *)
(* how the checks run: each item is a candidate worth emitting, none comes *)
(* twice (nor its address, where repeats are dropped), at most Limit items *)
(* come, and after the end none comes.                                     *)
(***************************************************************************)
EXTENDS Naturals, Sequences

CONSTANTS Cand, AddrOf, Dedup, Limit, Unlimited

VARIABLES wanted, out, ended

Init == wanted \subseteq Cand /\ out = << >> /\ ended = FALSE

Emit(p) ==
  /\ ~ended
  /\ p \in wanted
  /\ \A i \in DOMAIN out : /\ out[i] # p
                          /\ Dedup => AddrOf[out[i]] # AddrOf[p]
  /\ Limit = Unlimited \/ Len(out) < Limit
  /\ out' = Append(out, p)
  /\ UNCHANGED <<wanted, ended>>

End ==
  /\ ~ended
  /\ ended' = TRUE
  /\ UNCHANGED <<wanted, out>>

Next == End \/ \E p \in Cand : Emit(p)

Spec == Init /\ [][Next]_<<wanted, out, ended>>
=============================================================================
