------------------------------ MODULE LivePool ------------------------------
(***************************************************************************)
(* The pool as the tasks that maintain it see it: how many entries each     *)
(* address has, and which of them are out on lease.  Entries matter because *)
(* add looks only at the pooled ones, so an address may have two.           *)
(***************************************************************************)
EXTENDS Integers, FiniteSets

CONSTANTS
  Addr,      \* the addresses in play
  Leasable   \* those a caller draws

VARIABLES
  pooled,    \* pooled[a]: entries of a in the pool
  leased     \* leased[a]: entries of a out with a caller

poolVars == <<pooled, leased>>

ASSUME AddrAssumption == IsFiniteSet(Addr) /\ Leasable \subseteq Addr

\* What addrs() shows: a proxy on lease is not among them.
addrs == {a \in Addr : pooled[a] > 0}

\* No effect when the address is pooled already.
add(a) == pooled' = [pooled EXCEPT ![a] = IF @ > 0 THEN @ ELSE 1]

\* Every entry of the address goes; one that is on lease is not found.
remove(a) == pooled' = [pooled EXCEPT ![a] = 0]

\* One caller at a time draws an entry ...
Lease(a) ==
  /\ a \in Leasable
  /\ \A b \in Addr : leased[b] = 0
  /\ pooled[a] > 0
  /\ pooled' = [pooled EXCEPT ![a] = @ - 1]
  /\ leased' = [leased EXCEPT ![a] = 1]

\* ... and puts it back, whatever happened to the address meanwhile,
\* unless its statistics evict it.
Put(a) ==
  /\ leased[a] > 0
  /\ \E back \in 0..1 : pooled' = [pooled EXCEPT ![a] = @ + back]
  /\ leased' = [leased EXCEPT ![a] = 0]
=============================================================================
