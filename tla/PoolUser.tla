------------------------------ MODULE PoolUser ------------------------------
(***************************************************************************)
(* The pool as the tasks that draw from it see it: the owner of each       *)
(* proxy, as in module Lease, which Pool implements.  How a proxy is       *)
(* picked, waited for, benched and evicted is Pool's business, and so is   *)
(* an address that was delivered twice: here each proxy has its own        *)
(* address, get takes any one that serves the scheme, and a put returns it *)
(* or evicts it.                                                           *)
(***************************************************************************)
EXTENDS Proxy, Sequences, FiniteSets

CONSTANTS
  User,   \* the tasks that lease proxies
  NoAddr  \* no proxy

ASSUME PoolUserAssumption ==
  /\ IsFiniteSet(Addr)
  /\ NoAddr \notin Addr
  /\ User \cap {"source", "pool", "gone"} = {}

VARIABLE owner  \* owner[a]: the stream, the pool, a task, or nobody

PoolType == owner \in [Addr -> User \cup {"source", "pool", "gone"}]

\* A pool behind a stream, or one made of a list.
PoolInit == \E from \in {"source", "pool"} : owner = [a \in Addr |-> from]

\* The stream behind the pool delivers a, admitted or not.
deliver(a) ==
  /\ owner[a] = "source"
  /\ \E to \in {"pool", "gone"} : owner' = [owner EXCEPT ![a] = to]

get(u, s, a) ==
  /\ owner[a] = "pool"
  /\ s \in schemes(a)
  /\ owner' = [owner EXCEPT ![a] = u]

\* put_ok and put_failed: back to the pool, or evicted.
put(a) == \E to \in {"pool", "gone"} : owner' = [owner EXCEPT ![a] = to]

remove(a) ==
  owner' = IF owner[a] = "pool" THEN [owner EXCEPT ![a] = "gone"] ELSE owner

-----------------------------------------------------------------------------
Leases == INSTANCE Lease WITH Item <- Addr, Caller <- User

(***************************************************************************)
(* The users of the pool keep to the lease discipline of module Lease: a   *)
(* task draws only while it holds nothing, and gives back only what it     *)
(* holds.                                                                  *)
(***************************************************************************)
KeepsLeases == Leases!Spec
=============================================================================
