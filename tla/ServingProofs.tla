--------------------------- MODULE ServingProofs ---------------------------
(***************************************************************************)
(* Proofs about the server and the connector over one pool, for every set  *)
(* of clients, dialers, addresses and request targets, every number of     *)
(* tries and every cap of the history.                                     *)
(***************************************************************************)
EXTENDS Serving, FiniteSetTheorems, NaturalsInduction, WellFoundedInduction,
        SequenceTheorems, TLAPS

-----------------------------------------------------------------------------
(* What the operators of the model return.                                 *)

\* A non-empty set of numbers has a least element.
LEMMA LeastNat ==
  ASSUME NEW S \in SUBSET Nat, S # {}
  PROVE  \E m \in S : \A k \in S : m <= k
<1>1. PICK m \in S : \A k \in S : <<k, m>> \notin OpToRel(<, Nat)
  BY WFMin, NatLessThanWellFounded, Zenon
<1>2. ASSUME NEW k \in S, k < m PROVE FALSE
  <2>1. <<k, m>> \in OpToRel(<, Nat)
    BY <1>2, k \in Nat, m \in Nat, Zenon DEF OpToRel
  <2> QED
    BY <1>1, <2>1, Zenon
<1>3. ASSUME NEW k \in S PROVE m <= k
  BY <1>2, k \in Nat, m \in Nat
<1> QED
  BY <1>3

\* The first protocol of a list that a proxy has is one that it has.
LEMMA FirstIn ==
  ASSUME NEW list \in Seq(Proto), NEW a \in Addr, NEW default,
         NEW i \in DOMAIN list, list[i] \in Types[a]
  PROVE  \E j \in DOMAIN list :
           First(list, a, default) = list[j] /\ list[j] \in Types[a]
<1> DEFINE has == {j \in DOMAIN list : list[j] \in Types[a]}
<1>1. has \in SUBSET Nat /\ has # {}
  OBVIOUS
<1>2. \E m \in has : \A k \in has : m <= k
  BY <1>1, LeastNat
<1>3. (CHOOSE m \in has : \A k \in has : m <= k) \in has
  BY <1>2
<1>4. First(list, a, default) = list[CHOOSE m \in has : \A k \in has : m <= k]
  BY <1>1 DEF First
<1> QED
  BY <1>3, <1>4

\* The protocol chosen for a proxy that get returned is one it was checked
\* with.
LEMMA ChooseProtoType ==
  ASSUME NEW a \in Addr, NEW s \in Scheme, s \in schemes(a)
  PROVE  choose_proto(a, s) \in Types[a] /\ choose_proto(a, s) \in Proto
<1>1. Types[a] \subseteq Proto
  BY ProxyAssumption
<1>2. CASE s = "https"
  <2> DEFINE list == <<"Https", "Socks5", "Socks4", "Connect80">>
  <2>1. list \in Seq(Proto) /\ DOMAIN list = 1..4
    BY DEF Proto
  <2>2. \E i \in 1..4 : list[i] \in Types[a]
    BY <1>2 DEF schemes, HTTPS_PROTOS
  <2>3. \E j \in DOMAIN list : choose_proto(a, s) = list[j] /\ list[j] \in Types[a]
    BY <1>2, <2>1, <2>2, FirstIn DEF choose_proto
  <2> QED
    BY <1>1, <2>3
<1>3. CASE s = "http"
  <2> DEFINE list == <<"Http", "Connect80", "Socks5", "Socks4">>
  <2>1. list \in Seq(Proto) /\ DOMAIN list = 1..4
    BY DEF Proto
  <2>2. \E i \in 1..4 : list[i] \in Types[a]
    BY <1>3 DEF schemes, HTTP_PROTOS
  <2>3. \E j \in DOMAIN list : choose_proto(a, s) = list[j] /\ list[j] \in Types[a]
    BY <1>3, <2>1, <2>2, FirstIn DEF choose_proto
  <2> QED
    BY <1>1, <2>3
<1> QED
  BY <1>2, <1>3 DEF Scheme

\* A raw tunnel is one the proxy has, and never one that ends TLS itself.
LEMMA TunnelProtoType ==
  ASSUME NEW a \in Addr, NEW s \in Scheme, tunnel_proto(a, s) # NoTunnel
  PROVE  /\ tunnel_proto(a, s) \in Types[a] \ {"Https", "Connect25"}
         /\ tunnel_proto(a, s) \in Proto
         /\ tunnel_proto(a, s) = "Http" => s = "http"
<1> DEFINE list == IF s = "http" THEN <<"Socks5", "Socks4", "Connect80", "Http">>
                                 ELSE <<"Socks5", "Socks4", "Connect80">>
<1>1. tunnel_proto(a, s) = First(list, a, NoTunnel)
  BY DEF tunnel_proto
<1>2. /\ list \in Seq(Proto)
      /\ \A j \in DOMAIN list : list[j] \in Proto \ {"Https", "Connect25"}
      /\ s # "http" => \A j \in DOMAIN list : list[j] # "Http"
  <2>1. CASE s = "http"
    BY <2>1 DEF Proto
  <2>2. CASE s # "http"
    BY <2>2 DEF Proto
  <2> QED
    BY <2>1, <2>2
<1> HIDE DEF list
<1>3. PICK i \in DOMAIN list : list[i] \in Types[a]
  BY <1>1 DEF First
<1>4. PICK j \in DOMAIN list :
        First(list, a, NoTunnel) = list[j] /\ list[j] \in Types[a]
  BY <1>2, <1>3, FirstIn
<1> QED
  BY <1>1, <1>2, <1>4

-----------------------------------------------------------------------------
(* Who holds what.                                                         *)

(***************************************************************************)
(* A handler holds exactly the proxy it is working with, from Draw to      *)
(* Return, and the protocol it chose is one that proxy was checked with.   *)
(***************************************************************************)
ClientLease(c) ==
  /\ pc[c] \in Relaying =>
       /\ proxy[c] \in Addr /\ owner[proxy[c]] = c
       /\ proto[c] \in Types[proxy[c]]
  /\ pc[c] \notin Relaying => proxy[c] = NoAddr
  /\ \A a \in Addr : owner[a] = c => proxy[c] = a
  /\ pc[c] \in Relaying \cup {"draw"} => req[c].ask.op = "fetch"

\* The same for a connect future, and for the tunnel it handed over.
DialerLease(d) ==
  /\ dpc[d] \notin {"draw", "done"} => via[d] \in Addr /\ owner[via[d]] = d
  /\ dpc[d] \in {"draw", "done"} => via[d] = NoAddr
  /\ \A a \in Addr : owner[a] = d => via[d] = a
  /\ dpc[d] \in {"dial", "ok"} => tunnel_proto(via[d], dreq[d]) # NoTunnel
  /\ conn[d] # NoConn =>
       /\ conn[d].proto \in Types[conn[d].via] \ {"Https", "Connect25"}
       /\ conn[d].proto = "Http" => dreq[d] = "http"

LeaseInv ==
  /\ TypeOK
  /\ \A c \in Client : ClientLease(c)
  /\ \A d \in Dialer : DialerLease(d)

\* A step leaves u with what it had, and with nothing else.
Undisturbed(u) == \A a \in Addr : owner'[a] = u <=> owner[a] = u

SameClient(c) ==
  /\ pc'[c] = pc[c] /\ req'[c] = req[c] /\ proxy'[c] = proxy[c]
  /\ proto'[c] = proto[c]

SameDialer(d) ==
  /\ dpc'[d] = dpc[d] /\ dreq'[d] = dreq[d] /\ via'[d] = via[d]
  /\ conn'[d] = conn[d]

\* What is neither touched nor robbed keeps its lease.
LEMMA ClientFrame ==
  ASSUME NEW c \in Client, ClientLease(c), SameClient(c), Undisturbed(c)
  PROVE  ClientLease(c)'
BY DEF ClientLease, SameClient, Undisturbed

LEMMA DialerFrame ==
  ASSUME NEW d \in Dialer, DialerLease(d), SameDialer(d), Undisturbed(d)
  PROVE  DialerLease(d)'
BY DEF DialerLease, SameDialer, Undisturbed

\* What the pool's operations do to the owners.
LEMMA DeliverOwner ==
  ASSUME PoolType, NEW a \in Addr, deliver(a)
  PROVE  PoolType' /\ \A u \in User : Undisturbed(u)
BY PoolUserAssumption DEF PoolType, deliver, Undisturbed

LEMMA GetOwner ==
  ASSUME PoolType, NEW u \in User, NEW a \in Addr, NEW s, get(u, s, a)
  PROVE  /\ PoolType'
         /\ \A v \in User \ {u} : Undisturbed(v)
         /\ owner'[a] = u
         /\ \A b \in Addr \ {a} : owner'[b] = owner[b]
BY PoolUserAssumption DEF PoolType, get, Undisturbed

LEMMA PutOwner ==
  ASSUME PoolType, NEW u \in User, NEW a \in Addr, owner[a] = u, put(a)
  PROVE  /\ PoolType'
         /\ \A v \in User \ {u} : Undisturbed(v)
         /\ owner'[a] \in {"pool", "gone"} /\ owner'[a] # u
         /\ \A b \in Addr \ {a} : owner'[b] = owner[b]
BY PoolUserAssumption DEF PoolType, put, Undisturbed

LEMMA RemoveOwner ==
  ASSUME PoolType, NEW a, remove(a)
  PROVE  PoolType' /\ \A u \in User : Undisturbed(u)
BY PoolUserAssumption DEF PoolType, remove, Undisturbed

\* A dropped future loses what it holds, and nobody else does.
LEMMA DroppedOwner ==
  ASSUME PoolType, NEW d \in User,
         owner' = [a \in Addr |-> IF owner[a] = d THEN "gone" ELSE owner[a]]
  PROVE  /\ PoolType'
         /\ \A v \in User \ {d} : Undisturbed(v)
         /\ \A a \in Addr : owner'[a] # d
BY PoolUserAssumption DEF PoolType, Undisturbed

LEMMA SameOwner ==
  ASSUME PoolType, UNCHANGED owner
  PROVE  PoolType' /\ \A u \in User : Undisturbed(u)
BY DEF PoolType, Undisturbed

LEMMA LeaseInit == Init => LeaseInv
<1> SUFFICES ASSUME Init PROVE LeaseInv
  OBVIOUS
<1> USE DEF Init, PoolInit, ServerInit, ConnectorInit
<1>1. PoolType
  BY DEF PoolType
<1>2. ServerType
  BY DEF ServerType, Proto, Relaying, Keys
<1>3. ConnectorType
  BY DEF ConnectorType, NoConn, Proto
<1>4. \A u \in User, a \in Addr : owner[a] # u
  BY PoolUserAssumption
<1>5. ASSUME NEW c \in Client PROVE ClientLease(c)
  BY <1>4, ServerAssumption DEF ClientLease, Relaying
<1>6. ASSUME NEW d \in Dialer PROVE DialerLease(d)
  BY <1>4, ConnectorAssumption DEF DialerLease
<1> QED
  BY <1>1, <1>2, <1>3, <1>5, <1>6 DEF LeaseInv, TypeOK

-----------------------------------------------------------------------------
(* The handler's steps keep the leases.                                    *)

\* What the types say of one client's request.
LEMMA RequestType ==
  ASSUME ServerType, NEW c \in Client
  PROVE  /\ req[c].front \in Frontends /\ req[c].ask \in Asks
         /\ req[c].ask.op \in {"fetch", "history"} =>
              <<PeerOf[c], req[c].ask.path>> \in Keys
<1>1. req[c] \in Requests
  BY DEF ServerType
<1>2. req[c].front \in Frontends /\ req[c].ask \in Asks
  BY <1>1 DEF Requests
<1>3. ASSUME req[c].ask.op \in {"fetch", "history"} PROVE req[c].ask.path \in Path
  BY <1>2, <1>3 DEF Asks
<1> QED
  BY <1>2, <1>3 DEF Keys

\* A step of relay that only moves on, with what it shows the client.
LEMMA RelayStep ==
  ASSUME LeaseInv, NEW c \in Client, NEW from \in Relaying, NEW to \in Relaying,
         Relay(c, from, to), saw' \in [Client -> Seq(Replies)]
  PROVE  /\ PoolType' /\ ServerType' /\ ClientLease(c)'
         /\ \A v \in User \ {c} : Undisturbed(v)
         /\ \A x \in Client \ {c} : SameClient(x)
<1> USE DEF LeaseInv, TypeOK, Relay, Move
<1>1. PoolType' /\ \A u \in User : Undisturbed(u)
  BY SameOwner
<1>2. ServerType'
  BY DEF ServerType
<1>3. ClientLease(c)'
  BY DEF ClientLease, ServerType
<1>4. \A x \in Client \ {c} : SameClient(x)
  BY DEF SameClient, ServerType
<1> QED
  BY <1>1, <1>2, <1>3, <1>4

LEMMA ShowType ==
  ASSUME ServerType, NEW c \in Client, NEW what, NEW a \in Addr \cup {NoAddr},
         what \in {"ack", "head", "bytes", "failure", "407", "reject", "control"},
         Show(c, what, a)
  PROVE  saw' \in [Client -> Seq(Replies)]
<1>1. saw \in [Client -> Seq(Replies)]
  BY DEF ServerType
<1>2. [what |-> what, via |-> a] \in Replies
  BY DEF Replies
<1>3. Append(saw[c], [what |-> what, via |-> a]) \in Seq(Replies)
  BY <1>1, <1>2
<1> QED
  BY <1>1, <1>3 DEF Show

LEMMA WriteStep ==
  ASSUME LeaseInv, NEW c \in Client, NEW from \in Relaying, NEW what,
         what \in {"ack", "head"}, Write(c, from, what)
  PROVE  /\ PoolType' /\ ServerType' /\ ClientLease(c)'
         /\ \A v \in User \ {c} : Undisturbed(v)
         /\ \A x \in Client \ {c} : SameClient(x)
<1>1. ServerType /\ proxy[c] \in Addr \cup {NoAddr}
  BY DEF LeaseInv, TypeOK, ServerType
<1>2. saw' \in [Client -> Seq(Replies)]
  <2>1. CASE UNCHANGED saw
    BY <1>1, <2>1 DEF ServerType
  <2>2. CASE Show(c, what, proxy[c])
    BY <1>1, <2>2, ShowType
  <2> QED
    BY <2>1, <2>2 DEF Write
<1>3. Relay(c, from, "splice") \/ Relay(c, from, "gone")
  BY DEF Write
<1> QED
  BY <1>2, <1>3, RelayStep DEF Relaying

LEMMA ClientLeaseStep ==
  ASSUME LeaseInv, NEW c \in Client, Handle(c) \/ Splicing(c)
  PROVE  /\ PoolType' /\ ServerType' /\ ClientLease(c)'
         /\ \A v \in User \ {c} : Undisturbed(v)
         /\ \A x \in Client \ {c} : SameClient(x)
<1>0. /\ PoolType /\ ServerType /\ ClientLease(c) /\ c \in User
      /\ proxy[c] \in Addr \cup {NoAddr}
      /\ saw \in [Client -> Seq(Replies)]
  BY ServerAssumption DEF LeaseInv, TypeOK, ServerType
<1>1. CASE Parse(c)
  <2>1. PoolType' /\ \A u \in User : Undisturbed(u)
    BY <1>0, <1>1, SameOwner DEF Parse
  <2>2. saw' \in [Client -> Seq(Replies)]
    BY <1>0, <1>1, ShowType DEF Parse
  <2>3. ServerType'
    BY <1>0, <1>1, <2>2 DEF ServerType, Parse, Move, Relaying
  <2>4. ClientLease(c)'
    BY <1>0, <1>1 DEF ServerType, Parse, Move, Relaying, ClientLease
  <2>5. \A x \in Client \ {c} : SameClient(x)
    BY <1>0, <1>1 DEF ServerType, Parse, Move, SameClient
  <2> QED
    BY <2>1, <2>3, <2>4, <2>5
<1>2. CASE Admit(c)
  <2>1. PoolType' /\ \A u \in User : Undisturbed(u)
    BY <1>0, <1>2, SameOwner DEF Admit
  <2>2. saw' \in [Client -> Seq(Replies)]
    BY <1>0, <1>2, ShowType DEF Admit
  <2>3. ServerType'
    BY <1>0, <1>2, <2>2 DEF ServerType, Admit, Move, Relaying
  <2>4. ClientLease(c)'
    BY <1>0, <1>2 DEF ServerType, Admit, Move, Relaying, ClientLease
  <2>5. \A x \in Client \ {c} : SameClient(x)
    BY <1>0, <1>2 DEF ServerType, Admit, Move, SameClient
  <2> QED
    BY <2>1, <2>3, <2>4, <2>5
<1>3. CASE serve_control(c)
  <2>1. PoolType' /\ \A u \in User : Undisturbed(u)
    <3>1. (\E a : remove(a)) \/ UNCHANGED owner
      BY <1>3 DEF serve_control
    <3> QED
      BY <1>0, <3>1, RemoveOwner, SameOwner
  <2>2. saw' \in [Client -> Seq(Replies)]
    <3> DEFINE found == IF req[c].ask.op = "history"
                        THEN history[<<PeerOf[c], req[c].ask.path>>] ELSE NoAddr
    <3>1. found \in Addr \cup {NoAddr}
      BY <1>0, RequestType DEF ServerType
    <3>2. Show(c, "control", found)
      BY <1>3 DEF serve_control
    <3> HIDE DEF found
    <3> QED
      BY <1>0, <3>1, <3>2, ShowType
  <2>3. ServerType'
    BY <1>0, <1>3, <2>2 DEF ServerType, serve_control, Move, Relaying
  <2>4. ClientLease(c)'
    BY <1>0, <1>3, <2>1 DEF ServerType, serve_control, Move, Relaying, ClientLease,
       Undisturbed
  <2>5. \A x \in Client \ {c} : SameClient(x)
    BY <1>0, <1>3 DEF ServerType, serve_control, Move, SameClient
  <2> QED
    BY <2>1, <2>3, <2>4, <2>5
<1>4. CASE \E a \in Addr : Draw(c, a)
  <2> PICK a \in Addr : Draw(c, a)
    BY <1>4
  <2>0. SchemeOf(c) \in Scheme /\ SchemeOf(c) \in schemes(a)
    BY DEF Draw, get, SchemeOf, Scheme
  <2>1. /\ PoolType' /\ \A v \in User \ {c} : Undisturbed(v)
        /\ owner'[a] = c /\ \A b \in Addr \ {a} : owner'[b] = owner[b]
    BY <1>0, GetOwner DEF Draw
  <2>2. choose_proto(a, SchemeOf(c)) \in Types[a] \cap Proto
    BY <2>0, ChooseProtoType
  <2>3. ServerType'
    BY <1>0, <2>2 DEF ServerType, Draw, Move, Relaying
  <2>4. ClientLease(c)'
    BY <1>0, <2>1, <2>2, PoolUserAssumption
    DEF ServerType, Draw, Move, Relaying, ClientLease
  <2>5. \A x \in Client \ {c} : SameClient(x)
    BY <1>0 DEF ServerType, Draw, Move, SameClient
  <2> QED
    BY <2>1, <2>3, <2>4, <2>5
<1>5. CASE GiveUp(c)
  <2>1. PoolType' /\ \A u \in User : Undisturbed(u)
    BY <1>0, <1>5, SameOwner DEF GiveUp
  <2>2. saw' \in [Client -> Seq(Replies)]
    BY <1>0, <1>5, ShowType DEF GiveUp
  <2>3. ServerType'
    BY <1>0, <1>5, <2>2 DEF ServerType, GiveUp, Move
  <2>4. ClientLease(c)'
    BY <1>0, <1>5 DEF ServerType, GiveUp, Move, Relaying, ClientLease
  <2>5. \A x \in Client \ {c} : SameClient(x)
    BY <1>0, <1>5 DEF ServerType, GiveUp, Move, SameClient
  <2> QED
    BY <2>1, <2>3, <2>4, <2>5
<1>6. CASE Connect(c)
  <2>1. \E to \in Relaying : Relay(c, "connect", to)
    BY <1>6 DEF Connect, Relaying
  <2>2. saw' \in [Client -> Seq(Replies)]
    BY <1>0, <1>6 DEF Connect
  <2> QED
    BY <2>1, <2>2, RelayStep, "connect" \in Relaying DEF Relaying
<1>7. CASE Ack(c)
  BY <1>7, WriteStep DEF Ack, Relaying
<1>8. CASE Forward(c)
  <2>1. \E to \in Relaying : Relay(c, "forward", to)
    BY <1>8 DEF Forward, Relaying
  <2>2. saw' \in [Client -> Seq(Replies)]
    BY <1>0, <1>8 DEF Forward
  <2> QED
    BY <2>1, <2>2, RelayStep DEF Relaying
<1>9. CASE Status(c)
  <2>1. CASE Relay(c, "status", "failed") /\ UNCHANGED saw
    BY <1>0, <2>1, RelayStep DEF Relaying
  <2>2. CASE Write(c, "status", "head")
    BY <2>2, WriteStep DEF Relaying
  <2> QED
    BY <1>9, <2>1, <2>2 DEF Status
<1>10. CASE Splice(c)
  <2>1. PoolType' /\ \A u \in User : Undisturbed(u)
    BY <1>0, <1>10, SameOwner DEF Splice
  <2>2. saw' \in [Client -> Seq(Replies)]
    BY <1>0, <1>10, ShowType DEF Splice
  <2>3. ServerType'
    BY <1>0, <1>10, <2>2 DEF ServerType, Splice
  <2>4. ClientLease(c)' /\ \A x \in Client \ {c} : SameClient(x)
    BY <1>0, <1>10 DEF Splice, ClientLease, SameClient
  <2> QED
    BY <2>1, <2>3, <2>4
<1>11. CASE Feed(c)
  <2>1. PoolType' /\ \A u \in User : Undisturbed(u)
    BY <1>0, <1>11, SameOwner DEF Feed
  <2>2. proxy[c] \in Addr
    BY <1>0, <1>11 DEF Feed, ClientLease, Relaying
  <2>3. ServerType'
    BY <1>0, <1>11, <2>2 DEF ServerType, Feed
  <2>4. ClientLease(c)' /\ \A x \in Client \ {c} : SameClient(x)
    BY <1>0, <1>11 DEF Feed, ClientLease, SameClient
  <2> QED
    BY <2>1, <2>3, <2>4
<1>12. CASE SpliceOk(c)
  <2>1. PoolType' /\ \A u \in User : Undisturbed(u)
    BY <1>0, <1>12, SameOwner DEF SpliceOk
  <2>2. proxy[c] \in Addr /\ <<PeerOf[c], req[c].ask.path>> \in Keys
    BY <1>0, <1>12, RequestType DEF SpliceOk, Move, ClientLease, Relaying
  <2>3. ServerType'
    <3>1. served' \subseteq Keys \X Addr
      <4> DEFINE e == <<<<PeerOf[c], req[c].ask.path>>, proxy[c]>>
      <4>1. e \in Keys \X Addr
        BY <2>2
      <4>2. served \subseteq Keys \X Addr /\ served' = served \cup {e}
        BY <1>0, <1>12 DEF ServerType, SpliceOk
      <4> HIDE DEF e
      <4> QED
        BY <4>1, <4>2
    <3>2. pc' \in [Client -> Relaying \cup {"parse", "auth", "control", "draw", "done"}]
      BY <1>0, <1>12 DEF ServerType, SpliceOk, Move, Relaying
    <3> QED
      BY <1>0, <1>12, <3>1, <3>2 DEF ServerType, SpliceOk
  <2>4. ClientLease(c)'
    BY <1>0, <1>12 DEF ServerType, SpliceOk, Move, Relaying, ClientLease
  <2>5. \A x \in Client \ {c} : SameClient(x)
    BY <1>0, <1>12 DEF ServerType, SpliceOk, Move, SameClient
  <2> QED
    BY <2>1, <2>3, <2>4, <2>5
<1>13. CASE SpliceFails(c)
  BY <1>0, <1>13, RelayStep DEF SpliceFails, Relaying
<1>14. CASE Record(c)
  <2>1. PoolType' /\ \A u \in User : Undisturbed(u)
    BY <1>0, <1>14, SameOwner DEF Record
  <2>2. history' \in [Keys -> Addr \cup {NoAddr}]
    BY <1>0, <1>14 DEF ServerType, Record
  <2>3. ServerType'
    BY <1>0, <1>14, <2>2 DEF ServerType, Record, Move, Relaying
  <2>4. ClientLease(c)'
    BY <1>0, <1>14 DEF ServerType, Record, Move, Relaying, ClientLease
  <2>5. \A x \in Client \ {c} : SameClient(x)
    BY <1>0, <1>14 DEF ServerType, Record, Move, SameClient
  <2> QED
    BY <2>1, <2>3, <2>4, <2>5
<1>15. CASE Return(c)
  <2>0. pc[c] \in Relaying /\ proxy[c] \in Addr /\ owner[proxy[c]] = c
    BY <1>0, <1>15 DEF Return, Move, Relaying, ClientLease
  <2>1. /\ PoolType' /\ \A v \in User \ {c} : Undisturbed(v)
        /\ owner'[proxy[c]] # c
        /\ \A b \in Addr \ {proxy[c]} : owner'[b] = owner[b]
    BY <1>0, <1>15, <2>0, PutOwner DEF Return
  <2>3. ServerType'
    BY <1>0, <1>15 DEF ServerType, Return, Move, Proto
  <2>4. ClientLease(c)'
    <3>1. \A a \in Addr : owner'[a] # c
      BY <1>0, <2>1 DEF ClientLease
    <3>2. pc'[c] \in {"draw", "done"} /\ proxy'[c] = NoAddr /\ req' = req
      BY <1>0, <1>15 DEF Return, Move, ServerType
    <3> QED
      BY <1>0, <2>0, <3>1, <3>2 DEF ClientLease, Relaying
  <2>5. \A x \in Client \ {c} : SameClient(x)
    BY <1>0, <1>15 DEF ServerType, Return, Move, SameClient
  <2> QED
    BY <2>1, <2>3, <2>4, <2>5
<1> QED
  BY <1>1, <1>2, <1>3, <1>4, <1>5, <1>6, <1>7, <1>8, <1>9, <1>10, <1>11, <1>12,
     <1>13, <1>14, <1>15 DEF Handle, Splicing

-----------------------------------------------------------------------------
(* The connect futures' steps keep the leases.                             *)

LEMMA DialerLeaseStep ==
  ASSUME LeaseInv, NEW d \in Dialer, Dial(d) \/ Dropped(d)
  PROVE  /\ PoolType' /\ ConnectorType' /\ DialerLease(d)'
         /\ \A v \in User \ {d} : Undisturbed(v)
         /\ \A x \in Dialer \ {d} : SameDialer(x)
<1>0. /\ PoolType /\ ConnectorType /\ DialerLease(d) /\ d \in User
      /\ dreq[d] \in Scheme
  BY ConnectorAssumption DEF LeaseInv, TypeOK, ConnectorType
<1>1. CASE \E a \in Addr : Checkout(d, a)
  <2> PICK a \in Addr : Checkout(d, a)
    BY <1>1
  <2>1. /\ PoolType' /\ \A v \in User \ {d} : Undisturbed(v)
        /\ owner'[a] = d /\ \A b \in Addr \ {a} : owner'[b] = owner[b]
    BY <1>0, GetOwner DEF Checkout
  <2>2. ConnectorType'
    BY <1>0 DEF ConnectorType, Checkout
  <2>3. DialerLease(d)'
    BY <1>0, <2>1, PoolUserAssumption DEF ConnectorType, Checkout, DialerLease
  <2>4. \A x \in Dialer \ {d} : SameDialer(x)
    BY <1>0 DEF ConnectorType, Checkout, SameDialer
  <2> QED
    BY <2>1, <2>2, <2>3, <2>4
<1>2. CASE Fails(d)
  <2>1. PoolType' /\ \A u \in User : Undisturbed(u)
    BY <1>0, <1>2, SameOwner DEF Fails
  <2>2. ConnectorType' /\ DialerLease(d)'
    BY <1>0, <1>2 DEF ConnectorType, Fails, DialerLease
  <2>3. \A x \in Dialer \ {d} : SameDialer(x)
    BY <1>0, <1>2 DEF ConnectorType, Fails, SameDialer
  <2> QED
    BY <2>1, <2>2, <2>3
<1>3. CASE dial(d)
  <2>1. PoolType' /\ \A u \in User : Undisturbed(u)
    BY <1>0, <1>3, SameOwner DEF dial
  <2>2. ConnectorType' /\ DialerLease(d)'
    BY <1>0, <1>3 DEF ConnectorType, dial, DialerLease
  <2>3. \A x \in Dialer \ {d} : SameDialer(x)
    BY <1>0, <1>3 DEF ConnectorType, dial, SameDialer
  <2> QED
    BY <2>1, <2>2, <2>3
<1>4. CASE GiveBack(d)
  <2>0. via[d] \in Addr /\ owner[via[d]] = d
    BY <1>0, <1>4 DEF GiveBack, DialerLease
  <2>1. /\ PoolType' /\ \A v \in User \ {d} : Undisturbed(v)
        /\ owner'[via[d]] # d
        /\ \A b \in Addr \ {via[d]} : owner'[b] = owner[b]
    BY <1>0, <1>4, <2>0, PutOwner DEF GiveBack
  <2>2. dpc[d] = "ok" =>
          /\ tunnel_proto(via[d], dreq[d]) \in Types[via[d]] \ {"Https", "Connect25"}
          /\ tunnel_proto(via[d], dreq[d]) \in Proto
          /\ tunnel_proto(via[d], dreq[d]) = "Http" => dreq[d] = "http"
    BY <1>0, <2>0, TunnelProtoType DEF DialerLease
  <2>3. ConnectorType'
    <3>1. conn' \in [Dialer -> [via : Addr \cup {NoAddr}, proto : Proto]]
      <4>1. CASE UNCHANGED conn
        BY <1>0, <4>1 DEF ConnectorType
      <4>2. CASE dpc[d] = "ok"
        BY <1>0, <1>4, <2>0, <2>2, <4>2 DEF ConnectorType, GiveBack
      <4> QED
        BY <1>4, <4>1, <4>2 DEF GiveBack
    <3>2. dpc' \in [Dialer -> {"draw", "dial", "failed", "untouched", "ok", "done"}]
      BY <1>0, <1>4 DEF ConnectorType, GiveBack
    <3> QED
      BY <1>0, <1>4, <3>1, <3>2 DEF ConnectorType, GiveBack
  <2>4. DialerLease(d)'
    <3>1. \A a \in Addr : owner'[a] # d
      BY <1>0, <2>1 DEF DialerLease
    <3>2. dpc'[d] \in {"draw", "done"} /\ via'[d] = NoAddr /\ dreq' = dreq
      BY <1>0, <1>4 DEF GiveBack, ConnectorType
    <3>3. \/ UNCHANGED conn
          \/ /\ dpc[d] = "ok"
             /\ conn'[d] = [via |-> via[d], proto |-> tunnel_proto(via[d], dreq[d])]
      BY <1>0, <1>4 DEF GiveBack, ConnectorType
    <3> QED
      BY <1>0, <2>2, <3>1, <3>2, <3>3 DEF DialerLease
  <2>5. \A x \in Dialer \ {d} : SameDialer(x)
    BY <1>0, <1>4 DEF ConnectorType, GiveBack, SameDialer
  <2> QED
    BY <2>1, <2>3, <2>4, <2>5
<1>5. CASE Dropped(d)
  <2>1. /\ PoolType' /\ \A v \in User \ {d} : Undisturbed(v)
        /\ \A a \in Addr : owner'[a] # d
    BY <1>0, <1>5, DroppedOwner DEF Dropped
  <2>2. ConnectorType'
    BY <1>0, <1>5 DEF ConnectorType, Dropped
  <2>3. DialerLease(d)'
    BY <1>0, <1>5, <2>1 DEF ConnectorType, Dropped, DialerLease
  <2>4. \A x \in Dialer \ {d} : SameDialer(x)
    BY <1>0, <1>5 DEF ConnectorType, Dropped, SameDialer
  <2> QED
    BY <2>1, <2>2, <2>3, <2>4
<1> QED
  BY <1>1, <1>2, <1>3, <1>4, <1>5 DEF Dial

LEMMA LeaseNext == LeaseInv /\ [Next]_vars => LeaseInv'
<1> SUFFICES ASSUME LeaseInv, [Next]_vars PROVE LeaseInv'
  OBVIOUS
<1>0. /\ PoolType /\ ServerType /\ ConnectorType
      /\ Client \subseteq User /\ Dialer \subseteq User /\ Client \cap Dialer = {}
  BY ServerAssumption, ConnectorAssumption, ServingAssumption DEF LeaseInv, TypeOK
<1>1. ASSUME NEW a \in Addr, deliver(a), UNCHANGED <<serverVars, connectorVars>>
      PROVE  LeaseInv'
  <2>1. PoolType' /\ \A u \in User : Undisturbed(u)
    BY <1>0, <1>1, DeliverOwner
  <2>2. ServerType' /\ ConnectorType'
    BY <1>0, <1>1 DEF ServerType, serverVars, ConnectorType, connectorVars, Present
  <2>3. ASSUME NEW x \in Client PROVE ClientLease(x)'
    BY <1>0, <1>1, <2>1, ClientFrame DEF LeaseInv, SameClient, serverVars
  <2>4. ASSUME NEW x \in Dialer PROVE DialerLease(x)'
    BY <1>0, <1>1, <2>1, DialerFrame DEF LeaseInv, SameDialer, connectorVars
  <2> QED
    BY <2>1, <2>2, <2>3, <2>4 DEF LeaseInv, TypeOK
<1>2. ASSUME NEW c \in Client, Handle(c) \/ Splicing(c), UNCHANGED connectorVars
      PROVE  LeaseInv'
  <2>1. /\ PoolType' /\ ServerType' /\ ClientLease(c)'
        /\ \A v \in User \ {c} : Undisturbed(v)
        /\ \A x \in Client \ {c} : SameClient(x)
    BY <1>2, ClientLeaseStep
  <2>2. ConnectorType'
    BY <1>0, <1>2 DEF ConnectorType, connectorVars
  <2>3. ASSUME NEW x \in Client \ {c} PROVE ClientLease(x)'
    BY <1>0, <2>1, ClientFrame DEF LeaseInv
  <2>4. ASSUME NEW x \in Dialer PROVE DialerLease(x)'
    BY <1>0, <1>2, <2>1, DialerFrame DEF LeaseInv, SameDialer, connectorVars
  <2> QED
    BY <2>1, <2>2, <2>3, <2>4 DEF LeaseInv, TypeOK
<1>3. ASSUME NEW d \in Dialer, Dial(d) \/ Dropped(d), UNCHANGED serverVars
      PROVE  LeaseInv'
  <2>1. /\ PoolType' /\ ConnectorType' /\ DialerLease(d)'
        /\ \A v \in User \ {d} : Undisturbed(v)
        /\ \A x \in Dialer \ {d} : SameDialer(x)
    BY <1>3, DialerLeaseStep
  <2>2. ServerType'
    BY <1>0, <1>3 DEF ServerType, serverVars
  <2>3. ASSUME NEW x \in Client PROVE ClientLease(x)'
    BY <1>0, <1>3, <2>1, ClientFrame DEF LeaseInv, SameClient, serverVars
  <2>4. ASSUME NEW x \in Dialer \ {d} PROVE DialerLease(x)'
    BY <1>0, <2>1, DialerFrame DEF LeaseInv
  <2> QED
    BY <2>1, <2>2, <2>3, <2>4 DEF LeaseInv, TypeOK
<1>4. CASE UNCHANGED vars
  BY <1>4 DEF vars, serverVars, connectorVars, LeaseInv, TypeOK, PoolType,
     ServerType, ConnectorType, ClientLease, DialerLease
<1> QED
  BY <1>1, <1>2, <1>3, <1>4 DEF Next

(***************************************************************************)
(* For any number of clients, futures and proxies: whichever way a handler *)
(* or a connect future ends, retries or is dropped, it keeps no proxy.     *)
(***************************************************************************)
THEOREM ServingNoLeaseLeft == Spec => []NoLeaseLeft
<1>1. LeaseInv => NoLeaseLeft
  BY PoolUserAssumption DEF LeaseInv, ClientLease, DialerLease, NoLeaseLeft
<1> QED
  BY <1>1, LeaseInit, LeaseNext, PTL DEF Spec

(***************************************************************************)
(* The tunnel of a CONNECT or SOCKS5 client, or of an https URI, is never  *)
(* one that ends TLS itself, and the protocol in use is one that the proxy *)
(* in use was checked with, whatever the protocols of the proxies are.     *)
(***************************************************************************)
THEOREM ServingOpaqueTunnels == Spec => []OpaqueTunnels
<1>1. ASSUME LeaseInv PROVE OpaqueTunnels
  <2>1. ASSUME NEW c \in Client, pc[c] \in {"ack", "splice"}
        PROVE  /\ proto[c] \in Types[proxy[c]]
               /\ Tunnel(c) => relay_negotiation_proto(proto[c], req[c].front) # "Https"
    <3>1. req[c].front \in Frontends
      BY <1>1, RequestType DEF LeaseInv, TypeOK
    <3> QED
      BY <1>1, <2>1, <3>1 DEF LeaseInv, ClientLease, Relaying, Tunnel, Frontends,
         relay_negotiation_proto
  <2>2. ASSUME NEW d \in Dialer, conn[d] # NoConn
        PROVE  /\ conn[d].proto \in Types[conn[d].via] \ {"Https", "Connect25"}
               /\ conn[d].proto = "Http" => dreq[d] = "http"
    BY <1>1, <2>2 DEF LeaseInv, DialerLease
  <2> QED
    BY <2>1, <2>2 DEF OpaqueTunnels
<1> QED
  BY <1>1, LeaseInit, LeaseNext, PTL DEF Spec

-----------------------------------------------------------------------------
(* The refinement of module Lease.                                         *)

\* What put, get and remove are to the abstract pool.
LEMMA PutIsReturn ==
  ASSUME NEW u \in User, NEW a \in Addr, owner[a] = u, put(a)
  PROVE  Leases!Next
BY DEF put, Leases!Next, Leases!Return, Leases!Give

LEMMA GetIsCheckOut ==
  ASSUME NEW u \in User, NEW a \in Addr, NEW s, get(u, s, a),
         \A b \in Addr : owner[b] # u
  PROVE  Leases!Next
BY DEF get, Leases!Next, Leases!CheckOut, Leases!Give

LEMMA RemoveIsDiscard ==
  ASSUME PoolType, NEW a \in Addr, remove(a)
  PROVE  Leases!Next \/ UNCHANGED owner
<1>1. CASE owner[a] # "pool"
  BY <1>1 DEF remove
<1>2. CASE owner[a] = "pool"
  <2>1. owner' = [owner EXCEPT ![a] = "gone"]
    BY <1>2 DEF remove
  <2>2. owner' = [x \in Addr |-> IF x \in {a} THEN "gone" ELSE owner[x]]
    BY <2>1 DEF PoolType
  <2>3. Leases!Discard({a}) /\ {a} \in SUBSET Addr
    BY <1>2, <2>2 DEF Leases!Discard
  <2> QED
    BY <2>3 DEF Leases!Next
<1> QED
  BY <1>1, <1>2

LEMMA ClientKeepsLeases ==
  ASSUME LeaseInv, NEW c \in Client, Handle(c) \/ Splicing(c)
  PROVE  Leases!Next \/ UNCHANGED owner
<1>0. ServerType /\ ClientLease(c) /\ c \in User
  BY ServerAssumption DEF LeaseInv, TypeOK
<1>1. CASE \E a \in Addr : Draw(c, a)
  <2>1. PICK a \in Addr : Draw(c, a)
    BY <1>1
  <2>2. pc[c] \notin Relaying
    BY <2>1 DEF Draw, Move, Relaying
  <2>3. \A b \in Addr : owner[b] # c
    BY <1>0, <2>2, PoolUserAssumption DEF ClientLease
  <2> QED
    BY <1>0, <2>1, <2>3, GetIsCheckOut DEF Draw
<1>2. CASE Return(c)
  <2>1. proxy[c] \in Addr /\ owner[proxy[c]] = c
    BY <1>0, <1>2 DEF Return, Move, Relaying, ClientLease
  <2> QED
    BY <1>0, <1>2, <2>1, PutIsReturn DEF Return
<1>3. CASE serve_control(c)
  <2>1. CASE req[c].ask.op = "remove"
    <3>1. req[c].ask \in Asks
      BY <1>0, RequestType
    <3>2. req[c].ask.addr \in Addr
      BY <2>1, <3>1 DEF Asks
    <3> QED
      BY <1>3, <2>1, <3>2, RemoveIsDiscard DEF serve_control, LeaseInv, TypeOK
  <2>2. CASE req[c].ask.op # "remove"
    BY <1>3, <2>2 DEF serve_control
  <2> QED
    BY <2>1, <2>2
<1>4. CASE Parse(c) \/ Admit(c) \/ GiveUp(c) \/ Record(c)
  BY <1>4 DEF Parse, Admit, GiveUp, Record
<1>5. CASE Connect(c) \/ Ack(c) \/ Forward(c) \/ Status(c)
  BY <1>5 DEF Connect, Ack, Forward, Status, Write, Relay
<1>6. CASE Splicing(c)
  BY <1>6 DEF Splicing, Splice, Feed, SpliceOk, SpliceFails, Relay
<1> QED
  BY <1>1, <1>2, <1>3, <1>4, <1>5, <1>6 DEF Handle

LEMMA DialerKeepsLeases ==
  ASSUME LeaseInv, NEW d \in Dialer, Dial(d) \/ Dropped(d)
  PROVE  Leases!Next \/ UNCHANGED owner
<1>0. PoolType /\ ConnectorType /\ DialerLease(d) /\ d \in User
  BY ConnectorAssumption DEF LeaseInv, TypeOK
<1>1. CASE \E a \in Addr : Checkout(d, a)
  <2>1. PICK a \in Addr : Checkout(d, a)
    BY <1>1
  <2>2. \A b \in Addr : owner[b] # d
    BY <1>0, <2>1, PoolUserAssumption DEF DialerLease, Checkout
  <2> QED
    BY <1>0, <2>1, <2>2, GetIsCheckOut DEF Checkout
<1>2. CASE GiveBack(d)
  <2>1. via[d] \in Addr /\ owner[via[d]] = d
    BY <1>0, <1>2 DEF GiveBack, DialerLease
  <2> QED
    BY <1>0, <1>2, <2>1, PutIsReturn DEF GiveBack
<1>3. CASE Dropped(d)
  <2>1. CASE dpc[d] = "draw"
    <3>1. \A b \in Addr : owner[b] # d
      BY <1>0, <2>1, PoolUserAssumption DEF DialerLease
    <3> QED
      BY <1>0, <1>3, <3>1 DEF Dropped, PoolType
  <2>2. CASE dpc[d] = "dial"
    <3>1. /\ via[d] \in Addr /\ owner[via[d]] = d
          /\ \A b \in Addr \ {via[d]} : owner[b] # d
      BY <1>0, <2>2 DEF DialerLease
    <3>2. owner' = [owner EXCEPT ![via[d]] = "gone"]
      BY <1>0, <1>3, <3>1 DEF Dropped, PoolType
    <3> QED
      BY <1>0, <3>1, <3>2 DEF Leases!Next, Leases!Return, Leases!Give
  <2> QED
    BY <1>3, <2>1, <2>2 DEF Dropped
<1>4. CASE Fails(d) \/ dial(d)
  BY <1>4 DEF Fails, dial
<1> QED
  BY <1>1, <1>2, <1>3, <1>4 DEF Dial

(***************************************************************************)
(* The server and the connector use the pool as module Lease allows: they  *)
(* draw only with empty hands and return only what they hold, so that what *)
(* is proved of the pool under that discipline holds of them.              *)
(***************************************************************************)
THEOREM ServingKeepsLeases == Spec => KeepsLeases
<1>1. Init => Leases!Init
  BY DEF Init, PoolInit, Leases!Init
<1>2. LeaseInv /\ [Next]_vars => [Leases!Next]_owner
  <2> SUFFICES ASSUME LeaseInv, [Next]_vars PROVE [Leases!Next]_owner
    OBVIOUS
  <2>1. CASE \E a \in Addr : deliver(a)
    BY <2>1 DEF deliver, Leases!Next, Leases!Deliver, Leases!Give
  <2>2. CASE \E c \in Client : Handle(c) \/ Splicing(c)
    BY <2>2, ClientKeepsLeases
  <2>3. CASE \E d \in Dialer : Dial(d) \/ Dropped(d)
    BY <2>3, DialerKeepsLeases
  <2>4. CASE UNCHANGED vars
    BY <2>4 DEF vars
  <2> QED
    BY <2>1, <2>2, <2>3, <2>4 DEF Next
<1> QED
  BY <1>1, <1>2, LeaseInit, LeaseNext, PTL DEF Spec, KeepsLeases, Leases!Spec

-----------------------------------------------------------------------------
(* One answer to a client.                                                 *)

\* Before these steps are over the client has seen nothing.
Unanswered == {"parse", "auth", "control", "draw", "connect", "ack", "forward",
               "status", "failed"}

Reply(c, what) == [what |-> what, via |-> proxy[c]]

(***************************************************************************)
(* OneAnswer says nothing of when the client has seen what; a retry is     *)
(* safe because nothing was shown before it.  So: nothing up to the commit *)
(* point and on the way back to the next draw; during the splice only what *)
(* the upstream in use sent, the bytes once and last.                      *)
(***************************************************************************)
Answer(c) ==
  /\ pc[c] \in Unanswered => saw[c] = << >> /\ fed[c] = {}
  /\ pc[c] = "splice" =>
       /\ \/ saw[c] = << >>
          \/ \E what \in {"ack", "head", "bytes"} : saw[c] = <<Reply(c, what)>>
          \/ \E what \in {"ack", "head"} :
               saw[c] = <<Reply(c, what), Reply(c, "bytes")>>
       /\ fed[c] \subseteq {proxy[c]}
  /\ \A i \in 2..Len(saw[c]) :
       /\ saw[c][1].what \in {"ack", "head"}
       /\ saw[c][i] = [what |-> "bytes", via |-> saw[c][1].via]
  /\ \E a \in Addr \cup {NoAddr} : fed[c] \subseteq {a}

\* One reply, to a client that had none, is one answer.
LEMMA FirstReply ==
  ASSUME NEW c \in Client, ServerType, Answer(c), pc[c] \in Unanswered,
         NEW what, NEW a, Show(c, what, a), UNCHANGED fed
  PROVE  /\ saw'[c] = <<[what |-> what, via |-> a]>>
         /\ fed'[c] = {}
<1>1. saw \in [Client -> Seq(Replies)] /\ saw[c] = << >> /\ fed[c] = {}
  BY DEF ServerType, Answer
<1>2. saw'[c] = Append(<< >>, [what |-> what, via |-> a])
  BY <1>1 DEF Show
<1> QED
  BY <1>1, <1>2

\* A step that shows nothing to a client that has seen nothing.
LEMMA StillUnanswered ==
  ASSUME NEW c \in Client, Answer(c), pc[c] \in Unanswered,
         saw'[c] = saw[c], fed'[c] = fed[c]
  PROVE  Answer(c)'
<1>1. saw'[c] = << >> /\ fed'[c] = {}
  BY DEF Answer
<1>2. 2..Len(saw'[c]) = {}
  BY <1>1
<1> QED
  BY <1>1, <1>2 DEF Answer

\* The first thing that a client is shown.
LEMMA FirstShown ==
  ASSUME NEW c \in Client, ServerType, Answer(c), pc[c] \in Unanswered,
         NEW what, NEW a, Show(c, what, a), UNCHANGED fed,
         pc'[c] \notin Unanswered,
         pc'[c] = "splice" => what \in {"ack", "head"} /\ a = proxy'[c]
  PROVE  Answer(c)'
<1>1. saw'[c] = <<[what |-> what, via |-> a]>> /\ fed'[c] = {}
  BY FirstReply
<1>2. 2..Len(saw'[c]) = {}
  BY <1>1
<1>3. pc'[c] = "splice" => saw'[c] = <<Reply(c, what)'>>
  BY <1>1 DEF Reply
<1> QED
  BY <1>1, <1>2, <1>3 DEF Answer

\* After the splice nothing more is shown.
LEMMA AnswerOver ==
  ASSUME NEW c \in Client, Answer(c), saw'[c] = saw[c], fed'[c] = fed[c],
         pc'[c] \notin Unanswered \cup {"splice"}
  PROVE  Answer(c)'
BY DEF Answer

LEMMA AppendSecond ==
  ASSUME NEW x, NEW y
  PROVE  Append(<<x>>, y) = <<x, y>>
<1> DEFINE S == {x, y}
<1>1. <<x>> \in Seq(S) /\ <<x, y>> \in Seq(S) /\ y \in S
  OBVIOUS
<1>2. /\ Append(<<x>>, y) \in Seq(S) /\ Len(Append(<<x>>, y)) = 2
      /\ Append(<<x>>, y)[1] = x /\ Append(<<x>>, y)[2] = y
  BY <1>1, AppendProperties
<1>3. Len(<<x, y>>) = 2 /\ <<x, y>>[1] = x /\ <<x, y>>[2] = y
  OBVIOUS
<1> HIDE DEF S
<1>4. \A i \in 1..2 : Append(<<x>>, y)[i] = <<x, y>>[i]
  BY <1>2, <1>3
<1> QED
  BY <1>1, <1>2, <1>3, <1>4, SeqEqual

SameAnswer(c) ==
  /\ pc'[c] = pc[c] /\ proxy'[c] = proxy[c]
  /\ saw'[c] = saw[c] /\ fed'[c] = fed[c]

LEMMA AnswerStep ==
  ASSUME LeaseInv, NEW c \in Client, Answer(c), Handle(c) \/ Splicing(c)
  PROVE  Answer(c)' /\ \A x \in Client \ {c} : SameAnswer(x)
<1>0. /\ ServerType /\ ClientLease(c)
      /\ pc \in [Client -> Relaying \cup {"parse", "auth", "control", "draw", "done"}]
      /\ saw \in [Client -> Seq(Replies)] /\ fed \in [Client -> SUBSET Addr]
      /\ proxy \in [Client -> Addr \cup {NoAddr}]
  BY DEF LeaseInv, TypeOK, ServerType
<1>1. \A x \in Client \ {c} : SameAnswer(x)
  <2>1. CASE Handle(c)
    BY <1>0, <2>1 DEF Handle, Parse, Admit, serve_control, Draw, GiveUp, Connect,
       Ack, Forward, Status, Write, Relay, Record, Return, Move, Show, SameAnswer
  <2>2. CASE Splicing(c)
    BY <1>0, <2>2 DEF Splicing, Splice, Feed, SpliceOk, SpliceFails, Relay, Move,
       Show, SameAnswer
  <2> QED
    BY <2>1, <2>2
<1>2. CASE Parse(c)
  <2>1. CASE Show(c, "reject", NoAddr) /\ Move(c, {"parse"}, "done")
    BY <1>0, <1>1, <1>2, <2>1, FirstShown DEF Parse, Move, Unanswered
  <2>2. CASE UNCHANGED saw
    BY <1>0, <1>1, <1>2, <2>2, StillUnanswered DEF Parse, Move, Unanswered
  <2> QED
    BY <1>1, <1>2, <2>1, <2>2 DEF Parse
<1>3. CASE Admit(c)
  <2>1. CASE Show(c, "407", NoAddr) /\ Move(c, {"auth"}, "done")
    BY <1>0, <1>1, <1>3, <2>1, FirstShown DEF Admit, Move, Unanswered
  <2>2. CASE UNCHANGED saw
    BY <1>0, <1>1, <1>3, <2>2, StillUnanswered DEF Admit, Move, Unanswered
  <2> QED
    BY <1>1, <1>3, <2>1, <2>2 DEF Admit
<1>4. CASE serve_control(c)
  <2>1. PICK found : Show(c, "control", found)
    BY <1>4 DEF serve_control
  <2> QED
    BY <1>0, <1>1, <1>4, <2>1, FirstShown DEF serve_control, Move, Unanswered
<1>5. CASE \E a \in Addr : Draw(c, a)
  BY <1>0, <1>1, <1>5, StillUnanswered DEF Draw, Move, Unanswered
<1>6. CASE GiveUp(c)
  BY <1>0, <1>1, <1>6, FirstShown DEF GiveUp, Move, Unanswered
<1>7. CASE Connect(c) \/ Forward(c) \/ (Relay(c, "status", "failed") /\ UNCHANGED saw)
  <2>1. UNCHANGED <<saw, fed>> /\ pc[c] \in Unanswered
    BY <1>7 DEF Connect, Forward, Relay, Move, Unanswered
  <2> QED
    BY <1>1, <2>1, StillUnanswered
<1>8. CASE Ack(c) \/ Write(c, "status", "head")
  <2>1. PICK from \in {"ack", "status"}, what \in {"ack", "head"} : Write(c, from, what)
    BY <1>8 DEF Ack
  <2>2. /\ pc[c] \in Unanswered /\ pc'[c] \in {"splice", "gone"}
        /\ UNCHANGED <<proxy, fed>>
    BY <1>0, <2>1 DEF Write, Relay, Move, Unanswered
  <2>3. CASE Show(c, what, proxy[c])
    BY <1>0, <1>1, <2>2, <2>3, FirstShown DEF Unanswered
  <2>4. CASE UNCHANGED saw
    BY <1>1, <2>2, <2>4, StillUnanswered
  <2> QED
    BY <1>1, <2>1, <2>3, <2>4 DEF Write
<1>9. CASE Splice(c)
  <2>0. pc[c] = "splice" /\ pc' = pc /\ proxy' = proxy /\ fed' = fed
    BY <1>9 DEF Splice
  <2>1. \/ saw[c] = << >>
        \/ \E what \in {"ack", "head"} : saw[c] = <<Reply(c, what)>>
    <3>1. \A i \in DOMAIN saw[c] : saw[c][i].what # "bytes"
      BY <1>9 DEF Splice
    <3>2. saw[c] # <<Reply(c, "bytes")>>
      BY <3>1 DEF Reply
    <3>3. ASSUME NEW what PROVE saw[c] # <<Reply(c, what), Reply(c, "bytes")>>
      <4> SUFFICES ASSUME saw[c] = <<Reply(c, what), Reply(c, "bytes")>> PROVE FALSE
        OBVIOUS
      <4>1. 2 \in DOMAIN saw[c] /\ saw[c][2] = Reply(c, "bytes")
        OBVIOUS
      <4> QED
        BY <3>1, <4>1 DEF Reply
    <3> QED
      BY <2>0, <3>2, <3>3 DEF Answer
  <2>2. saw'[c] = Append(saw[c], Reply(c, "bytes"))
    BY <1>0, <1>9 DEF Splice, Show, Reply
  <2>3. CASE saw[c] = << >>
    <3>1. saw'[c] = <<Reply(c, "bytes")>>
      BY <2>2, <2>3
    <3>2. 2..Len(saw'[c]) = {}
      BY <3>1
    <3>3. saw'[c] = <<Reply(c, "bytes")'>>
      BY <2>0, <3>1 DEF Reply
    <3> QED
      BY <1>1, <2>0, <3>2, <3>3 DEF Answer, Unanswered
  <2>4. ASSUME NEW what \in {"ack", "head"}, saw[c] = <<Reply(c, what)>>
        PROVE  Answer(c)'
    <3>1. saw'[c] = <<Reply(c, what), Reply(c, "bytes")>>
      BY <2>2, <2>4, AppendSecond
    <3>2. /\ 2..Len(saw'[c]) = {2} /\ saw'[c][1] = Reply(c, what)
          /\ saw'[c][2] = Reply(c, "bytes")
      BY <3>1
    <3>3. saw'[c] = <<Reply(c, what)', Reply(c, "bytes")'>>
      BY <2>0, <3>1 DEF Reply
    <3>4. \A i \in 2..Len(saw'[c]) :
            /\ saw'[c][1].what \in {"ack", "head"}
            /\ saw'[c][i] = [what |-> "bytes", via |-> saw'[c][1].via]
      BY <3>2 DEF Reply
    <3> QED
      BY <2>0, <3>3, <3>4 DEF Answer, Unanswered
  <2> QED
    BY <1>1, <2>1, <2>3, <2>4
<1>10. CASE Feed(c)
  <2>1. /\ pc' = pc /\ proxy' = proxy /\ saw' = saw /\ pc[c] = "splice"
        /\ fed'[c] = fed[c] \cup {proxy[c]} /\ proxy[c] \in Addr
    BY <1>0, <1>10 DEF Feed, ClientLease, Relaying
  <2> QED
    BY <1>1, <2>1 DEF Answer, Unanswered, Reply
<1>11. CASE SpliceOk(c) \/ SpliceFails(c) \/ Record(c)
  <2>1. /\ saw' = saw /\ fed' = fed
        /\ pc'[c] \notin Unanswered \cup {"splice"}
    BY <1>0, <1>11 DEF SpliceOk, SpliceFails, Record, Relay, Move, Unanswered
  <2> QED
    BY <1>1, <2>1, AnswerOver
<1>12. CASE Return(c)
  <2>1. CASE pc[c] = "failed"
    BY <1>1, <1>12, <2>1, StillUnanswered DEF Return, Unanswered
  <2>2. CASE pc[c] # "failed"
    <3>1. pc'[c] = "done"
      BY <1>0, <1>12, <2>2 DEF Return, Move
    <3> QED
      BY <1>1, <1>12, <3>1, AnswerOver DEF Return, Unanswered
  <2> QED
    BY <2>1, <2>2
<1> QED
  BY <1>2, <1>3, <1>4, <1>5, <1>6, <1>7, <1>8, <1>9, <1>10, <1>11, <1>12
  DEF Handle, Splicing, Status

AnswerInv == \A c \in Client : Answer(c)

LEMMA AnswerNext == LeaseInv /\ AnswerInv /\ [Next]_vars => AnswerInv'
<1> SUFFICES ASSUME LeaseInv, AnswerInv, [Next]_vars PROVE AnswerInv'
  OBVIOUS
<1>1. ASSUME NEW c \in Client, SameAnswer(c) PROVE Answer(c)'
  BY <1>1 DEF AnswerInv, Answer, SameAnswer, Reply
<1>2. CASE UNCHANGED serverVars
  BY <1>1, <1>2 DEF serverVars, SameAnswer, AnswerInv
<1>3. CASE \E c \in Client : Handle(c) \/ Splicing(c)
  BY <1>1, <1>3, AnswerStep DEF AnswerInv
<1> QED
  BY <1>2, <1>3 DEF Next, vars

(***************************************************************************)
(* However many upstreams are tried, a client gets one answer, from the    *)
(* server itself or from one upstream, and its body goes to at most one.   *)
(***************************************************************************)
THEOREM ServingOneAnswer == Spec => []OneAnswer
<1>1. Init => AnswerInv
  <2> SUFFICES ASSUME Init, NEW c \in Client PROVE Answer(c)
    BY DEF AnswerInv
  <2>1. pc[c] = "parse" /\ saw[c] = << >> /\ fed[c] = {}
    BY DEF Init, ServerInit
  <2>2. 2..Len(saw[c]) = {}
    BY <2>1
  <2> QED
    BY <2>1, <2>2 DEF Answer, Unanswered
<1>2. AnswerInv => OneAnswer
  <2> SUFFICES ASSUME AnswerInv, NEW c \in Client PROVE Cardinality(fed[c]) <= 1
    BY DEF AnswerInv, Answer, OneAnswer
  <2>1. PICK a \in Addr \cup {NoAddr} : fed[c] \subseteq {a}
    BY DEF AnswerInv, Answer
  <2>2. IsFiniteSet({a}) /\ Cardinality({a}) = 1
    BY FS_Singleton
  <2> QED
    BY <2>1, <2>2, FS_Subset
<1> QED
  BY <1>1, <1>2, LeaseInit, LeaseNext, AnswerNext, PTL DEF Spec

-----------------------------------------------------------------------------
(* The history and the rotations metric.                                   *)

\* record is called after the splice has ended well.
HistoryInv ==
  /\ IsFiniteSet(Present)
  /\ HistoryTruthful
  /\ \A c \in Client : pc[c] = "record" =>
       <<<<PeerOf[c], req[c].ask.path>>, proxy[c]>> \in served

LEMMA RecordStep ==
  ASSUME LeaseInv, HistoryInv, NEW c \in Client, Record(c)
  PROVE  HistoryInv'
<1> DEFINE k == <<PeerOf[c], req[c].ask.path>>
           clear == Cardinality(Present) >= CAP /\ k \notin Present
           kept == IF clear THEN [j \in Keys |-> NoAddr] ELSE history
<1>0. /\ ServerType /\ pc[c] = "record" /\ history \in [Keys -> Addr \cup {NoAddr}]
      /\ pc \in [Client -> Relaying \cup {"parse", "auth", "control", "draw", "done"}]
  BY DEF LeaseInv, TypeOK, ServerType, Record, Move
<1>1. proxy[c] \in Addr /\ proxy[c] # NoAddr /\ k \in Keys
  BY <1>0, PoolUserAssumption, RequestType DEF LeaseInv, ClientLease, Relaying
<1>2. <<k, proxy[c]>> \in served
  BY <1>0 DEF HistoryInv
<1>3. /\ history' = [kept EXCEPT ![k] = proxy[c]]
      /\ UNCHANGED <<served, req, proxy>>
      /\ pc' = [pc EXCEPT ![c] = "served"]
  BY DEF Record, Move
<1>4. \A x \in Client : pc'[x] = "record" => pc[x] = "record"
  BY <1>0, <1>3
<1>5. CASE clear
  <2>1. history' = [j \in Keys |-> IF j = k THEN proxy[c] ELSE NoAddr]
    BY <1>1, <1>3, <1>5
  <2>2. Present' = {k}
    BY <1>1, <2>1 DEF Present
  <2>3. IsFiniteSet(Present') /\ Cardinality(Present') = 1
    BY <2>2, FS_Singleton
  <2>4. 1 <= CAP
    BY ServerAssumption
  <2> QED
    BY <1>1, <1>2, <1>3, <1>4, <2>1, <2>2, <2>3, <2>4
    DEF HistoryInv, HistoryTruthful
<1>6. CASE ~clear
  <2>1. history' = [history EXCEPT ![k] = proxy[c]]
    BY <1>3, <1>6
  <2> HIDE DEF k, kept
  <2>2. Present' = Present \cup {k}
    BY <1>0, <1>1, <2>1 DEF Present
  <2>3. IsFiniteSet(Present') /\ Cardinality(Present') <= CAP
    <3>1. CASE k \in Present
      <4>1. Present' = Present
        BY <2>2, <3>1
      <4> QED
        BY <4>1 DEF HistoryInv, HistoryTruthful
    <3>2. CASE k \notin Present
      <4>1. Cardinality(Present) \in Nat /\ CAP \in Nat
        BY FS_CardinalityType, ServerAssumption DEF HistoryInv
      <4>2. /\ IsFiniteSet(Present \cup {k})
            /\ Cardinality(Present \cup {k}) = Cardinality(Present) + 1
        BY <3>2, FS_AddElement DEF HistoryInv
      <4> QED
        BY <1>6, <2>2, <3>2, <4>1, <4>2
    <3> QED
      BY <3>1, <3>2
  <2>4. ASSUME NEW j \in Present' PROVE <<j, history'[j]>> \in served'
    <3>1. CASE j = k
      BY <1>0, <1>1, <1>2, <1>3, <2>1, <3>1
    <3>2. CASE j # k
      BY <1>0, <1>3, <2>1, <2>2, <3>2 DEF HistoryInv, HistoryTruthful, Present
    <3> QED
      BY <3>1, <3>2
  <2> QED
    BY <1>3, <1>4, <2>3, <2>4 DEF HistoryInv, HistoryTruthful
<1> QED
  BY <1>5, <1>6

LEMMA SpliceOkStep ==
  ASSUME LeaseInv, HistoryInv, NEW c \in Client, SpliceOk(c)
  PROVE  HistoryInv'
<1>1. /\ served \subseteq served' /\ Present' = Present
      /\ UNCHANGED <<history, req, proxy>>
      /\ <<<<PeerOf[c], req[c].ask.path>>, proxy[c]>> \in served'
  BY DEF SpliceOk, Present
<1>2. \A x \in Client \ {c} : pc'[x] = pc[x]
  BY DEF SpliceOk, Move, LeaseInv, TypeOK, ServerType
<1> QED
  BY <1>1, <1>2 DEF HistoryInv, HistoryTruthful

LEMMA HistoryNext == LeaseInv /\ HistoryInv /\ [Next]_vars => HistoryInv'
<1> SUFFICES ASSUME LeaseInv, HistoryInv, [Next]_vars PROVE HistoryInv'
  OBVIOUS
<1>1. ASSUME UNCHANGED <<history, served>>,
             \A c \in Client : pc'[c] = "record" =>
               pc[c] = "record" /\ req'[c] = req[c] /\ proxy'[c] = proxy[c]
      PROVE  HistoryInv'
  BY <1>1 DEF HistoryInv, HistoryTruthful, Present
<1>2. CASE UNCHANGED serverVars
  BY <1>1, <1>2 DEF serverVars
<1>3. ASSUME NEW c \in Client, Handle(c) \/ Splicing(c) PROVE HistoryInv'
  <2>0. /\ pc \in [Client -> Relaying \cup {"parse", "auth", "control", "draw", "done"}]
        /\ proxy \in [Client -> Addr \cup {NoAddr}]
    BY DEF LeaseInv, TypeOK, ServerType
  <2>1. CASE Record(c)
    BY <2>1, RecordStep
  <2>2. CASE SpliceOk(c)
    BY <2>2, SpliceOkStep
  <2>3. CASE Parse(c) \/ Admit(c) \/ serve_control(c) \/ GiveUp(c) \/ Return(c)
    BY <1>1, <2>0, <2>3 DEF Parse, Admit, serve_control, GiveUp, Return, Move
  <2>4. CASE \E a \in Addr : Draw(c, a)
    BY <1>1, <2>0, <2>4 DEF Draw, Move
  <2>5. CASE Connect(c) \/ Ack(c) \/ Forward(c) \/ Status(c) \/ SpliceFails(c)
    BY <1>1, <2>0, <2>5 DEF Connect, Ack, Forward, Status, SpliceFails, Write, Relay,
       Move
  <2>6. CASE Splice(c) \/ Feed(c)
    BY <1>1, <2>6 DEF Splice, Feed
  <2> QED
    BY <1>3, <2>1, <2>2, <2>3, <2>4, <2>5, <2>6 DEF Handle, Splicing
<1> QED
  BY <1>2, <1>3 DEF Next, vars

(***************************************************************************)
(* The history names, for a client and a target, an upstream that really   *)
(* completed such a request, and never exceeds its cap.                    *)
(***************************************************************************)
THEOREM ServingHistoryTruthful == Spec => []HistoryTruthful
<1>1. Init => HistoryInv
  <2> SUFFICES ASSUME Init PROVE HistoryInv
    OBVIOUS
  <2>1. Present = {}
    BY DEF Init, ServerInit, Present
  <2>2. IsFiniteSet(Present) /\ Cardinality(Present) = 0
    BY <2>1, FS_EmptySet
  <2>3. \A c \in Client : pc[c] # "record"
    BY DEF Init, ServerInit
  <2>4. 0 <= CAP
    BY ServerAssumption
  <2> QED
    BY <2>1, <2>2, <2>3, <2>4 DEF HistoryInv, HistoryTruthful
<1>2. HistoryInv => HistoryTruthful
  BY DEF HistoryInv
<1> QED
  BY <1>1, <1>2, LeaseInit, LeaseNext, HistoryNext, PTL DEF Spec

\* The draws beyond the first, of every request.
Retried == {ci \in Client \X (2..MaxTries) : ci[2] <= attempt[ci[1]]}

RotationInv == IsFiniteSet(Retried) /\ rotations = Cardinality(Retried)

LEMMA DrawRotation ==
  ASSUME LeaseInv, RotationInv, NEW c \in Client, NEW a \in Addr, Draw(c, a)
  PROVE  RotationInv'
<1>0. attempt \in [Client -> Nat] /\ attempt[c] \in Nat /\ MaxTries \in Nat
  BY ServerAssumption DEF LeaseInv, TypeOK, ServerType
<1>1. /\ attempt[c] < MaxTries /\ attempt' = [attempt EXCEPT ![c] = @ + 1]
      /\ rotations' = IF attempt[c] > 0 THEN rotations + 1 ELSE rotations
  BY DEF Draw
<1> DEFINE n == attempt[c] + 1
<1>2. \A x \in Client : attempt'[x] = IF x = c THEN n ELSE attempt[x]
  BY <1>0, <1>1
<1>3. CASE attempt[c] = 0
  <2>1. ASSUME NEW x \in Client, NEW i \in 2..MaxTries
        PROVE  i <= attempt'[x] <=> i <= attempt[x]
    BY <1>0, <1>2, <1>3
  <2>2. Retried' = Retried
    BY <2>1 DEF Retried
  <2> QED
    BY <1>1, <1>3, <2>2 DEF RotationInv
<1>4. CASE attempt[c] > 0
  <2>1. ASSUME NEW x \in Client, NEW i \in 2..MaxTries
        PROVE  i <= attempt'[x] <=> (i <= attempt[x] \/ <<x, i>> = <<c, n>>)
    BY <1>0, <1>2
  <2>2. n \in 2..MaxTries /\ ~(n <= attempt[c])
    BY <1>0, <1>1, <1>4
  <2> HIDE DEF n
  <2>3. <<c, n>> \in Client \X (2..MaxTries)
    BY <2>2
  <2>4. Retried' = Retried \cup {<<c, n>>}
    BY <2>1, <2>3 DEF Retried
  <2>5. <<c, n>> \notin Retried
    BY <2>2 DEF Retried
  <2>6. /\ IsFiniteSet(Retried \cup {<<c, n>>})
        /\ Cardinality(Retried \cup {<<c, n>>}) = Cardinality(Retried) + 1
    BY <2>5, FS_AddElement DEF RotationInv
  <2> QED
    BY <1>1, <1>4, <2>4, <2>6 DEF RotationInv
<1> QED
  BY <1>0, <1>3, <1>4

LEMMA RotationNext == LeaseInv /\ RotationInv /\ [Next]_vars => RotationInv'
<1> SUFFICES ASSUME LeaseInv, RotationInv, [Next]_vars PROVE RotationInv'
  OBVIOUS
<1>1. ASSUME UNCHANGED <<attempt, rotations>> PROVE RotationInv'
  BY <1>1 DEF RotationInv, Retried
<1>2. CASE UNCHANGED serverVars
  BY <1>1, <1>2 DEF serverVars
<1>3. ASSUME NEW c \in Client, Handle(c) PROVE RotationInv'
  <2>1. CASE \E a \in Addr : Draw(c, a)
    BY <2>1, DrawRotation
  <2>2. CASE ~\E a \in Addr : Draw(c, a)
    BY <1>1, <1>3, <2>2 DEF Handle, Parse, Admit, serve_control, GiveUp, Connect, Ack,
       Forward, Status, Write, Relay, Record, Return
  <2> QED
    BY <2>1, <2>2
<1>4. ASSUME NEW c \in Client, Splicing(c) PROVE RotationInv'
  BY <1>1, <1>4 DEF Splicing, Splice, Feed, SpliceOk, SpliceFails, Relay
<1> QED
  BY <1>2, <1>3, <1>4 DEF Next, vars

(***************************************************************************)
(* The rotations metric never exceeds the draws beyond each request's      *)
(* first, with any number of clients retrying at once.                     *)
(***************************************************************************)
THEOREM ServingRotations == Spec => []RotationsNotOvercounted
<1>1. Init => RotationInv
  <2> SUFFICES ASSUME Init PROVE RotationInv
    OBVIOUS
  <2>1. rotations = 0 /\ \A c \in Client : attempt[c] = 0
    BY DEF Init, ServerInit
  <2>2. Retried = {}
    BY <2>1, ServerAssumption DEF Retried
  <2> QED
    BY <2>1, <2>2, FS_EmptySet DEF RotationInv
<1>2. RotationInv => RotationsNotOvercounted
  BY FS_CardinalityType DEF RotationInv, RotationsNotOvercounted, Retried
<1> QED
  BY <1>1, <1>2, LeaseInit, LeaseNext, RotationNext, PTL DEF Spec
============================================================================
