------------------------------ MODULE Serving -------------------------------
(***************************************************************************)
(* The server's clients and the connector's futures over one pool.         *)
(***************************************************************************)
EXTENDS Server, Connector

\* A client's handler and a connect future are different tasks.
ASSUME ServingAssumption == Client \cap Dialer = {}

vars == <<owner, serverVars, connectorVars>>

TypeOK == PoolType /\ ServerType /\ ConnectorType

Init == PoolInit /\ ServerInit /\ ConnectorInit

\* The handler's own steps, up to the splice.
Handle(c) ==
  \/ Parse(c) \/ Admit(c) \/ serve_control(c)
  \/ (\E a \in Addr : Draw(c, a)) \/ GiveUp(c)
  \/ Connect(c) \/ Ack(c) \/ Forward(c) \/ Status(c)
  \/ Record(c) \/ Return(c)

\* What the two ends of a splice do.
Splicing(c) == Splice(c) \/ Feed(c) \/ SpliceOk(c) \/ SpliceFails(c)

Dial(d) ==
  (\E a \in Addr : Checkout(d, a)) \/ Fails(d) \/ dial(d) \/ GiveBack(d)

Next ==
  \/ (\E a \in Addr : deliver(a)) /\ UNCHANGED <<serverVars, connectorVars>>
  \/ (\E c \in Client : Handle(c) \/ Splicing(c)) /\ UNCHANGED connectorVars
  \/ (\E d \in Dialer : Dial(d) \/ Dropped(d)) /\ UNCHANGED serverVars

Spec == Init /\ [][Next]_vars

(***************************************************************************)
(* A handler that can run does; its reads, dials and handshakes are under  *)
(* timeouts, and get answers once the source has ended (Pool!GetReturns).  *)
(* A splice lasts as long as its two ends like, and nothing is assumed of  *)
(* the futures beside it.                                                  *)
(***************************************************************************)
FairSpec ==
  /\ Spec
  /\ \A c \in Client : WF_vars(Handle(c) /\ UNCHANGED connectorVars)

-----------------------------------------------------------------------------
(***************************************************************************)
(* The commit boundary of relay.  Whatever fails, and however often it is  *)
(* retried, a client sees one answer: a reply of the server itself and     *)
(* nothing else, or what one single upstream sent it.  In particular no    *)
(* second ack and no 502 follow an ack, a status line or relayed bytes.    *)
(* And the body of a request, which is read from the client once and       *)
(* cannot be replayed, goes into at most one upstream.                     *)
(***************************************************************************)
OneAnswer ==
  \A c \in Client :
    /\ \A i \in 2..Len(saw[c]) :
         /\ saw[c][1].what \in {"ack", "head"}
         /\ saw[c][i] = [what |-> "bytes", via |-> saw[c][1].via]
    /\ Cardinality(fed[c]) <= 1

(***************************************************************************)
(* Every way out of handle_client and connect gives the proxy back: a task *)
(* that is done, or about to draw again, holds nothing.  (The types come   *)
(* first: owner maps each address to the pool or to one of its users.)     *)
(***************************************************************************)
NoLeaseLeft ==
  /\ TypeOK
  /\ \A a \in Addr :
       /\ \A c \in Client : owner[a] = c => pc[c] \in Relaying /\ proxy[c] = a
       /\ \A d \in Dialer :
            owner[a] = d => dpc[d] \notin {"draw", "done"} /\ via[d] = a

(***************************************************************************)
(* The history tells the truth.  What proxycontrol reports for a client    *)
(* and a request target is an upstream that did complete such a request,   *)
(* never one that failed, and the map stays within its cap.                *)
(***************************************************************************)
HistoryTruthful ==
  /\ \A k \in Present : <<k, history[k]>> \in served
  /\ Cardinality(Present) <= CAP

(***************************************************************************)
(* The rotations metric is never too high.  A request can have rotated only *)
(* as often as it drew an upstream after a failed one: neither its first    *)
(* upstream counts, nor the failure that ends in a 502, nor a get that      *)
(* answers None, with any number of clients retrying at once.               *)
(***************************************************************************)
RotationsNotOvercounted ==
  rotations <=
    Cardinality({ci \in Client \X (2..MaxTries) : ci[2] <= attempt[ci[1]]})

(***************************************************************************)
(* End-to-end TLS.  The tunnel of a CONNECT or SOCKS5 client, and the      *)
(* stream the connector returns for an https URI, is never negotiated with *)
(* the protocol that ends TLS itself; and the protocol picked for a proxy  *)
(* that get returned is one its check confirmed, not the fallback.         *)
(***************************************************************************)
OpaqueTunnels ==
  /\ \A c \in Client : pc[c] \in {"ack", "splice"} =>
       /\ proto[c] \in Types[proxy[c]]
       /\ Tunnel(c) => relay_negotiation_proto(proto[c], req[c].front) # "Https"
  /\ \A d \in Dialer : conn[d] # NoConn =>
       /\ conn[d].proto \in Types[conn[d].via] \ {"Https", "Connect25"}
       /\ conn[d].proto = "Http" => dreq[d] = "http"

(***************************************************************************)
(* A client is not left waiting: its request is answered, or reaches an    *)
(* upstream's splice, after at most MaxTries failures.                     *)
(***************************************************************************)
Answered ==
  \A c \in Client : pc[c] = "auth" ~> pc[c] \in {"splice", "done"}
=============================================================================
