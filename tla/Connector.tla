----------------------------- MODULE Connector ------------------------------
(***************************************************************************)
(* The rotating connector (connector.rs, connect): a future that draws a   *)
(* proxy, dials through it, and hands the tunnel over; it retries up to    *)
(* ConnTries times, and its caller may drop it at any await.               *)
(***************************************************************************)
EXTENDS PoolUser

CONSTANTS
  Dialer,    \* the connect futures
  ConnTries  \* RotateConfig::max_tries

ASSUME ConnectorAssumption == Dialer \subseteq User /\ ConnTries \in Nat

VARIABLES
  dpc,    \* dpc[d]: draw, dial, failed, untouched, ok or done
  dreq,   \* dreq[d]: the scheme of the URI
  tries,  \* tries[d]: the checkouts made
  via,    \* via[d]: the proxy in use
  conn    \* conn[d]: the proxy and protocol of the tunnel handed over

connectorVars == <<dpc, dreq, tries, via, conn>>

NoConn == [via |-> NoAddr, proto |-> "Http"]

ConnectorType ==
  /\ dpc \in [Dialer -> {"draw", "dial", "failed", "untouched", "ok", "done"}]
  /\ dreq \in [Dialer -> Scheme]
  /\ tries \in [Dialer -> Nat]
  /\ via \in [Dialer -> Addr \cup {NoAddr}]
  /\ conn \in [Dialer -> [via : Addr \cup {NoAddr}, proto : Proto]]

ConnectorInit ==
  /\ dpc = [d \in Dialer |-> "draw"]
  /\ dreq \in [Dialer -> Scheme]
  /\ tries = [d \in Dialer |-> 0]
  /\ via = [d \in Dialer |-> NoAddr]
  /\ conn = [d \in Dialer |-> NoConn]

\* Check out a proxy; one without a raw tunnel goes back untouched.
Checkout(d, a) ==
  /\ dpc[d] = "draw"
  /\ tries[d] < ConnTries
  /\ get(d, dreq[d], a)
  /\ tries' = [tries EXCEPT ![d] = @ + 1]
  /\ via' = [via EXCEPT ![d] = a]
  /\ dpc' = [dpc EXCEPT ![d] = IF tunnel_proto(a, dreq[d]) = NoTunnel
                               THEN "untouched" ELSE "dial"]
  /\ UNCHANGED <<dreq, conn>>

\* get answered None, or the tries are used up: the future is an error.
Fails(d) ==
  /\ dpc[d] = "draw"
  /\ dpc' = [dpc EXCEPT ![d] = "done"]
  /\ UNCHANGED <<owner, dreq, tries, via, conn>>

\* dial: connect and negotiate under the timeout.
dial(d) ==
  /\ dpc[d] = "dial"
  /\ \E to \in {"ok", "failed"} : dpc' = [dpc EXCEPT ![d] = to]
  /\ UNCHANGED <<owner, dreq, tries, via, conn>>

\* The proxy goes back before the tunnel through it is handed over.
GiveBack(d) ==
  /\ dpc[d] \in {"ok", "failed", "untouched"}
  /\ put(via[d])
  /\ via' = [via EXCEPT ![d] = NoAddr]
  /\ \/ /\ dpc[d] = "ok"
        /\ conn' = [conn EXCEPT ![d] =
                      [via |-> via[d],
                       proto |-> tunnel_proto(via[d], dreq[d])]]
        /\ dpc' = [dpc EXCEPT ![d] = "done"]
     \/ /\ dpc[d] # "ok"
        /\ dpc' = [dpc EXCEPT ![d] = "draw"]
        /\ UNCHANGED conn
  /\ UNCHANGED <<dreq, tries>>

\* The future is dropped while it waits for a proxy or dials: what it holds
\* is gone.
Dropped(d) ==
  /\ dpc[d] \in {"draw", "dial"}
  /\ dpc' = [dpc EXCEPT ![d] = "done"]
  /\ owner' = [a \in Addr |-> IF owner[a] = d THEN "gone" ELSE owner[a]]
  /\ via' = [via EXCEPT ![d] = NoAddr]
  /\ UNCHANGED <<dreq, tries, conn>>
=============================================================================
