------------------------------- MODULE Server -------------------------------
(***************************************************************************)
(* The local proxy server (server.rs, handle_client and relay): one task   *)
(* per client parses a request, checks its credentials, answers it itself  *)
(* (proxycontrol) or relays it, trying up to MaxTries upstreams until one  *)
(* attempt has shown the client something.                                 *)
(*                                                                         *)
(*   parse -> auth -> control -> done                                      *)
(*              |                                                          *)
(*              +-> draw -> connect -> ack | forward -> [status] -> splice *)
(*                   ^                                                |    *)
(*                   +--- failed (nothing shown) ---+                 |    *)
(*                                                                    |    *)
(*          done <- gone | committed | record -> served  <------------+    *)
(*                                                                         *)
(* What flows through a tunnel is abstracted to who saw something from     *)
(* whom: saw[c] is what the client was sent, fed[c] where its body went.   *)
(***************************************************************************)
EXTENDS PoolUser

CONSTANTS
  Client,     \* the connections accepted
  PeerOf,     \* PeerOf[c]: the client's IP address
  Path,       \* request targets
  Asked,      \* Asked[c]: the requests that c may make
  Auth,       \* TRUE: the server expects credentials
  MaxTries,   \* PoolConfig::max_tries
  CAP         \* History::CAP

Frontends == {"HttpForward", "HttpConnect", "Socks5"}

\* What a request asks for: a target, or one of the proxycontrol operations.
Asks == [op : {"fetch", "history"}, path : Path]
          \cup [op : {"remove"}, addr : Addr] \cup [op : {"other"}]

\* Only a forwarded request can have a body the relay knows of.
Requests == [front : Frontends, creds : BOOLEAN, body : BOOLEAN, ask : Asks]

ASSUME ServerAssumption ==
  /\ Client \subseteq User
  /\ PeerOf \in [Client -> {PeerOf[c] : c \in Client}]
  /\ Asked \in [Client -> SUBSET Requests]
  /\ \A c \in Client : \A r \in Asked[c] : r.body => r.front = "HttpForward"
  /\ Auth \in BOOLEAN
  /\ MaxTries \in Nat /\ CAP \in Nat \ {0}

VARIABLES
  pc,        \* pc[c]: where the handler of c is
  req,       \* req[c]: the parsed request
  attempt,   \* attempt[c]: the upstreams drawn so far
  proxy,     \* proxy[c]: the upstream in use
  proto,     \* proto[c]: the protocol chosen for it
  saw,       \* saw[c]: what the client was sent, and through whom
  fed,       \* fed[c]: the upstreams that took bytes of the client's body
  history,   \* History::map, NoAddr where a key is absent
  rotations, \* Pool::rotations
  served     \* history: who completed which request target for which peer

serverVars == <<pc, req, attempt, proxy, proto, saw, fed, history, rotations,
                served>>

Keys == {PeerOf[c] : c \in Client} \X Path

\* The steps during which the handler has a proxy checked out.
Relaying == {"connect", "ack", "forward", "status", "splice", "failed",
             "committed", "gone", "record", "served"}

Replies == [what : {"ack", "head", "bytes", "failure", "407", "reject", "control"},
            via : Addr \cup {NoAddr}]

ServerType ==
  /\ pc \in [Client -> Relaying \cup {"parse", "auth", "control", "draw", "done"}]
  /\ req \in [Client -> Requests]
  /\ attempt \in [Client -> Nat] /\ rotations \in Nat
  /\ proxy \in [Client -> Addr \cup {NoAddr}]
  /\ proto \in [Client -> Proto]
  /\ saw \in [Client -> Seq(Replies)]
  /\ fed \in [Client -> SUBSET Addr]
  /\ history \in [Keys -> Addr \cup {NoAddr}]
  /\ served \subseteq Keys \X Addr

ServerInit ==
  /\ pc = [c \in Client |-> "parse"]
  /\ req \in [Client -> Requests] /\ \A c \in Client : req[c] \in Asked[c]
  /\ attempt = [c \in Client |-> 0] /\ rotations = 0
  /\ proxy = [c \in Client |-> NoAddr]
  /\ proto = [c \in Client |-> "Http"]
  /\ saw = [c \in Client |-> << >>]
  /\ fed = [c \in Client |-> {}]
  /\ history = [k \in Keys |-> NoAddr]
  /\ served = {}

-----------------------------------------------------------------------------
Move(c, from, to) == pc[c] \in from /\ pc' = [pc EXCEPT ![c] = to]

Show(c, what, via) ==
  saw' = [saw EXCEPT ![c] = Append(@, [what |-> what, via |-> via])]

Tunnel(c) == req[c].front # "HttpForward"

\* parse_client_request: a request that does not arrive, in time or at all,
\* ends the task; a SOCKS5 client is rejected here for its credentials, its
\* methods, its command or its kind of address.
Parse(c) ==
  /\ \/ Move(c, {"parse"}, "done") /\ UNCHANGED saw
     \/ /\ req[c].front = "Socks5"
        /\ Move(c, {"parse"}, "done")
        /\ Show(c, "reject", NoAddr)
     \/ /\ ~(req[c].front = "Socks5" /\ Auth /\ ~req[c].creds)
        /\ Move(c, {"parse"}, "auth") /\ UNCHANGED saw
  /\ UNCHANGED <<owner, req, attempt, proxy, proto, fed, history, rotations,
                 served>>

\* Credentials first, then proxycontrol, then the relay.
Admit(c) ==
  /\ \/ /\ req[c].front # "Socks5" /\ Auth /\ ~req[c].creds
        /\ Move(c, {"auth"}, "done")
        /\ Show(c, "407", NoAddr)
     \/ /\ ~(req[c].front # "Socks5" /\ Auth /\ ~req[c].creds)
        /\ Move(c, {"auth"}, IF req[c].ask.op = "fetch" THEN "draw"
                                                        ELSE "control")
        /\ UNCHANGED saw
  /\ UNCHANGED <<owner, req, attempt, proxy, proto, fed, history, rotations,
                 served>>

\* serve_control: remove a pooled proxy, look up the history, or nothing.
serve_control(c) ==
  LET ask == req[c].ask
      found == IF ask.op = "history" THEN history[<<PeerOf[c], ask.path>>]
                                     ELSE NoAddr
  IN  /\ Move(c, {"control"}, "done")
      /\ Show(c, "control", found)
      /\ IF ask.op = "remove" THEN remove(ask.addr) ELSE UNCHANGED owner
      /\ UNCHANGED <<req, attempt, proxy, proto, fed, history, rotations, served>>

-----------------------------------------------------------------------------
choose_proto(a, s) ==
  IF s = "https"
  THEN First(<<"Https", "Socks5", "Socks4", "Connect80">>, a, "Https")
  ELSE First(<<"Http", "Connect80", "Socks5", "Socks4">>, a, "Http")

\* Mutant: the protocol of the check is used as it is.
relay_negotiation_proto_Same(p, front) == p

\* A tunnelling client brings its own TLS: it gets a raw CONNECT instead.
relay_negotiation_proto(p, front) ==
  IF p = "Https" /\ front \in {"HttpConnect", "Socks5"} THEN "Connect80" ELSE p

SchemeOf(c) == IF Tunnel(c) THEN "https" ELSE "http"

\* Mutant: the first upstream counts as a rotation, too.
Draw_Rotates(c, a) ==
  /\ attempt[c] < MaxTries
  /\ Move(c, {"draw"}, "connect")
  /\ get(c, SchemeOf(c), a)
  /\ attempt' = [attempt EXCEPT ![c] = @ + 1]
  /\ rotations' = rotations + 1
  /\ proxy' = [proxy EXCEPT ![c] = a]
  /\ proto' = [proto EXCEPT ![c] = choose_proto(a, SchemeOf(c))]
  /\ UNCHANGED <<req, saw, fed, history, served>>

\* Mutant: a try is not counted.
Draw_Uncounted(c, a) ==
  /\ attempt[c] < MaxTries
  /\ Move(c, {"draw"}, "connect")
  /\ get(c, SchemeOf(c), a)
  /\ rotations' = IF attempt[c] > 0 THEN rotations + 1 ELSE rotations
  /\ proxy' = [proxy EXCEPT ![c] = a]
  /\ proto' = [proto EXCEPT ![c] = choose_proto(a, SchemeOf(c))]
  /\ UNCHANGED <<req, attempt, saw, fed, history, served>>

\* The next upstream; from the second on it counts as a rotation, also when
\* get returns the one that has just failed.
Draw(c, a) ==
  /\ attempt[c] < MaxTries
  /\ Move(c, {"draw"}, "connect")
  /\ get(c, SchemeOf(c), a)
  /\ attempt' = [attempt EXCEPT ![c] = @ + 1]
  /\ rotations' = IF attempt[c] > 0 THEN rotations + 1 ELSE rotations
  /\ proxy' = [proxy EXCEPT ![c] = a]
  /\ proto' = [proto EXCEPT ![c] = choose_proto(a, SchemeOf(c))]
  /\ UNCHANGED <<req, saw, fed, history, served>>

\* get answered None, or the tries are used up: say so, once.
GiveUp(c) ==
  /\ Move(c, {"draw"}, "done")
  /\ Show(c, "failure", NoAddr)
  /\ UNCHANGED <<owner, req, attempt, proxy, proto, fed, history, rotations,
                 served>>

\* The steps of relay: each one goes on, fails, or finds the client gone.
Relay(c, from, to) ==
  /\ Move(c, {from}, to)
  /\ UNCHANGED <<owner, req, attempt, proxy, proto, fed, history, rotations,
                 served>>

\* TCP connect and handshake, each under the timeout.
Connect(c) ==
  /\ \/ Relay(c, "connect", "failed")
     \/ Relay(c, "connect", IF Tunnel(c) THEN "ack" ELSE "forward")
  /\ UNCHANGED saw

\* What is written to the client arrives, or the client is gone, having seen
\* it or not.
Write(c, from, what) ==
  \/ Relay(c, from, "splice") /\ Show(c, what, proxy[c])
  \/ Relay(c, from, "gone") /\ (UNCHANGED saw \/ Show(c, what, proxy[c]))

\* Acknowledging the tunnel is its commit point.
Ack(c) == Write(c, "ack", "ack")

\* Mutant: a request is recorded once it is forwarded.
Forward_Records(c) ==
  /\ \/ Relay(c, "forward", "failed")
     \/ Relay(c, "forward", IF req[c].body THEN "record" ELSE "status")
  /\ UNCHANGED saw

\* A request with a body goes straight to the splice: the origin would not
\* answer before it has the body.
Forward(c) ==
  /\ \/ Relay(c, "forward", "failed")
     \/ Relay(c, "forward", IF req[c].body THEN "splice" ELSE "status")
  /\ UNCHANGED saw

\* The status line: unread or disallowed it is a failure, else it is shown.
Status(c) ==
  \/ Relay(c, "status", "failed") /\ UNCHANGED saw
  \/ Write(c, "status", "head")

\* Bytes flow to the client.  One step stands for all.
Splice(c) ==
  /\ pc[c] = "splice"
  /\ \A i \in DOMAIN saw[c] : saw[c][i].what # "bytes"
  /\ Show(c, "bytes", proxy[c])
  /\ UNCHANGED <<owner, pc, req, attempt, proxy, proto, fed, history, rotations,
                 served>>

\* The body of the client's request flows to the upstream.
Feed(c) ==
  /\ pc[c] = "splice"
  /\ req[c].body
  /\ fed' = [fed EXCEPT ![c] = @ \cup {proxy[c]}]
  /\ UNCHANGED <<owner, pc, req, attempt, proxy, proto, saw, history, rotations,
                 served>>

\* Both sides reach their end.
SpliceOk(c) ==
  /\ Move(c, {"splice"}, "record")
  /\ served' = served \cup {<<<<PeerOf[c], req[c].ask.path>>, proxy[c]>>}
  /\ UNCHANGED <<owner, req, attempt, proxy, proto, saw, fed, history, rotations>>

\* Mutant: a broken splice is tried again elsewhere.
SpliceFails_Retries(c) == Relay(c, "splice", "failed") /\ UNCHANGED saw

SpliceFails(c) == Relay(c, "splice", "committed") /\ UNCHANGED saw

-----------------------------------------------------------------------------
Present == {k \in Keys : history[k] # NoAddr}

\* History::record: at its cap a new key clears the whole map.
Record(c) ==
  LET k == <<PeerOf[c], req[c].ask.path>>
      kept == IF Cardinality(Present) >= CAP /\ k \notin Present
              THEN [j \in Keys |-> NoAddr] ELSE history
  IN  /\ Move(c, {"record"}, "served")
      /\ history' = [kept EXCEPT ![k] = proxy[c]]
      /\ UNCHANGED <<owner, req, attempt, proxy, proto, saw, fed, rotations,
                     served>>

\* Mutant: a proxy that failed is dropped with the next draw.
Return_NotAfterFailure(c) ==
  /\ Move(c, {"failed", "committed", "gone", "served"},
          IF pc[c] = "failed" THEN "draw" ELSE "done")
  /\ IF pc[c] = "failed" THEN UNCHANGED owner ELSE put(proxy[c])
  /\ proxy' = [proxy EXCEPT ![c] = NoAddr]
  /\ proto' = [proto EXCEPT ![c] = "Http"]
  /\ UNCHANGED <<req, attempt, saw, fed, history, rotations, served>>

\* Mutant: nobody returns the proxy when the client is gone.
Return_NotWhenGone(c) ==
  /\ Move(c, {"failed", "committed", "gone", "served"},
          IF pc[c] = "failed" THEN "draw" ELSE "done")
  /\ IF pc[c] = "gone" THEN UNCHANGED owner ELSE put(proxy[c])
  /\ proxy' = [proxy EXCEPT ![c] = NoAddr]
  /\ proto' = [proto EXCEPT ![c] = "Http"]
  /\ UNCHANGED <<req, attempt, saw, fed, history, rotations, served>>

\* The proxy goes back, whatever happened; only a failure that the client
\* has not seen is tried again.
Return(c) ==
  /\ Move(c, {"failed", "committed", "gone", "served"},
          IF pc[c] = "failed" THEN "draw" ELSE "done")
  /\ put(proxy[c])
  /\ proxy' = [proxy EXCEPT ![c] = NoAddr]
  /\ proto' = [proto EXCEPT ![c] = "Http"]
  /\ UNCHANGED <<req, attempt, saw, fed, history, rotations, served>>
=============================================================================
