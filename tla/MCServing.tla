----------------------------- MODULE MCServing ------------------------------
(***************************************************************************)
(* A small instance of Serving: two clients of one address, one dialer.    *)
(***************************************************************************)
EXTENDS Serving

CONSTANTS a1, a2, c1, c2, d1, ip, url1, url2

\* a1 offers no raw tunnel to an https target, a2 does.
MCTypes == [a \in Addr |-> IF a = a1 THEN {"Http", "Https"}
                           ELSE {"Https", "Socks5", "Connect80"}]

MCEwma == [a \in Addr |-> 100]

MCStats == [a \in Addr |-> [reqs |-> 0, errs |-> 0, rsum |-> 0, rn |-> 0]]

MCPeerOf == [c \in Client |-> ip]

Fetch(front, creds, body, path) ==
  [front |-> front, creds |-> creds, body |-> body,
   ask |-> [op |-> "fetch", path |-> path]]

Control(creds, ask) ==
  [front |-> "HttpForward", creds |-> creds, body |-> FALSE, ask |-> ask]

\* c1 fetches, c2 fetches or talks to proxycontrol, with credentials or not.
MCAsked ==
  [c \in Client |->
     IF c = c1
     THEN {Fetch("HttpForward", TRUE, TRUE, url2), Fetch("HttpConnect", TRUE, FALSE, url1),
           Fetch("Socks5", FALSE, FALSE, url1)}
     ELSE {Fetch("HttpForward", TRUE, FALSE, url1),
           Control(FALSE, [op |-> "remove", addr |-> a2]),
           Control(TRUE, [op |-> "remove", addr |-> a2]),
           Control(TRUE, [op |-> "history", path |-> url2]),
           Control(TRUE, [op |-> "other"])}]
=============================================================================
