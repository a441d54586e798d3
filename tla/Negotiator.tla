----------------------------- MODULE Negotiator -----------------------------
(***************************************************************************)
(* One connection through a proxy as the checker makes it: the dial, the    *)
(* handshake of the protocol (negotiator.rs) and the test request           *)
(* (checker.rs, attempt).  Every step is one network wait with a deadline   *)
(* of its own; a step either passes or ends the attempt with one of the     *)
(* errors its code can return.  The bytes exchanged are left out.           *)
(***************************************************************************)
EXTENDS Vocabulary

\* CONNECT: the request is written, then the head is read up to its blank
\* line and its status must be 200.
http_connect == <<"connect_write", "read_head">>

\* The handshake of each protocol, as the steps it waits in.
negotiate(p) ==
  CASE p = "Http"      -> <<>>
    [] p = "Socks4"    -> <<"socks4">>
    [] p = "Socks5"    -> <<"socks5">>
    [] p = "Connect80" -> http_connect
    [] p = "Connect25" -> http_connect \o <<"smtp_banner">>
    [] p = "Https"     -> http_connect \o <<"tls">>

\* The steps of one attempt.  A granted CONNECT:25 tunnel is the whole check.
attempt(p) ==
  <<"dial">> \o negotiate(p)
  \o (IF p = "Connect25" THEN <<>> ELSE <<"request", "read_response">>)

\* What a step can fail with, for a target whose address has family ip.
\* SOCKS4 cannot name an IPv6 target, so there its step always fails.
StepErrors(step, ip) ==
  CASE step = "dial"          -> {"Timeout", "ConnFailed"}
    [] step = "connect_write" -> {"Timeout", "Reset"}
    [] step = "read_head"     -> {"Timeout", "Reset", "EmptyRecv",
                                  "BadResponse", "BadStatus"}
    [] step = "smtp_banner"   -> {"Timeout", "Reset", "BadStatus"}
    [] step = "tls"           -> {"Timeout", "BadResponse"}
    [] step = "socks4"        -> IF ip = "v4" THEN {"Timeout", "BadResponse"}
                                              ELSE {"BadResponse"}
    [] step = "socks5"        -> {"Timeout", "BadResponse"}
    [] step = "request"       -> {"Timeout", "Reset"}
    [] step = "read_response" -> {"Timeout", "Reset", "EmptyRecv",
                                  "BadStatus"}

StepCanPass(step, ip) == step = "socks4" => ip = "v4"
=============================================================================
