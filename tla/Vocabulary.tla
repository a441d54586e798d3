----------------------------- MODULE Vocabulary -----------------------------
(***************************************************************************)
(* The shared vocabulary of types.rs and error.rs: the closed sets every    *)
(* other module speaks in, and the routing facts attached to a protocol.    *)
(***************************************************************************)
EXTENDS Sequences

Proto == {"Http", "Https", "Socks4", "Socks5", "Connect80", "Connect25"}

\* The order in which a check walks the protocols; never a hash map's order.
ALL == <<"Http", "Https", "Socks4", "Socks5", "Connect80", "Connect25">>

Scheme == {"http", "https"}

JudgeScheme == {"http", "https", "smtp"}

AnonLevel == {"Transparent", "Anonymous", "High"}

\* What one failed attempt is filed under.
ProxyError == {"ConnFailed", "Timeout", "Reset", "EmptyRecv", "BadStatus",
               "BadResponse", "ErrorOnStream", "DisallowedStatus", "Resolve"}

\* Only HTTP shows the judge the headers that anonymity is read from.
checks_anon_level(p) == p = "Http"

\* Which flavour of judge validates the protocol.
judge_scheme(p) ==
  CASE p = "Https"     -> "https"
    [] p = "Connect25" -> "smtp"
    [] OTHER           -> "http"
=============================================================================
