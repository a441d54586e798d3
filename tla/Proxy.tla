------------------------------- MODULE Proxy -------------------------------
(***************************************************************************)
(* The value type proxy.rs keeps for one upstream proxy, reduced to what   *)
(* the pool, the server and the connector tell apart: its address, and the *)
(* statistics that rank it and evict it.  What never changes while a proxy *)
(* circulates (the protocols its check confirmed, its country, the success *)
(* average restored from a store) is a constant function of the address.   *)
(*                                                                         *)
(* Rates and times are kept in hundredths, the precision of round2.        *)
(***************************************************************************)
EXTENDS Integers, Sequences, Vocabulary

CONSTANTS
  Addr,       \* the (host, port) pairs in play
  Types,      \* Types[a]: the protocols the check of a confirmed
  Ewma,       \* Ewma[a]: restored success average, 100 when there is none
  CheckStats  \* CheckStats[a]: the statistics a carries out of its check

Stats == [reqs : Nat, errs : Nat, rsum : Nat, rn : Nat]

ASSUME ProxyAssumption ==
  /\ Types \in [Addr -> SUBSET Proto]
  /\ Ewma \in [Addr -> 0..100]
  /\ CheckStats \in [Addr -> Stats]

\* The proxy the checker hands over, with the statistics of its check.  A Rust
\* value is moved, not copied: item tells it from others of the same address.
Checked(a, x) ==
  [addr |-> a, item |-> x, reqs |-> CheckStats[a].reqs, errs |-> CheckStats[a].errs,
   rsum |-> CheckStats[a].rsum, rn |-> CheckStats[a].rn]

-----------------------------------------------------------------------------
\* num / den in hundredths, ties to even.  (The code rounds the f64 quotient;
\* the two agree except at a tie that no binary fraction represents, such as
\* 3 / 200, which the runs do not reach.)
round2(num, den) ==
  LET q == (100 * num) \div den
      r == (100 * num) % den
  IN  IF 2 * r > den \/ (2 * r = den /\ q % 2 = 1) THEN q + 1 ELSE q

error_rate(p) == IF p.reqs = 0 THEN 0 ELSE round2(p.errs, p.reqs)

avg_resp_time(p) == IF p.rn = 0 THEN 0 ELSE round2(p.rsum, 100 * p.rn)

\* The pool-ordering key: the worse of the live and the restored error rate,
\* then the mean response time.
priority(p) ==
  LET live == error_rate(p)
      restored == 100 - Ewma[p.addr]
  IN  <<IF live >= restored THEN live ELSE restored, avg_resp_time(p)>>

HTTP_PROTOS == {"Http", "Connect80", "Socks4", "Socks5"}

HTTPS_PROTOS == {"Https", "Socks4", "Socks5"}

schemes(a) ==
  {s \in Scheme : Types[a] \cap (IF s = "http" THEN HTTP_PROTOS
                                               ELSE HTTPS_PROTOS) # {}}

\* The first protocol of the list that the proxy has, else the default.
First(list, a, default) ==
  LET has == {i \in DOMAIN list : list[i] \in Types[a]}
  IN  IF has = {} THEN default
      ELSE list[CHOOSE i \in has : \A j \in has : i <= j]

\* The raw tunnel of a for the scheme, if it has one (connector.rs): none of
\* them ends TLS before the target.
NoTunnel == "None"

tunnel_proto(a, s) ==
  First(IF s = "http" THEN <<"Socks5", "Socks4", "Connect80", "Http">>
                      ELSE <<"Socks5", "Socks4", "Connect80">>, a, NoTunnel)

\* A served request: its runtime, recorded as 0.0, joins the mean.
RecordOk(p) ==
  [addr |-> p.addr, item |-> p.item, reqs |-> p.reqs + 1, errs |-> p.errs,
   rsum |-> p.rsum, rn |-> p.rn + 1]

\* A failed request: one more error and no runtime.
RecordErr(p) ==
  [addr |-> p.addr, item |-> p.item, reqs |-> p.reqs + 1, errs |-> p.errs + 1,
   rsum |-> p.rsum, rn |-> p.rn]
=============================================================================
