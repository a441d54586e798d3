------------------------------- MODULE MCGrab -------------------------------
EXTENDS Grab

\* "c" is outside the requested countries, "zero" is 0.0.0.0, "pad" has a
\* leading zero, "zone" is an IPv6 literal with a zone, and "A" spells "a".
MCCanon == [raw \in {"a", "A", "b", "c", "d", "zero", "pad", "zone"} |->
              CASE raw = "A" -> "a" [] raw = "pad" -> NoHost [] OTHER -> raw]
MCIpAddrs == {"a", "b", "c", "d", "zero"}

Ip(x) == <<"ip", x>>
Num(n) == <<"num", n>>

MCPage ==
  [p1 |-> <<Ip("a"), Num(80), Ip("b"), Ip("d"), Num(81), Ip("a"), Num(80)>>,
   p2 |-> <<Ip("A"), Num(80), Ip("zone"), Num(80), Ip("b"), Num(99999), Ip("b")>>,
   p3 |-> <<Ip("c"), Num(80), Ip("zero"), Num(80), Ip("pad"), Num(80)>>,
   p4 |-> <<Ip("b"), Num(80), Ip("a"), Num(81), Ip("d"), Num(0), Ip("b"), Ip("b")>>]

MCSpecs == <<"p1", "p2", "p3", "p4">>
MCFile == <<<<"a", 80>>, <<"b", 80>>, <<"a", 80>>>>
=============================================================================
