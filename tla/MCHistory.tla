----------------------------- MODULE MCHistory -----------------------------
EXTENDS History

Http  == [types |-> {"HTTP"},   requests |-> 1, errors |-> 0, latency |-> 2]
Socks == [types |-> {"SOCKS5"}, requests |-> 3, errors |-> 1, latency |-> 4]
Dead  == [types |-> {},         requests |-> 2, errors |-> 2, latency |-> 0]

\* What differs between tasks matters more than all of them finding everything.
MCSamples ==
  [t \in Task |-> CASE t = "o1" -> {Dead}
                    [] t = "o2" -> {Http}
                    [] t = "r" -> {Socks}
                    [] t = "x" -> {Dead}]

MCLoaded == [a \in {"a"} |-> [types |-> {"HTTPS"}, listed |-> TRUE]]

MCArgs == {[load |-> FALSE, countries |-> FALSE],
           [load |-> TRUE, countries |-> FALSE],
           [load |-> TRUE, countries |-> TRUE]}
-----------------------------------------------------------------------------
(* What a row must say of the samples q folded into it, in closed form: the *)
(* types of the latest working sample, sums, and weighted averages.         *)

LatestTypes(q, P(_)) == LET hits == {i \in DOMAIN q : P(q[i])}
                        IN IF hits = {} THEN {} ELSE q[Max(hits)].types

\* The first value seeds an average; each later one takes 3/10 of it.
Average(vals) ==
  LET n == Len(vals)
      Weight(i) == IF i = 1 THEN 7^(n - 1) ELSE 3 * 7^(n - i) * 10^(i - 2)
  IN (MapThenSumSet(LAMBDA i : Weight(i) * vals[i], 1..n) * Scale) \div 10^(n - 1)

Says(q) ==
  LET Working(s) == s.types # {}
      Later == SelectSeq(Tail(q), LAMBDA s : s.latency > 0)
      Latencies == <<q[1].latency>> \o [i \in DOMAIN Later |-> Later[i].latency]
  IN [types    |-> LatestTypes(q, Working),
      requests |-> MapThenSumSet(LAMBDA i : q[i].requests, DOMAIN q),
      errors   |-> MapThenSumSet(LAMBDA i : q[i].errors, DOMAIN q),
      ewma     |-> Average([i \in DOMAIN q |-> IF Working(q[i]) THEN 1 ELSE 0]),
      latency  |-> Average(Latencies),
      uptime   |-> Quantify(DOMAIN q, LAMBDA i : Working(q[i]))]

\* Folding one sample after the other, as the backends do, comes to the closed
\* form (exactly, as long as Scale divides evenly).
ASSUME FoldsInClosedForm ==
  \A q \in BoundedSeq({Http, Socks, Dead}, 3) \ {<<>>} : Folds(q) = Says(q)
=============================================================================
