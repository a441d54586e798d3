----------------------------- MODULE Extraction -----------------------------
(* What provider.rs and parse.rs find in a fetched page.  A page is the      *)
(* sequence of its dotted quads, <<"ip", raw>>, and of its other runs of two *)
(* to five digits, <<"num", n>>; the text between them does not matter.      *)
EXTENDS Integers, Sequences, FiniteSets

CONSTANTS Canon,        \* raw host -> the canonical spelling, or NoHost
          NoHost,
          IpAddrs,      \* the canonical spellings that parse as an IpAddr
          Unspecified   \* 0.0.0.0 and ::

ASSUME ExtractionAssumption == NoHost \notin IpAddrs

\* What a page is made of, and what extract finds on it.
Tokens == ({"ip"} \X (DOMAIN Canon)) \cup ({"num"} \X Nat)
Candidate == {Canon[raw] : raw \in DOMAIN Canon} \X Nat

NoPort == 0

IsIp(tok) == tok[1] = "ip"

\* Every address, with the number next to it when no other address is nearer,
\* by its place on the page; an address that nothing follows is left out.
find_addrs_global(page) ==
  [i \in {k \in 1..(Len(page) - 1) : IsIp(page[k])} |->
     <<page[i][2], IF IsIp(page[i + 1]) THEN NoPort ELSE page[i + 1][2]>>]

\* A provider's own pattern, a valid one: a match with both groups is a pair,
\* and one without them is split at its last colon, which is the same pair; a
\* match without a port yields none.
extract_with_pattern(page) ==
  LET found == find_addrs_global(page)
  IN [i \in {k \in DOMAIN found : found[k][2] # NoPort} |-> found[i]]

\* raw_port.parse::<u16>(), and not zero.
PortOk(n) == n > 0 /\ n < 65536

HostOk(raw) == Canon[raw] # NoHost /\ Canon[raw] \notin Unspecified

\* The values of f at the places in I, a finite set of numbers, in order.
Nth(I, k) == CHOOSE i \in I : Cardinality({j \in I : j < i}) = k - 1
InOrder(f, I) == [k \in 1..Cardinality(I) |-> f[Nth(I, k)]]

\* ProviderSpec::extract: filter, canonicalize, keep the first of each pair.
extract(found) ==
  LET good == {i \in DOMAIN found : PortOk(found[i][2]) /\ HostOk(found[i][1])}
      canon == [i \in good |-> <<Canon[found[i][1]], found[i][2]>>]
  IN InOrder(canon, {i \in good : \A j \in good : j < i => canon[j] # canon[i]})
=============================================================================
