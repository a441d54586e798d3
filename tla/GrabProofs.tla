----------------------------- MODULE GrabProofs -----------------------------
(***************************************************************************)
(* Proofs about grab and write_stream, for every registry of providers and *)
(* every page, limit, channel and format.                                  *)
(***************************************************************************)
EXTENDS Grab, FiniteSetTheorems, SequenceTheorems, NaturalsInduction,
        WellFoundedInduction, TLAPS

-----------------------------------------------------------------------------
(* Enumerating a finite set of places in order.                             *)

\* A non-empty set of numbers has a least element.
LEMMA LeastPlace ==
  ASSUME NEW S \in SUBSET Nat, S # {}
  PROVE  \E m \in S : \A k \in S : m <= k
<1>1. PICK m \in S : \A k \in S : <<k, m>> \notin OpToRel(<, Nat)
  BY WFMin, NatLessThanWellFounded, Zenon
<1>2. ASSUME NEW k \in S, k < m PROVE FALSE
  <2>1. <<k, m>> \in OpToRel(<, Nat)
    BY <1>2, k \in Nat, m \in Nat, Zenon DEF OpToRel
  <2> QED
    BY <1>1, <2>1, Zenon
<1>3. ASSUME NEW k \in S PROVE m <= k
  BY <1>2, k \in Nat, m \in Nat
<1> QED
  BY <1>3

Below(I, i) == {j \in I : j < i}

\* No two places have the same number of places below them.
LEMMA RankIsInjective ==
  ASSUME NEW I \in SUBSET Nat, IsFiniteSet(I)
  PROVE  /\ \A i \in I : Cardinality(Below(I, i)) + 1 \in 1..Cardinality(I)
         /\ \A i, k \in I : Cardinality(Below(I, i)) = Cardinality(Below(I, k)) => i = k
<1>1. ASSUME NEW S \in SUBSET I
      PROVE  /\ IsFiniteSet(S) /\ Cardinality(S) \in Nat
             /\ Cardinality(S) <= Cardinality(I)
  BY FS_Subset, FS_CardinalityType
<1>2. ASSUME NEW i \in I
      PROVE  /\ Below(I, i) \in SUBSET I /\ Below(I, i) \cup {i} \in SUBSET I
             /\ Cardinality(Below(I, i) \cup {i}) = Cardinality(Below(I, i)) + 1
  <2>1. Below(I, i) \in SUBSET I /\ Below(I, i) \cup {i} \in SUBSET I /\ i \notin Below(I, i)
    BY DEF Below
  <2>2. IsFiniteSet(Below(I, i))
    BY <1>1, <2>1
  <2> QED
    BY <2>1, <2>2, FS_AddElement
<1>3. ASSUME NEW i \in I
      PROVE  Cardinality(Below(I, i)) + 1 \in 1..Cardinality(I)
  <2>1. /\ Cardinality(Below(I, i)) \in Nat
        /\ Cardinality(Below(I, i)) + 1 <= Cardinality(I)
    BY <1>1, <1>2
  <2>2. Cardinality(I) \in Nat
    BY FS_CardinalityType
  <2> QED
    BY <2>1, <2>2
<1>4. ASSUME NEW i \in I, NEW k \in I, i < k
      PROVE  Cardinality(Below(I, i)) # Cardinality(Below(I, k))
  <2>1. Below(I, i) \cup {i} \in SUBSET Below(I, k)
    <3>1. i \in Nat /\ k \in Nat /\ \A j \in I : j \in Nat
      OBVIOUS
    <3>2. \A j \in Nat : j < i => j < k
      BY <1>4, <3>1
    <3> QED
      BY <1>4, <3>1, <3>2 DEF Below
  <2>2. IsFiniteSet(Below(I, k)) /\ Cardinality(Below(I, k)) \in Nat
    BY <1>1, <1>2
  <2>3. Cardinality(Below(I, i) \cup {i}) <= Cardinality(Below(I, k))
    BY <2>1, <2>2, FS_Subset
  <2>4. Cardinality(Below(I, i)) \in Nat
    BY <1>1, <1>2
  <2> QED
    BY <1>2, <2>2, <2>3, <2>4
<1>5. ASSUME NEW i \in I, NEW k \in I,
             Cardinality(Below(I, i)) = Cardinality(Below(I, k))
      PROVE  i = k
  BY <1>4, <1>5
<1> QED
  BY <1>3, <1>5

\* Nth enumerates the places: each number up to the size of I names one, and
\* a place is named by the number of places below it.
LEMMA NthEnumerates ==
  ASSUME NEW I \in SUBSET Nat, IsFiniteSet(I)
  PROVE  /\ Cardinality(I) \in Nat
         /\ \A k \in 1..Cardinality(I) : Nth(I, k) \in I
         /\ \A i \in I : \E k \in 1..Cardinality(I) : Nth(I, k) = i
         /\ \A k \in Nat, i \in I : Cardinality(Below(I, i)) = k - 1 => Nth(I, k) = i
<1> DEFINE n == Cardinality(I)
           rank == [i \in I |-> Cardinality(Below(I, i)) + 1]
<1>1. n \in Nat
  BY FS_CardinalityType
<1>2. \A i \in I : Cardinality(Below(I, i)) \in Nat
  <2> TAKE i \in I
  <2>1. Below(I, i) \in SUBSET I
    BY DEF Below
  <2> QED
    BY <2>1, FS_Subset, FS_CardinalityType
<1>3. rank \in Injection(I, 1..n)
  <2>1. rank \in [I -> 1..n]
    BY RankIsInjective
  <2>2. ASSUME NEW i \in I, NEW k \in I, rank[i] = rank[k] PROVE i = k
    <3>1. Cardinality(Below(I, i)) + 1 = Cardinality(Below(I, k)) + 1
      BY <2>2
    <3>2. Cardinality(Below(I, i)) = Cardinality(Below(I, k))
      BY <1>2, <3>1
    <3> QED
      BY <3>2, RankIsInjective
  <2> QED
    BY <2>1, <2>2 DEF Injection, IsInjective
<1>4. IsFiniteSet(1..n) /\ Cardinality(1..n) = n
  <2>1. IsFiniteSet(1..n) /\ Cardinality(1..n) = IF 1 > n THEN 0 ELSE n - 1 + 1
    BY <1>1, 1 \in Int, n \in Int, FS_Interval
  <2> QED
    BY <1>1, <2>1
<1> HIDE DEF rank
<1>5. rank \in Surjection(I, 1..n)
  BY <1>3, <1>4, FS_Injection
<1>6. ASSUME NEW k \in Nat, NEW i \in I, Cardinality(Below(I, i)) = k - 1
      PROVE  Nth(I, k) = i
  <2>1. \A j \in I : Cardinality(Below(I, j)) = k - 1 => j = i
    BY <1>6, RankIsInjective
  <2>2. Nth(I, k) = CHOOSE j \in I : Cardinality(Below(I, j)) = k - 1
    BY DEF Nth, Below
  <2> QED
    BY <1>6, <2>1, <2>2
<1>7. ASSUME NEW k \in 1..n PROVE Nth(I, k) \in I
  <2>1. PICK i \in I : rank[i] = k
    BY <1>5 DEF Surjection
  <2>2. Cardinality(Below(I, i)) = k - 1
    BY <1>1, <1>2, <2>1 DEF rank
  <2>3. k \in Nat
    BY <1>1
  <2> QED
    BY <1>6, <2>2, <2>3
<1>8. ASSUME NEW i \in I PROVE \E k \in 1..n : Nth(I, k) = i
  <2> DEFINE k == Cardinality(Below(I, i)) + 1
  <2>1. k \in 1..n /\ k \in Nat /\ Cardinality(Below(I, i)) = k - 1
    BY <1>1, <1>2, RankIsInjective
  <2> HIDE DEF k
  <2> QED
    BY <1>6, <2>1
<1> QED
  BY <1>1, <1>6, <1>7, <1>8

\* InOrder is a sequence of the values at the places of I, all of them.
LEMMA InOrderValues ==
  ASSUME NEW I \in SUBSET Nat, IsFiniteSet(I), NEW S, NEW f,
         \A i \in I : f[i] \in S
  PROVE  InOrder(f, I) \in Seq(S) /\ ToSet(InOrder(f, I)) = {f[i] : i \in I}
<1> DEFINE n == Cardinality(I)
<1>1. InOrder(f, I) \in [1..n -> S] /\ n \in Nat
  BY NthEnumerates DEF InOrder
<1>2. DOMAIN InOrder(f, I) = 1..n /\ \A k \in 1..n : InOrder(f, I)[k] = f[Nth(I, k)]
  BY DEF InOrder
<1>3. ToSet(InOrder(f, I)) \subseteq {f[i] : i \in I}
  BY <1>2, NthEnumerates DEF ToSet
<1>4. {f[i] : i \in I} \subseteq ToSet(InOrder(f, I))
  BY <1>2, NthEnumerates DEF ToSet
<1> QED
  BY <1>1, <1>3, <1>4
-----------------------------------------------------------------------------
(* What the extraction finds on a page.                                     *)

\* Filtering and deduplicating lose no pair that is good, and add none.
LEMMA ExtractValues ==
  ASSUME NEW found, DOMAIN found \in SUBSET Nat, IsFiniteSet(DOMAIN found),
         \A i \in DOMAIN found : found[i][1] \in DOMAIN Canon /\ found[i][2] \in Nat
  PROVE  /\ extract(found) \in Seq(Candidate)
         /\ ToSet(extract(found)) =
              {<<Canon[found[i][1]], found[i][2]>> :
                 i \in {k \in DOMAIN found : PortOk(found[k][2]) /\ HostOk(found[k][1])}}
<1> DEFINE good == {i \in DOMAIN found : PortOk(found[i][2]) /\ HostOk(found[i][1])}
           canon == [i \in good |-> <<Canon[found[i][1]], found[i][2]>>]
           first == {i \in good : \A j \in good : j < i => canon[j] # canon[i]}
<1>1. extract(found) = InOrder(canon, first)
  BY DEF extract
<1>2. /\ good \in SUBSET Nat /\ first \in SUBSET Nat /\ IsFiniteSet(first)
      /\ first \subseteq good
  BY FS_Subset
<1>3. \A i \in good : canon[i] \in Candidate
  BY DEF Candidate
<1>4. ASSUME NEW i \in good PROVE \E k \in first : canon[k] = canon[i]
  <2> DEFINE same == {j \in good : canon[j] = canon[i]}
  <2>1. same \in SUBSET Nat /\ same # {}
    BY <1>2
  <2>2. PICK k \in same : \A j \in same : k <= j
    BY <2>1, LeastPlace
  <2>3. k \in good /\ canon[k] = canon[i]
    OBVIOUS
  <2>4. ASSUME NEW j \in good, j < k PROVE canon[j] # canon[k]
    <3>1. j \in Nat /\ k \in Nat /\ ~(k <= j)
      BY <1>2, <2>3, <2>4
    <3> QED
      BY <2>2, <2>3, <3>1
  <2> QED
    BY <2>3, <2>4
<1> HIDE DEF canon, first
<1>5. \A i \in first : canon[i] \in Candidate
  BY <1>2, <1>3
<1>6. /\ InOrder(canon, first) \in Seq(Candidate)
      /\ ToSet(InOrder(canon, first)) = {canon[i] : i \in first}
  BY <1>2, <1>5, InOrderValues, Zenon
<1>7. {canon[i] : i \in first} = {canon[i] : i \in good}
  BY <1>2, <1>4
<1>8. {canon[i] : i \in good} = {<<Canon[found[i][1]], found[i][2]>> : i \in good}
  BY DEF canon
<1> QED
  BY <1>1, <1>6, <1>7, <1>8

\* The two scanners: what is found where on the page.
LEMMA FoundType ==
  ASSUME NEW page \in Seq(Tokens)
  PROVE  LET found == find_addrs_global(page)
             own   == extract_with_pattern(page)
         IN /\ DOMAIN found = {k \in 1..(Len(page) - 1) : IsIp(page[k])}
            /\ DOMAIN found \in SUBSET Nat /\ IsFiniteSet(DOMAIN found)
            /\ \A i \in DOMAIN found :
                 /\ found[i][1] = page[i][2] /\ found[i][1] \in DOMAIN Canon
                 /\ found[i][2] = (IF IsIp(page[i + 1]) THEN NoPort ELSE page[i + 1][2])
                 /\ found[i][2] \in Nat
            /\ DOMAIN own = {k \in DOMAIN found : found[k][2] # NoPort}
            /\ \A i \in DOMAIN own : own[i] = found[i]
<1> DEFINE found == find_addrs_global(page)
           own   == extract_with_pattern(page)
<1>1. DOMAIN found = {k \in 1..(Len(page) - 1) : IsIp(page[k])}
  BY DEF find_addrs_global
<1>2. Len(page) \in Nat /\ 1..(Len(page) - 1) \in SUBSET Nat
  OBVIOUS
<1>3. IsFiniteSet(1..(Len(page) - 1))
  BY <1>2, 1 \in Int, Len(page) - 1 \in Int, FS_Interval
<1>4. DOMAIN found \in SUBSET Nat /\ IsFiniteSet(DOMAIN found)
  <2>1. DOMAIN found \in SUBSET (1..(Len(page) - 1))
    BY <1>1
  <2> QED
    BY <1>2, <1>3, <2>1, FS_Subset
<1>5. ASSUME NEW t \in Tokens
      PROVE  /\ IsIp(t) => t[2] \in DOMAIN Canon
             /\ ~IsIp(t) => t[2] \in Nat
  BY <1>5 DEF Tokens, IsIp
<1>6. ASSUME NEW i \in DOMAIN found
      PROVE  /\ found[i] = <<page[i][2], IF IsIp(page[i + 1]) THEN NoPort ELSE page[i + 1][2]>>
             /\ page[i] \in Tokens /\ page[i + 1] \in Tokens /\ IsIp(page[i])
  <2>1. i \in 1..(Len(page) - 1) /\ IsIp(page[i])
    BY <1>1
  <2>2. i \in 1..Len(page) /\ i + 1 \in 1..Len(page)
    BY <1>2, <2>1
  <2> QED
    BY <2>1, <2>2 DEF find_addrs_global
<1> HIDE DEF found
<1>7. ASSUME NEW i \in DOMAIN found
      PROVE  /\ found[i][1] = page[i][2] /\ found[i][1] \in DOMAIN Canon
             /\ found[i][2] = (IF IsIp(page[i + 1]) THEN NoPort ELSE page[i + 1][2])
             /\ found[i][2] \in Nat
  BY <1>5, <1>6 DEF NoPort
<1>8. /\ DOMAIN own = {k \in DOMAIN found : found[k][2] # NoPort}
      /\ \A i \in DOMAIN own : own[i] = found[i]
  BY DEF extract_with_pattern, found
<1> HIDE DEF own
<1> QED
  BY <1>1, <1>4, <1>7, <1>8 DEF found, own

\* What a provider's candidates say of the wanted addresses is exactly what
\* its page offers, whether it has a pattern of its own or not.
LEMMA CandidatesOffered ==
  ASSUME NEW p \in DOMAIN Page
  PROVE  /\ Candidates[p] \in Seq(Candidate)
         /\ \A x \in Candidate : x[1] \in IpAddrs /\ x[1] \in CountryOk =>
              (x \in ToSet(Candidates[p]) <=> x \in Offered(p))
<1> DEFINE page == Page[p]
           found == find_addrs_global(page)
           own == extract_with_pattern(page)
           mine == IF p \in Patterned THEN own ELSE found
           Good(f) == {k \in DOMAIN f : PortOk(f[k][2]) /\ HostOk(f[k][1])}
           Taken(f) == {<<Canon[f[i][1]], f[i][2]>> : i \in Good(f)}
<1>1. page \in Seq(Tokens) /\ Candidates[p] = extract(mine)
  BY GrabAssumption DEF Candidates
<1>2. /\ DOMAIN found = {k \in 1..(Len(page) - 1) : IsIp(page[k])}
      /\ DOMAIN found \in SUBSET Nat /\ IsFiniteSet(DOMAIN found)
      /\ \A i \in DOMAIN found :
           /\ found[i][1] = page[i][2] /\ found[i][1] \in DOMAIN Canon
           /\ found[i][2] = (IF IsIp(page[i + 1]) THEN NoPort ELSE page[i + 1][2])
           /\ found[i][2] \in Nat
      /\ DOMAIN own = {k \in DOMAIN found : found[k][2] # NoPort}
      /\ \A i \in DOMAIN own : own[i] = found[i]
  BY <1>1, FoundType
<1> HIDE DEF page, found, own
<1>3. IsFiniteSet(DOMAIN own) /\ DOMAIN own \in SUBSET DOMAIN found
  BY <1>2, FS_Subset
<1>4. /\ extract(found) \in Seq(Candidate) /\ ToSet(extract(found)) = Taken(found)
  <2>1. \A i \in DOMAIN found : found[i][1] \in DOMAIN Canon /\ found[i][2] \in Nat
    BY <1>2
  <2>2. DOMAIN found \in SUBSET Nat /\ IsFiniteSet(DOMAIN found)
    BY <1>2
  <2> QED
    BY ONLY <2>1, <2>2, ExtractValues
<1>5. /\ extract(own) \in Seq(Candidate) /\ ToSet(extract(own)) = Taken(own)
  BY <1>2, <1>3, ExtractValues
<1>6. Taken(own) = Taken(found)
  <2>1. Good(own) = Good(found)
    BY <1>2, <1>3 DEF PortOk, NoPort
  <2>2. \A i \in Good(found) : own[i] = found[i]
    BY <1>2, <2>1
  <2> QED
    BY <2>1, <2>2
<1>7. Candidates[p] \in Seq(Candidate) /\ ToSet(Candidates[p]) = Taken(found)
  BY <1>1, <1>4, <1>5, <1>6
<1>8. ASSUME NEW x \in Candidate, x[1] \in IpAddrs, x[1] \in CountryOk
      PROVE  x \in Taken(found) <=> x \in Offered(p)
  <2> DEFINE Adjacent == {<<page[i], page[i + 1]>> : i \in 1..(Len(page) - 1)}
             Right(y) == /\ IsIp(y[1]) /\ ~IsIp(y[2])
                         /\ y[2][2] > 0 /\ y[2][2] < 65536
                         /\ Canon[y[1][2]] \in (IpAddrs \cap CountryOk) \ Unspecified
  <2>1. Offered(p) = {<<Canon[y[1][2]], y[2][2]>> : y \in {z \in Adjacent : Right(z)}}
    BY DEF Offered, page
  <2>2. ASSUME x \in Taken(found) PROVE x \in Offered(p)
    <3>1. PICK i \in Good(found) : x = <<Canon[found[i][1]], found[i][2]>>
      BY <2>2
    <3> DEFINE y == <<page[i], page[i + 1]>>
    <3>2. y \in Adjacent
      BY <1>2, <3>1
    <3>3. /\ x[1] = Canon[found[i][1]] /\ found[i][1] = page[i][2] /\ IsIp(page[i])
          /\ found[i][2] > 0 /\ found[i][2] < 65536 /\ Canon[found[i][1]] \notin Unspecified
      BY <1>2, <3>1 DEF PortOk, HostOk
    <3>4. ~IsIp(page[i + 1]) /\ found[i][2] = page[i + 1][2]
      BY <1>2, <3>1, <3>3 DEF NoPort
    <3>5. Right(y) /\ x = <<Canon[y[1][2]], y[2][2]>>
      BY <1>8, <3>1, <3>3, <3>4
    <3> HIDE DEF y, Adjacent, Right
    <3> QED
      BY <2>1, <3>2, <3>5
  <2>3. ASSUME x \in Offered(p) PROVE x \in Taken(found)
    <3>1. PICK i \in 1..(Len(page) - 1) : /\ Right(<<page[i], page[i + 1]>>)
                                          /\ x = <<Canon[page[i][2]], page[i + 1][2]>>
      BY <2>1, <2>3
    <3>2. /\ IsIp(page[i]) /\ ~IsIp(page[i + 1])
          /\ page[i + 1][2] > 0 /\ page[i + 1][2] < 65536
          /\ Canon[page[i][2]] \in IpAddrs /\ Canon[page[i][2]] \notin Unspecified
      BY <3>1
    <3>3. i \in DOMAIN found /\ found[i][1] = page[i][2] /\ found[i][2] = page[i + 1][2]
      BY <1>2, <3>1, <3>2
    <3>4. i \in Good(found)
      BY <3>2, <3>3, ExtractionAssumption DEF PortOk, HostOk
    <3> QED
      BY <3>1, <3>3, <3>4
  <2> QED
    BY <2>2, <2>3
<1> QED
  BY <1>7, <1>8
-----------------------------------------------------------------------------
(* Sequences as the task and the writer use them.                           *)

\* Append adds one value, and keeps a sequence without repetitions so.
LEMMA AppendValues ==
  ASSUME NEW S, NEW s \in Seq(S), NEW x \in S
  PROVE  /\ Append(s, x) \in Seq(S)
         /\ ToSet(Append(s, x)) = ToSet(s) \cup {x}
         /\ IsInjective(s) /\ x \notin ToSet(s) => IsInjective(Append(s, x))
<1> DEFINE t == Append(s, x)
<1>1. /\ t \in Seq(S) /\ Len(s) \in Nat /\ Len(t) = Len(s) + 1
      /\ DOMAIN s = 1..Len(s) /\ DOMAIN t = 1..(Len(s) + 1)
      /\ \A i \in DOMAIN s : t[i] = s[i]
      /\ t[Len(s) + 1] = x
  <2>1. t \in Seq(S) /\ Len(s) \in Nat /\ Len(t) = Len(s) + 1
    OBVIOUS
  <2>2. DOMAIN s = 1..Len(s) /\ DOMAIN t = 1..(Len(s) + 1)
    BY <2>1
  <2>3. \A i \in 1..Len(s) : t[i] = s[i]
    OBVIOUS
  <2>4. t[Len(s) + 1] = x
    OBVIOUS
  <2> QED
    BY <2>1, <2>2, <2>3, <2>4
<1> HIDE DEF t
<1>2. ToSet(t) = ToSet(s) \cup {x}
  <2>1. \A i \in DOMAIN t : i \in DOMAIN s \/ i = Len(s) + 1
    BY <1>1
  <2>2. ToSet(t) \subseteq ToSet(s) \cup {x}
    BY <1>1, <2>1 DEF ToSet
  <2>3. Len(s) + 1 \in DOMAIN t /\ \A i \in DOMAIN s : i \in DOMAIN t
    BY <1>1
  <2>4. ToSet(s) \cup {x} \subseteq ToSet(t)
    BY <1>1, <2>3 DEF ToSet
  <2> QED
    BY <2>2, <2>4
<1>3. ASSUME IsInjective(s), x \notin ToSet(s) PROVE IsInjective(t)
  <2>1. \A i \in DOMAIN s : s[i] # x
    BY <1>3 DEF ToSet
  <2>2. \A i \in DOMAIN t : i \in DOMAIN s \/ i = Len(s) + 1
    BY <1>1
  <2> QED
    BY <1>1, <1>3, <2>1, <2>2 DEF IsInjective
<1> QED
  BY <1>1, <1>2, <1>3 DEF t

\* A sequence that is not empty holds its head and what its tail holds.
LEMMA TailValues ==
  ASSUME NEW S, NEW s \in Seq(S), s # <<>>
  PROVE  /\ Head(s) \in S /\ Tail(s) \in Seq(S)
         /\ Len(s) > 0 /\ Len(Tail(s)) = Len(s) - 1
         /\ ToSet(s) = ToSet(Tail(s)) \cup {Head(s)}
<1>1. /\ Len(s) \in Nat /\ Len(s) > 0 /\ Head(s) \in S /\ Tail(s) \in Seq(S)
      /\ Head(s) = s[1] /\ Len(Tail(s)) = Len(s) - 1
      /\ DOMAIN s = 1..Len(s) /\ DOMAIN Tail(s) = 1..(Len(s) - 1)
      /\ \A i \in 1..(Len(s) - 1) : Tail(s)[i] = s[i + 1]
  OBVIOUS
<1> DEFINE t == Tail(s)
           h == Head(s)
<1>2. \A i \in DOMAIN s : s[i] = h \/ (i - 1 \in DOMAIN t /\ s[i] = t[i - 1])
  BY <1>1
<1>3. /\ 1 \in DOMAIN s /\ s[1] = h
      /\ \A i \in DOMAIN t : i + 1 \in DOMAIN s /\ t[i] = s[i + 1]
  BY <1>1
<1> HIDE DEF t, h
<1>4. ToSet(s) = ToSet(t) \cup {h}
  BY <1>2, <1>3 DEF ToSet
<1> QED
  BY <1>1, <1>4 DEF t, h

\* The empty sequence holds nothing.
LEMMA EmptyValues == ToSet(<<>>) = {}
BY DEF ToSet

\* Removing an entry leaves a sequence over the same set.
LEMMA RemoveAtType ==
  ASSUME NEW S, NEW s \in Seq(S), NEW i \in DOMAIN s
  PROVE  RemoveAt(s, i) \in Seq(S)
BY DEF RemoveAt

\* What a page offers is a candidate with an address in a wanted country.
LEMMA OfferedType ==
  ASSUME NEW p \in DOMAIN Page, NEW x \in Offered(p)
  PROVE  x \in Candidate /\ x[1] \in IpAddrs /\ x[1] \in CountryOk
<1> DEFINE page == Page[p]
<1>1. page \in Seq(Tokens)
  BY GrabAssumption
<1>2. PICK i \in 1..(Len(page) - 1) :
        /\ IsIp(page[i]) /\ ~IsIp(page[i + 1])
        /\ Canon[page[i][2]] \in IpAddrs /\ Canon[page[i][2]] \in CountryOk
        /\ x = <<Canon[page[i][2]], page[i + 1][2]>>
  BY DEF Offered
<1>3. page[i] \in Tokens /\ page[i + 1] \in Tokens
  <2>1. Len(page) \in Nat /\ i \in 1..Len(page) /\ i + 1 \in 1..Len(page)
    BY <1>1
  <2> QED
    BY <1>1, <2>1
<1>4. page[i][2] \in DOMAIN Canon /\ page[i + 1][2] \in Nat
  BY <1>2, <1>3 DEF Tokens, IsIp
<1> QED
  BY <1>2, <1>4 DEF Candidate
-----------------------------------------------------------------------------
(* The task delivers what the answering providers offer.                    *)

\* Types, and that `check --load` has no task behind its stream.
TypeInv ==
  /\ verb \in {"grab", "load"} /\ format \in {"line", "array"}
  /\ limit \in Nat \cup {Unlimited}
  /\ todo \in Seq(DOMAIN Page)
  /\ batch \in Seq(Candidate) /\ sent \in Seq(Candidate) /\ chan \in Seq(Candidate)
  /\ seen \subseteq Candidate /\ answered \subseteq DOMAIN Page
  /\ at \in {"fetching", "sending", "ended"}
  /\ writer \in {"opening", "draining", "emitting", "saving", "flushing"} \cup Over
  /\ listening = (writer # "failed")
  /\ verb = "grab" => Len(chan) <= CHANNEL_CAPACITY
  /\ verb = "load" => at = "ended" /\ sent = FileProxies

\* What was sent was seen first, once, and within the limit.
SentInv ==
  /\ \A x \in seen : x[1] \in IpAddrs
  /\ ToSet(sent) \subseteq seen
  /\ IsInjective(sent)
  /\ limit # Unlimited => Len(sent) <= limit

Ok(x) == x[1] \in IpAddrs /\ x[1] \in CountryOk

\* What is wanted of the answers so far was sent or is still in the batch,
\* and nothing else was or is.
CoverInv ==
  /\ \A x \in ToSet(sent) \cup ToSet(batch) : Ok(x) => \E p \in answered : x \in Offered(p)
  /\ \A x \in ToSet(sent) : Ok(x)
  /\ listening => \A x \in seen : Ok(x) => x \in ToSet(sent)
  /\ listening => \A p \in answered : Offered(p) \subseteq ToSet(sent) \cup ToSet(batch)
  /\ at = "fetching" => batch = <<>>
  /\ at = "ended" /\ listening => LimitReached \/ (todo = <<>> /\ batch = <<>>)

TaskInv == TypeInv /\ (verb = "grab" => SentInv /\ CoverInv)

\* grab starts with nothing sent, `check --load` with all of its file.
LEMMA TaskInit == Init => TaskInv
<1> SUFFICES ASSUME Init PROVE TaskInv
  OBVIOUS
<1>1. TypeInv
  <2>1. /\ todo \in Seq(DOMAIN Page) /\ batch \in Seq(Candidate)
        /\ sent \in Seq(Candidate) /\ chan \in Seq(Candidate)
    <3>1. Specs \in Seq(DOMAIN Page) /\ FileProxies \in Seq(Candidate)
      BY GrabAssumption
    <3>2. <<>> \in Seq(DOMAIN Page) /\ <<>> \in Seq(Candidate)
      OBVIOUS
    <3>3. /\ todo \in {Specs, <<>>} /\ batch = <<>>
          /\ sent \in {<<>>, FileProxies} /\ chan \in {<<>>, FileProxies}
      BY DEF Init
    <3> QED
      BY <3>1, <3>2, <3>3
  <2>2. limit \in Nat \cup {Unlimited}
    BY GrabAssumption DEF Init
  <2>3. verb = "grab" => Len(chan) <= CHANNEL_CAPACITY
    BY GrabAssumption DEF Init
  <2>4. /\ verb \in {"grab", "load"} /\ format \in {"line", "array"}
        /\ at \in {"fetching", "sending", "ended"}
        /\ verb = "load" => at = "ended" /\ sent = FileProxies
        /\ seen = {} /\ answered = {} /\ writer = "opening" /\ listening = TRUE
    BY DEF Init
  <2> QED
    BY <2>1, <2>2, <2>3, <2>4 DEF TypeInv
<1>2. ASSUME verb = "grab" PROVE SentInv
  <2>1. sent = <<>> /\ seen = {} /\ limit \in Nat \cup {Unlimited}
    BY <1>1, <1>2 DEF Init, TypeInv
  <2>2. ToSet(sent) = {} /\ IsInjective(sent) /\ Len(sent) = 0
    BY <2>1, EmptyValues DEF IsInjective
  <2> QED
    BY <2>1, <2>2 DEF SentInv
<1>3. ASSUME verb = "grab" PROVE CoverInv
  BY <1>3, EmptyValues DEF Init, CoverInv
<1> QED
  BY <1>1, <1>2, <1>3 DEF TaskInv

\* A step of the writer, or its failure, changes none of what the task has
\* done, and the receiver never comes back.
LEMMA TaskWriter ==
  ASSUME TaskInv, write_stream \/ WriteFails \/ StdoutFails \/ Land
  PROVE  TaskInv'
<1>1. /\ UNCHANGED <<verb, format, limit, todo, batch, seen, sent, at, answered>>
      /\ listening' => listening
  BY DEF write_stream, Create, Receive, Emit, SaveBegins, SaveEnds, Finish, Flush,
         ErrorSurfaces, WriteFails, StdoutFails, Fail, Land, flags, task, sinks
<1>2. TypeInv'
  <2>1. TypeInv
    BY DEF TaskInv
  <2>2. chan' \in Seq(Candidate) /\ (verb = "grab" => Len(chan') <= CHANNEL_CAPACITY)
    <3>1. CASE Receive
      <4>1. chan # <<>> /\ chan' = Tail(chan)
        BY <3>1 DEF Receive
      <4>2. Tail(chan) \in Seq(Candidate) /\ Len(Tail(chan)) = Len(chan) - 1 /\ Len(chan) \in Nat
        BY <2>1, <4>1, TailValues DEF TypeInv
      <4> QED
        BY <2>1, <4>1, <4>2, GrabAssumption DEF TypeInv
    <3>2. CASE WriteFails \/ StdoutFails \/ ErrorSurfaces
      <4>1. chan' = <<>>
        BY <3>2 DEF WriteFails, StdoutFails, ErrorSurfaces, Fail
      <4> QED
        BY <4>1, GrabAssumption
    <3>3. CASE Create \/ Emit \/ SaveBegins \/ SaveEnds \/ Finish \/ Flush \/ Land
      BY <2>1, <3>3 DEF Create, Emit, SaveBegins, SaveEnds, Finish, Flush, Land, TypeInv
    <3> QED
      BY <3>1, <3>2, <3>3 DEF write_stream
  <2>3. /\ writer' \in {"opening", "draining", "emitting", "saving", "flushing"} \cup Over
        /\ listening' = (writer' # "failed")
    BY <2>1 DEF write_stream, Create, Receive, Emit, SaveBegins, SaveEnds, Finish, Flush,
                ErrorSurfaces, WriteFails, StdoutFails, Fail, Land, StreamEnds, TypeInv, Over
  <2> QED
    BY <1>1, <2>1, <2>2, <2>3 DEF TypeInv
<1>3. ASSUME verb' = "grab" PROVE SentInv' /\ CoverInv'
  <2>1. SentInv /\ CoverInv
    BY <1>1, <1>3 DEF TaskInv
  <2>2. SentInv'
    BY <1>1, <2>1 DEF SentInv
  <2>3. CoverInv'
    BY <1>1, <2>1 DEF CoverInv, LimitReached
  <2> QED
    BY <2>2, <2>3
<1> QED
  BY <1>2, <1>3 DEF TaskInv
\* A fetch, whether it answers or fails.
LEMMA TaskFetch ==
  ASSUME TaskInv, NEW i \in InFlight, fetch(i)
  PROVE  TaskInv'
<1>1. /\ TypeInv /\ at = "fetching" /\ verb = "grab" /\ i \in DOMAIN todo
      /\ SentInv /\ CoverInv
  BY DEF TaskInv, TypeInv, fetch, InFlight
<1>2. /\ UNCHANGED <<verb, format, limit, seen, sent, chan, listening, writer>>
      /\ todo' = RemoveAt(todo, i) /\ at' = "sending"
  BY DEF fetch, flags
<1>3. todo[i] \in DOMAIN Page /\ todo' \in Seq(DOMAIN Page)
  <2>1. todo \in Seq(DOMAIN Page)
    BY <1>1 DEF TypeInv
  <2> QED
    BY <1>1, <1>2, <2>1, RemoveAtType
<1>4. batch = <<>>
  BY <1>1 DEF CoverInv
<1>5. CASE batch' = Candidates[todo[i]] /\ answered' = answered \cup {todo[i]}
  <2> DEFINE p == todo[i]
  <2>1. /\ Candidates[p] \in Seq(Candidate)
        /\ \A x \in Candidate : Ok(x) => (x \in ToSet(Candidates[p]) <=> x \in Offered(p))
    BY <1>3, CandidatesOffered DEF Ok
  <2>2. Offered(p) \subseteq ToSet(Candidates[p])
    BY <1>3, <2>1, OfferedType DEF Ok
  <2>3. ToSet(Candidates[p]) \subseteq Candidate
    BY <2>1 DEF ToSet
  <2> HIDE DEF p
  <2>4. TypeInv'
    BY <1>1, <1>2, <1>3, <1>5, <2>1 DEF TypeInv, p
  <2>5. SentInv'
    BY <1>1, <1>2 DEF SentInv
  <2>6. CoverInv'
    <3>1. /\ batch' = Candidates[p] /\ answered' = answered \cup {p}
      BY <1>5 DEF p
    <3>2. \A x \in ToSet(sent') \cup ToSet(batch') :
             Ok(x) => \E r \in answered' : x \in Offered(r)
      BY <1>1, <1>2, <2>1, <2>3, <3>1 DEF CoverInv
    <3>3. listening' => \A r \in answered' : Offered(r) \subseteq ToSet(sent') \cup ToSet(batch')
      BY <1>1, <1>2, <1>4, <2>2, <3>1, EmptyValues DEF CoverInv
    <3> QED
      BY <1>1, <1>2, <3>2, <3>3 DEF CoverInv
  <2> QED
    BY <2>4, <2>5, <2>6 DEF TaskInv
<1>6. CASE batch' = <<>> /\ UNCHANGED answered
  <2>1. TypeInv'
    <3>1. batch' \in Seq(Candidate)
      BY <1>6
    <3> QED
      BY <1>1, <1>2, <1>3, <1>6, <3>1 DEF TypeInv
  <2>2. SentInv'
    BY <1>1, <1>2 DEF SentInv
  <2>3. CoverInv'
    BY <1>1, <1>2, <1>4, <1>6 DEF CoverInv
  <2> QED
    BY <2>1, <2>2, <2>3 DEF TaskInv
<1> QED
  BY <1>5, <1>6 DEF fetch

\* The task finds no more to fetch, to send, or below the limit.
LEMMA TaskTurns ==
  ASSUME TaskInv, NoMoreFetches \/ BatchDone \/ Stop
  PROVE  TaskInv'
<1>1. /\ TypeInv /\ verb = "grab" /\ SentInv /\ CoverInv
      /\ at' \in {"fetching", "ended"}
  BY DEF TaskInv, TypeInv, NoMoreFetches, BatchDone, Stop
<1>2. UNCHANGED <<verb, format, limit, todo, batch, seen, sent, chan, listening, writer, answered>>
  BY DEF NoMoreFetches, BatchDone, Stop, flags
<1>3. TypeInv'
  BY <1>1, <1>2 DEF TypeInv
<1>4. SentInv'
  BY <1>1, <1>2 DEF SentInv
<1>5. CoverInv'
  <2>1. CASE NoMoreFetches
    BY <1>1, <1>2, <2>1 DEF NoMoreFetches, CoverInv
  <2>2. CASE BatchDone
    BY <1>1, <1>2, <2>2 DEF BatchDone, CoverInv
  <2>3. CASE Stop
    BY <1>1, <1>2, <2>3 DEF Stop, CoverInv, LimitReached
  <2> QED
    BY <2>1, <2>2, <2>3
<1> QED
  BY <1>3, <1>4, <1>5 DEF TaskInv

\* A candidate that is not wanted: not an address, seen, or elsewhere.
LEMMA TaskSkip ==
  ASSUME TaskInv, Skip
  PROVE  TaskInv'
<1> DEFINE x == Head(batch)
<1>1. TypeInv /\ verb = "grab" /\ SentInv /\ CoverInv /\ at = "sending" /\ batch # <<>>
  BY DEF TaskInv, TypeInv, Skip
<1>2. /\ UNCHANGED <<verb, format, limit, todo, sent, at, chan, listening, writer, answered>>
      /\ batch' = Tail(batch)
      /\ seen' = seen \cup IF x[1] \in IpAddrs THEN {x} ELSE {}
      /\ ~(x[1] \in IpAddrs /\ x \notin seen /\ x[1] \in CountryOk)
  BY DEF Skip, flags, Seen, Wanted
<1>3. batch \in Seq(Candidate)
  BY <1>1 DEF TypeInv
<1>4. x \in Candidate /\ Tail(batch) \in Seq(Candidate)
  BY <1>1, <1>3, TailValues
<1>5. ToSet(batch) = ToSet(Tail(batch)) \cup {x}
  BY <1>1, <1>3, TailValues
<1> HIDE DEF x
<1>6. TypeInv'
  BY <1>1, <1>2, <1>4 DEF TypeInv
<1>7. SentInv'
  BY <1>1, <1>2 DEF SentInv
<1>8. Ok(x) => x \in seen
  BY <1>2 DEF Ok
<1>9. CoverInv'
  <2>1. \A y \in ToSet(sent') \cup ToSet(batch') :
           Ok(y) => \E p \in answered' : y \in Offered(p)
    BY <1>1, <1>2, <1>5 DEF CoverInv
  <2>2. listening' => \A y \in seen' : Ok(y) => y \in ToSet(sent')
    BY <1>1, <1>2, <1>8 DEF CoverInv
  <2>3. ASSUME listening', NEW p \in answered', NEW y \in Offered(p)
        PROVE  y \in ToSet(sent') \cup ToSet(batch')
    <3>1. p \in DOMAIN Page /\ p \in answered
      BY <1>1, <1>2 DEF TypeInv
    <3>2. Ok(y)
      BY <3>1, OfferedType DEF Ok
    <3>3. y \in ToSet(sent) \cup ToSet(batch)
      BY <1>1, <1>2, <2>3, <3>1 DEF CoverInv
    <3>4. CASE y = x
      BY <1>1, <1>2, <1>8, <2>3, <3>2, <3>4 DEF CoverInv
    <3> QED
      BY <1>2, <1>5, <3>3, <3>4
  <2> QED
    BY <1>1, <1>2, <2>1, <2>2, <2>3 DEF CoverInv
<1> QED
  BY <1>6, <1>7, <1>9 DEF TaskInv

\* A wanted candidate goes into the channel, or finds the receiver gone.
LEMMA TaskSend ==
  ASSUME TaskInv, Send
  PROVE  TaskInv'
<1> DEFINE x == Head(batch)
<1>1. /\ TypeInv /\ verb = "grab" /\ SentInv /\ CoverInv /\ at = "sending" /\ batch # <<>>
      /\ ~LimitReached
  BY DEF TaskInv, TypeInv, Send
<1>2. /\ UNCHANGED <<verb, format, limit, todo, listening, writer, answered>>
      /\ x[1] \in IpAddrs /\ x \notin seen /\ x[1] \in CountryOk
      /\ seen' = seen \cup {x}
  BY DEF Send, flags, Seen, Wanted
<1>3. batch \in Seq(Candidate) /\ sent \in Seq(Candidate) /\ chan \in Seq(Candidate)
  BY <1>1 DEF TypeInv
<1>4. x \in Candidate /\ Tail(batch) \in Seq(Candidate)
  BY <1>1, <1>3, TailValues
<1>5. ToSet(batch) = ToSet(Tail(batch)) \cup {x}
  BY <1>1, <1>3, TailValues
<1>6. CASE /\ listening /\ Len(chan) < CHANNEL_CAPACITY
           /\ chan' = Append(chan, x) /\ sent' = Append(sent, x)
           /\ batch' = Tail(batch) /\ UNCHANGED at
  <2> HIDE DEF x
  <2>1. /\ sent' \in Seq(Candidate) /\ ToSet(sent') = ToSet(sent) \cup {x}
        /\ Len(sent') = Len(sent) + 1 /\ Len(sent) \in Nat
    BY <1>3, <1>4, <1>6, AppendValues
  <2>2. /\ chan' \in Seq(Candidate) /\ Len(chan') <= CHANNEL_CAPACITY
    BY <1>3, <1>4, <1>6, GrabAssumption
  <2>3. TypeInv'
    BY <1>1, <1>2, <1>4, <1>6, <2>1, <2>2 DEF TypeInv
  <2>4. SentInv'
    <3>1. IsInjective(sent) /\ x \notin ToSet(sent)
      BY <1>1, <1>2 DEF SentInv
    <3>2. IsInjective(sent')
      BY <1>3, <1>4, <1>6, <3>1, AppendValues
    <3>3. limit' # Unlimited => Len(sent') <= limit'
      BY <1>1, <1>2, <2>1 DEF TypeInv, LimitReached
    <3>4. ToSet(sent') \subseteq seen'
      BY <1>1, <1>2, <2>1 DEF SentInv
    <3>5. \A y \in seen' : y[1] \in IpAddrs
      BY <1>1, <1>2 DEF SentInv
    <3> QED
      BY <3>2, <3>3, <3>4, <3>5 DEF SentInv
  <2>5. CoverInv'
    BY <1>1, <1>2, <1>5, <1>6, <2>1 DEF CoverInv, Ok
  <2> QED
    BY <2>3, <2>4, <2>5 DEF TaskInv
<1>7. CASE /\ ~listening /\ at' = "ended" /\ UNCHANGED <<chan, sent, batch>>
  <2> HIDE DEF x
  <2>1. TypeInv'
    BY <1>1, <1>2, <1>4, <1>7 DEF TypeInv
  <2>2. SentInv'
    BY <1>1, <1>2, <1>7 DEF SentInv
  <2>3. CoverInv'
    BY <1>1, <1>2, <1>7 DEF CoverInv
  <2> QED
    BY <2>1, <2>2, <2>3 DEF TaskInv
<1> QED
  BY <1>6, <1>7 DEF Send

\* Stuttering.
LEMMA TaskStutter ==
  ASSUME TaskInv, UNCHANGED vars
  PROVE  TaskInv'
BY DEF TaskInv, TypeInv, SentInv, CoverInv, LimitReached, vars, flags, task, sinks

\* The invariant gives what the run checks.
LEMMA TaskExact == TaskInv => GrabExact
<1> SUFFICES ASSUME TaskInv PROVE GrabExact
  OBVIOUS
<1>1. TypeInv
  BY DEF TaskInv
<1>2. TypeOK
  BY <1>1 DEF TaskInv, TypeInv, TypeOK, SentInv
<1>3. ASSUME verb = "grab", at = "ended", listening,
             ~(limit # Unlimited /\ Len(sent) = limit)
      PROVE  todo = <<>> /\ ToSet(sent) = UNION {Offered(p) : p \in answered}
  <2>1. SentInv /\ CoverInv
    BY <1>3 DEF TaskInv
  <2>2. ~LimitReached
    BY <1>1, <1>3, <2>1 DEF LimitReached, SentInv, TypeInv
  <2>3. todo = <<>> /\ ToSet(batch) = {}
    BY <1>3, <2>1, <2>2, EmptyValues DEF CoverInv
  <2>4. \A p \in answered : Offered(p) \subseteq ToSet(sent)
    BY <1>3, <2>1, <2>3 DEF CoverInv
  <2>5. \A x \in ToSet(sent) : \E p \in answered : x \in Offered(p)
    BY <2>1 DEF CoverInv
  <2> QED
    BY <2>3, <2>4, <2>5
<1> QED
  BY <1>2, <1>3 DEF GrabExact, TaskInv, SentInv

\* Every step keeps the invariant.
LEMMA TaskStep == TaskInv /\ [Next]_vars => TaskInv'
BY TaskFetch, TaskTurns, TaskSkip, TaskSend, TaskWriter, TaskStutter DEF Next, grab_task

\* grab delivers each address once and never more than the limit, and ends
\* short of it only when every provider has been asked and everything the
\* answering ones offer was sent: for any registry, pages, patterns, limit,
\* number of concurrent fetches and channel capacity.
THEOREM GrabDeliversExactly == Spec => []GrabExact
<1>1. Init => TaskInv
  BY TaskInit
<1>2. TaskInv /\ [Next]_vars => TaskInv'
  BY TaskStep
<1>3. TaskInv => GrabExact
  BY TaskExact
<1> QED
  BY <1>1, <1>2, <1>3, PTL DEF Spec
-----------------------------------------------------------------------------
(* The output shows the stream, element by element.                         *)

\* A set that is enumerated once over by 1..m has m elements.
LEMMA CountedBy ==
  ASSUME NEW m \in Nat, NEW T, NEW h \in [1..m -> T],
         \A j, k \in 1..m : h[j] = h[k] => j = k,
         \A t \in T : \E k \in 1..m : h[k] = t
  PROVE  IsFiniteSet(T) /\ Cardinality(T) = m
<1>1. IsFiniteSet(1..m) /\ Cardinality(1..m) = m
  <2>1. IsFiniteSet(1..m) /\ Cardinality(1..m) = IF 1 > m THEN 0 ELSE m - 1 + 1
    BY 1 \in Int, m \in Int, FS_Interval
  <2> QED
    BY <2>1
<1>2. h \in Surjection(1..m, T)
  BY DEF Surjection
<1>3. h \in Injection(1..m, T)
  BY DEF Injection, IsInjective
<1> QED
  BY <1>1, <1>2, <1>3, FS_Surjection

\* An increasing enumeration of a set of places is the one Nth makes.
LEMMA InOrderFollows ==
  ASSUME NEW n \in Nat, NEW I \in SUBSET Nat, NEW h \in [1..n -> I],
         \A j, k \in 1..n : j < k => h[j] < h[k],
         \A i \in I : \E k \in 1..n : h[k] = i
  PROVE  /\ IsFiniteSet(I) /\ Cardinality(I) = n
         /\ \A k \in 1..n : Nth(I, k) = h[k]
<1>1. \A j, k \in 1..n : h[j] \in Nat /\ (h[j] < h[k] <=> j < k) /\ (h[j] = h[k] => j = k)
  <2> TAKE j, k \in 1..n
  <2>1. h[j] \in Nat /\ h[k] \in Nat /\ j \in Nat /\ k \in Nat
    <3>1. h[j] \in I /\ h[k] \in I
      OBVIOUS
    <3>2. I \subseteq Nat
      OBVIOUS
    <3>3. h[j] \in Nat /\ h[k] \in Nat
      BY ONLY <3>1, <3>2
    <3>4. j \in Nat /\ k \in Nat
      BY ONLY n \in Nat, j \in 1..n, k \in 1..n
    <3> QED
      BY <3>3, <3>4
  <2>2. (j < k => h[j] < h[k]) /\ (k < j => h[k] < h[j]) /\ (j = k => h[j] = h[k])
    OBVIOUS
  <2> QED
    BY <2>1, <2>2
<1>2. IsFiniteSet(I) /\ Cardinality(I) = n
  BY <1>1, CountedBy
<1>3. ASSUME NEW k \in 1..n PROVE Nth(I, k) = h[k]
  <2> DEFINE T == Below(I, h[k])
             g == [j \in 1..(k - 1) |-> h[j]]
  <2>1. k - 1 \in Nat /\ k \in Nat /\ \A j \in 1..(k - 1) : j \in 1..n /\ j < k
    OBVIOUS
  <2>2. g \in [1..(k - 1) -> T]
    BY <1>1, <2>1 DEF Below
  <2>3. \A j, l \in 1..(k - 1) : g[j] = g[l] => j = l
    BY <1>1, <2>1
  <2>4. ASSUME NEW t \in T PROVE \E j \in 1..(k - 1) : g[j] = t
    <3>1. t \in I /\ t < h[k]
      BY DEF Below
    <3>2. PICK j \in 1..n : h[j] = t
      BY <3>1
    <3>3. j \in 1..(k - 1)
      BY <1>1, <2>1, <3>1, <3>2
    <3> QED
      BY <3>2, <3>3
  <2> HIDE DEF T, g
  <2>5. Cardinality(T) = k - 1
    BY <2>1, <2>2, <2>3, <2>4, CountedBy
  <2>6. h[k] \in I
    OBVIOUS
  <2> QED
    BY <1>2, <2>1, <2>5, <2>6, NthEnumerates DEF T
<1> QED
  BY <1>2, <1>3
\* A sequence of length n with one or two values behind it.
LEMMA Behind ==
  ASSUME NEW n \in Nat, NEW b, b = [i \in 1..n |-> b[i]], NEW x
  PROVE  /\ b \o <<x>> = [i \in 1..(n + 1) |-> IF i <= n THEN b[i] ELSE x]
         /\ b \o <<>> = b
         /\ Len(b) = n
<1> DEFINE S == {b[i] : i \in 1..n} \cup {x}
<1>1. b \in [1..n -> S]
  OBVIOUS
<1>2. b \in Seq(S) /\ x \in S
  BY <1>1
<1> HIDE DEF S
<1>3. DOMAIN b = 1..n
  BY <1>1
<1>4. Len(b) = n
  BY <1>2, <1>3
<1>5. b \o <<x>> = [i \in 1..(n + 1) |-> IF i <= n THEN b[i] ELSE x]
  BY <1>2, <1>4
<1>6. b \o <<>> = b
  BY <1>2
<1> QED
  BY <1>4, <1>5, <1>6

LEMMA BehindTwo ==
  ASSUME NEW n \in Nat, NEW b, b = [i \in 1..n |-> b[i]], NEW x, NEW y
  PROVE  b \o <<x, y>> = [i \in 1..(n + 2) |-> IF i <= n THEN b[i]
                                              ELSE IF i = n + 1 THEN x ELSE y]
<1> DEFINE S == {b[i] : i \in 1..n} \cup {x, y}
<1>1. b \in [1..n -> S]
  OBVIOUS
<1>2. b \in Seq(S) /\ x \in S /\ y \in S
  BY <1>1
<1> HIDE DEF S
<1>3. DOMAIN b = 1..n
  BY <1>1
<1>4. Len(b) = n
  BY <1>2, <1>3
<1> QED
  BY <1>2, <1>4

\* The output and the save file after the first e proxies of q.
ArrayLen(e) == IF e = 0 THEN 1 ELSE 2 * e

Body(fm, q, e) ==
  IF fm = "line" THEN [i \in 1..e |-> Elem(q[i])]
  ELSE [i \in 1..ArrayLen(e) |->
          IF i = 1 THEN Mark("[") ELSE IF i % 2 = 0 THEN Elem(q[i \div 2]) ELSE Mark(",")]

FirstOf(q, e) == [i \in 1..e |-> q[i]]

\* Whatever the format, the elements of the output are those e proxies; a
\* closing bracket behind them changes nothing.
LEMMA BodyElements ==
  ASSUME NEW q, NEW e \in Nat, NEW fm \in {"line", "array"}, fm = format,
         out = Body(fm, q, e) \/ out = Body(fm, q, e) \o suffix
  PROVE  Emitted = FirstOf(q, e)
<1> DEFINE I == {i \in DOMAIN out : out[i].kind = "proxy"}
           h == [k \in 1..e |-> IF fm = "line" THEN k ELSE 2 * k]
<1>1. ASSUME fm = "line"
      PROVE  /\ I = 1..e
             /\ \A k \in 1..e : out[k] = Elem(q[k])
  <2>1. suffix = <<>>
    BY <1>1 DEF suffix
  <2>2. out = [i \in 1..e |-> Elem(q[i])]
    <3> DEFINE S == {Elem(q[i]) : i \in 1..e}
    <3>1. Body(fm, q, e) = [i \in 1..e |-> Elem(q[i])]
      BY <1>1 DEF Body
    <3>2. [i \in 1..e |-> Elem(q[i])] \in Seq(S)
      OBVIOUS
    <3> HIDE DEF S
    <3>3. \A s \in Seq(S) : s \o <<>> = s
      OBVIOUS
    <3> QED
      BY <2>1, <3>1, <3>2, <3>3
  <2> QED
    BY <2>2 DEF Elem
<1>2. ASSUME fm = "array"
      PROVE  /\ I = {i \in 1..(2 * e) : i % 2 = 0}
             /\ \A k \in 1..e : out[2 * k] = Elem(q[k])
  <2> DEFINE n == ArrayLen(e)
             b == Body(fm, q, e)
  <2>1. n \in Nat /\ suffix = <<Mark("]")>>
    BY <1>2 DEF suffix, ArrayLen
  <2>2. /\ b = [i \in 1..n |-> b[i]]
        /\ \A i \in 1..n : b[i] = IF i = 1 THEN Mark("[")
                                 ELSE IF i % 2 = 0 THEN Elem(q[i \div 2]) ELSE Mark(",")
    BY <1>2 DEF Body
  <2>3. \A i \in 1..n : b[i].kind = "proxy" <=> i # 1 /\ i % 2 = 0
    <3>1. Mark("[").kind = "[" /\ Mark(",").kind = "," /\ \A r : Elem(r).kind = "proxy"
      BY DEF Elem, Mark
    <3> HIDE DEF n, b
    <3> QED
      BY <2>2, <3>1
  <2>4. ASSUME NEW k \in 1..e PROVE 2 * k \in 1..n /\ b[2 * k] = Elem(q[k])
    <3>1. 2 * k \in 1..n /\ 2 * k # 1 /\ (2 * k) % 2 = 0 /\ (2 * k) \div 2 = k
      BY DEF ArrayLen
    <3> HIDE DEF n
    <3> QED
      BY <2>2, <3>1
  <2>5. {i \in 1..n : i # 1 /\ i % 2 = 0} = {i \in 1..(2 * e) : i % 2 = 0}
    <3>1. CASE e = 0
      BY <3>1 DEF ArrayLen
    <3>2. CASE e # 0
      <4>1. n = 2 * e
        BY <3>2 DEF ArrayLen
      <4>2. \A i \in 1..n : i % 2 = 0 => i # 1
        BY <2>1
      <4> QED
        BY <4>1, <4>2
    <3> QED
      BY <3>1, <3>2
  <2>6. Mark("]").kind # "proxy"
    BY DEF Mark
  <2> HIDE DEF n, b
  <2>7. /\ DOMAIN out = 1..n \/ DOMAIN out = 1..(n + 1)
        /\ \A i \in 1..n : out[i] = b[i]
        /\ DOMAIN out = 1..(n + 1) => out[n + 1] = Mark("]")
    <3>1. CASE out = b
      <4>1. DOMAIN out = 1..n
        BY <2>2, <3>1
      <4>2. 1..n # 1..(n + 1)
        BY <2>1
      <4> QED
        BY <3>1, <4>1, <4>2
    <3>2. CASE out = b \o <<Mark("]")>>
      <4>0. b = [i \in 1..n |-> b[i]]
        BY <2>2
      <4>1. out = [i \in 1..(n + 1) |-> IF i <= n THEN b[i] ELSE Mark("]")]
        <5>1. n \in Nat
          BY <2>1
        <5>2. ASSUME NEW x PROVE b \o <<x>> = [i \in 1..(n + 1) |-> IF i <= n THEN b[i] ELSE x]
          BY ONLY <5>1, <4>0, Behind
        <5> QED
          BY ONLY <5>2, <3>2
      <4> QED
        <5>1. \A i \in 1..n : i \in 1..(n + 1) /\ i <= n
          BY <2>1
        <5>2. n + 1 \in 1..(n + 1) /\ ~(n + 1 <= n)
          BY <2>1
        <5> QED
          BY <4>1, <5>1, <5>2
    <3> QED
      BY <2>1, <3>1, <3>2 DEF b
  <2>8. I = {i \in 1..n : i # 1 /\ i % 2 = 0}
    <3>1. \A i \in DOMAIN out : i \in 1..n \/ (DOMAIN out = 1..(n + 1) /\ i = n + 1)
      BY <2>1, <2>7
    <3>2. \A i \in 1..n : i \in DOMAIN out
      BY <2>1, <2>7
    <3> QED
      BY <2>3, <2>6, <2>7, <3>1, <3>2
  <2> QED
    BY <2>4, <2>5, <2>7, <2>8
<1>3. /\ I \in SUBSET Nat /\ h \in [1..e -> I]
      /\ \A j, k \in 1..e : j < k => h[j] < h[k]
      /\ \A i \in I : \E k \in 1..e : h[k] = i
      /\ \A k \in 1..e : out[h[k]] = Elem(q[k])
  <2>1. CASE fm = "line"
    BY <1>1, <2>1
  <2>2. CASE fm = "array"
    <3>1. I \in SUBSET Nat
      BY <1>2, <2>2
    <3>2. \A k \in 1..e : 2 * k \in 1..(2 * e) /\ (2 * k) % 2 = 0
      OBVIOUS
    <3>3. h = [k \in 1..e |-> 2 * k]
      BY <2>2
    <3>4. h \in [1..e -> I]
      BY <1>2, <2>2, <3>2, <3>3
    <3>5. \A i \in 1..(2 * e) : i % 2 = 0 => i \div 2 \in 1..e /\ 2 * (i \div 2) = i
      OBVIOUS
    <3>6. \A i \in I : \E k \in 1..e : h[k] = i
      BY <1>2, <2>2, <3>3, <3>5
    <3>7. \A j, k \in 1..e : j < k => h[j] < h[k]
      BY <3>3
    <3> QED
      BY <1>2, <2>2, <3>1, <3>3, <3>4, <3>6, <3>7
  <2> QED
    BY <2>1, <2>2
<1> HIDE DEF I, h
<1>4. /\ IsFiniteSet(I) /\ Cardinality(I) = e
      /\ \A k \in 1..e : Nth(I, k) = h[k]
  BY <1>3, InOrderFollows
<1> DEFINE elems == InOrder(out, I)
<1>5. elems = [k \in 1..e |-> out[h[k]]]
  BY <1>4 DEF InOrder
<1>6. elems = [k \in 1..e |-> Elem(q[k])]
  BY <1>3, <1>5
<1>7. Emitted = [i \in DOMAIN elems |-> elems[i].proxy]
  BY DEF Emitted, I
<1> HIDE DEF elems
<1> QED
  BY <1>6, <1>7 DEF FirstOf, Elem
\* The Emitter writes the next element, with a comma before it unless it is
\* the first.
LEMMA EmitBody ==
  ASSUME NEW q, NEW e \in Nat, format \in {"line", "array"},
         out = Body(format, q, e)
  PROVE  out \o Rendered(q[e + 1]) = Body(format, q, e + 1)
<1> DEFINE x == Elem(q[e + 1])
<1>1. CASE format = "line"
  <2>1. out = [i \in 1..e |-> Elem(q[i])] /\ Rendered(q[e + 1]) = <<x>>
    BY <1>1 DEF Body, Rendered
  <2>2. out = [i \in 1..e |-> out[i]]
    BY <2>1
  <2> HIDE DEF x
  <2>3. \A y : out \o <<y>> = [i \in 1..(e + 1) |-> IF i <= e THEN out[i] ELSE y]
    BY ONLY e \in Nat, <2>2, Behind
  <2>4. out \o <<x>> = [i \in 1..(e + 1) |-> IF i <= e THEN out[i] ELSE x]
    BY ONLY <2>3
  <2>5. ASSUME NEW i \in 1..(e + 1)
        PROVE  (IF i <= e THEN out[i] ELSE x) = Elem(q[i])
    <3>1. CASE i <= e
      BY <2>1, <3>1
    <3>2. CASE ~(i <= e)
      <4>1. i = e + 1
        BY <3>2
      <4> QED
        BY <3>2, <4>1 DEF x
    <3> QED
      BY <3>1, <3>2
  <2>6. Body(format, q, e + 1) = [i \in 1..(e + 1) |-> Elem(q[i])]
    BY <1>1 DEF Body
  <2> QED
    BY <2>1, <2>4, <2>5, <2>6
<1>2. CASE format = "array"
  <2> DEFINE n == ArrayLen(e)
             F(i) == IF i = 1 THEN Mark("[") ELSE IF i % 2 = 0 THEN Elem(q[i \div 2]) ELSE Mark(",")
  <2>1. n \in Nat /\ (e = 0 => n = 1) /\ (e > 0 => n = 2 * e) /\ ArrayLen(e + 1) = 2 * e + 2
    BY DEF ArrayLen
  <2>2. out = [i \in 1..n |-> F(i)] /\ Body(format, q, e + 1) = [i \in 1..(2 * e + 2) |-> F(i)]
    BY <1>2, <2>1 DEF Body
  <2>3. F(2 * e + 2) = x
    <3>1. 2 * e + 2 # 1 /\ (2 * e + 2) % 2 = 0 /\ (2 * e + 2) \div 2 = e + 1
      OBVIOUS
    <3> QED
      BY <3>1
  <2>4. e > 0 => F(2 * e + 1) = Mark(",")
    <3>1. e > 0 => 2 * e + 1 # 1 /\ (2 * e + 1) % 2 # 0
      OBVIOUS
    <3> QED
      BY <3>1
  <2>5. F(1) = Mark("[")
    OBVIOUS
  <2> HIDE DEF n, F, x
  <2>6. out = [i \in 1..n |-> out[i]] /\ \A i \in 1..n : out[i] = F(i)
    BY <2>2
  <2>7. CASE e = 0
    <3>1. prefix = <<Mark("[")>>
      BY <1>2 DEF prefix
    <3>2. out = <<Mark("[")>>
      <4>1. out = [i \in 1..1 |-> F(i)]
        BY <2>1, <2>2, <2>7
      <4> QED
        BY <2>5, <4>1
    <3>3. Rendered(q[e + 1]) = <<x>>
      BY <3>1, <3>2 DEF Rendered, x
    <3>4. Body(format, q, e + 1) = <<F(1), F(2)>>
      BY <2>2, <2>7
    <3>5. F(2) = x
      BY <2>3, <2>7
    <3> QED
      BY <2>5, <3>2, <3>3, <3>4, <3>5
  <2>8. CASE e > 0
    <3>1. out # prefix
      <4>1. Len(out) = n
        BY ONLY <2>1, <2>6, Behind
      <4>2. Len(prefix) = 1
        BY <1>2 DEF prefix
      <4>3. n # 1
        BY <2>1, <2>8
      <4> QED
        BY ONLY <4>1, <4>2, <4>3
    <3> DEFINE c == Mark(",")
    <3>2. Rendered(q[e + 1]) = <<c, x>> /\ F(2 * e + 1) = c
      BY <1>2, <2>4, <2>8, <3>1 DEF Rendered, x
    <3> HIDE DEF c
    <3>4. out \o <<c, x>> = [i \in 1..(n + 2) |-> IF i <= n THEN out[i]
                                                ELSE IF i = n + 1 THEN c ELSE x]
      <4>1. n \in Nat /\ out = [i \in 1..n |-> out[i]]
        BY <2>1, <2>6
      <4> HIDE DEF x, c, n
      <4> QED
        BY ONLY <4>1, BehindTwo
    <3>5. ASSUME NEW i \in 1..(n + 2)
          PROVE  (IF i <= n THEN out[i] ELSE IF i = n + 1 THEN c ELSE x) = F(i)
      <4>1. CASE i <= n
        BY <2>1, <2>6, <4>1
      <4>2. CASE i = n + 1
        <5>1. i = 2 * e + 1 /\ ~(i <= n)
          BY <2>1, <2>8, <4>2
        <5> QED
          BY <3>2, <4>2, <5>1
      <4>3. CASE i = n + 2
        <5>1. i = 2 * e + 2 /\ ~(i <= n) /\ i # n + 1
          BY <2>1, <2>8, <4>3
        <5> QED
          BY <2>3, <4>3, <5>1
      <4>4. i <= n \/ i = n + 1 \/ i = n + 2
        BY ONLY <2>1, i \in 1..(n + 2)
      <4> QED
        BY ONLY <4>1, <4>2, <4>3, <4>4
    <3>6. n + 2 = 2 * e + 2
      BY <2>1, <2>8
    <3> QED
      BY <2>2, <3>2, <3>4, <3>5, <3>6
  <2> QED
    BY <2>7, <2>8
<1> QED
  BY <1>1, <1>2

\* The save file grows by a line.
LEMMA LineAdded ==
  ASSUME NEW q, NEW e \in Nat
  PROVE  Append(FirstOf(q, e), q[e + 1]) = FirstOf(q, e + 1)
<1> DEFINE s == FirstOf(q, e)
           S == {q[i] : i \in 1..(e + 1)}
<1>1. s = [i \in 1..e |-> q[i]] /\ FirstOf(q, e + 1) = [i \in 1..(e + 1) |-> q[i]]
  BY DEF FirstOf
<1>2. s \in [1..e -> S] /\ q[e + 1] \in S
  BY <1>1
<1> HIDE DEF s, S
<1>3. s \in Seq(S) /\ Len(s) = e
  BY <1>2
<1>4. Append(s, q[e + 1]) = [i \in 1..(e + 1) |-> IF i = e + 1 THEN q[e + 1] ELSE s[i]]
  BY <1>2, <1>3
<1> QED
  BY <1>1, <1>4 DEF s

\* What is sent later changes nothing of it.
LEMMA BodyStable ==
  ASSUME NEW S, NEW q \in Seq(S), NEW x \in S, NEW e \in 0..Len(q), NEW fm \in {"line", "array"}
  PROVE  /\ Body(fm, Append(q, x), e) = Body(fm, q, e)
         /\ FirstOf(Append(q, x), e) = FirstOf(q, e)
<1> DEFINE t == Append(q, x)
<1>1. \A i \in 1..e : t[i] = q[i]
  OBVIOUS
<1> HIDE DEF t
<1>2. \A i \in 1..ArrayLen(e) : i # 1 /\ i % 2 = 0 => i \div 2 \in 1..e
  BY DEF ArrayLen
<1>3. fm = "line" => Body(fm, t, e) = Body(fm, q, e)
  BY <1>1 DEF Body
<1>4. fm = "array" => Body(fm, t, e) = Body(fm, q, e)
  <2> DEFINE F(r) == [i \in 1..ArrayLen(e) |->
                        IF i = 1 THEN Mark("[") ELSE IF i % 2 = 0 THEN Elem(r[i \div 2]) ELSE Mark(",")]
  <2>1. F(t) = F(q)
    BY <1>1, <1>2
  <2> QED
    BY <2>1 DEF Body
<1>5. FirstOf(t, e) = FirstOf(q, e)
  BY <1>1 DEF FirstOf
<1> QED
  BY <1>3, <1>4, <1>5 DEF t
-----------------------------------------------------------------------------
(* The writer's sinks follow the stream.                                    *)

Drained == Len(sent) - Len(chan)
Lines(e) == verb = "load" => saved = FirstOf(sent, e)
Shows(e) == out = Body(format, sent, e)
Closed(e) == out = Body(format, sent, e) \o suffix

\* What is left in the channel is the end of what was sent.
ChanInv ==
  writer # "failed" =>
    /\ Len(chan) <= Len(sent)
    /\ \A i \in 1..Len(chan) : chan[i] = sent[Drained + i]

\* What output and save file hold, by where the writer is.
ShowInv ==
  /\ writer = "opening" => Drained = 0 /\ out = <<>> /\ Lines(0) /\ ~torn
  /\ writer = "draining" => Shows(Drained) /\ Lines(Drained) /\ ~torn
  /\ writer = "emitting" =>
       /\ Drained > 0 /\ item = <<sent[Drained]>>
       /\ Shows(Drained - 1) /\ Lines(Drained - 1) /\ ~torn
  /\ writer = "saving" =>
       /\ Drained > 0 /\ item = <<sent[Drained]>>
       /\ Shows(Drained) /\ Lines(IF torn THEN Drained ELSE Drained - 1)
  /\ writer \in {"flushing", "done"} =>
       /\ at = "ended" /\ Drained = Len(sent)
       /\ out = Body(format, sent, Drained) \o suffix /\ Lines(Drained) /\ ~torn
  /\ writer = "failed" => \E e \in 0..Len(sent) :
       /\ Shows(e) \/ (e = 0 /\ out = <<>>) \/ (at = "ended" /\ Closed(e))
       /\ Lines(e) \/ (e > 0 /\ ~torn /\ Lines(e - 1))
       /\ torn /\ verb = "load" => e > 0

SinkInv == TaskInv /\ ChanInv /\ ShowInv

\* What has been drained is a number of the items sent.
LEMMA DrainedType ==
  ASSUME SinkInv
  PROVE  /\ sent \in Seq(Candidate) /\ chan \in Seq(Candidate)
         /\ Len(sent) \in Nat /\ Len(chan) \in Nat
         /\ format \in {"line", "array"} /\ verb \in {"grab", "load"}
         /\ writer # "failed" => Drained \in 0..Len(sent)
<1>1. /\ sent \in Seq(Candidate) /\ chan \in Seq(Candidate)
      /\ format \in {"line", "array"} /\ verb \in {"grab", "load"}
  BY DEF SinkInv, TaskInv, TypeInv
<1>2. Len(sent) \in Nat /\ Len(chan) \in Nat
  BY <1>1
<1> QED
  BY <1>1, <1>2 DEF SinkInv, ChanInv, Drained

\* The first none of a sequence.
LEMMA NothingShown ==
  ASSUME NEW q
  PROVE  FirstOf(q, 0) = <<>>
<1>1. FirstOf(q, 0) = [i \in 1..0 |-> q[i]]
  BY DEF FirstOf
<1> QED
  BY <1>1

\* Before the sinks are created nothing was drained.
LEMMA SinkInit == Init => SinkInv
<1> SUFFICES ASSUME Init PROVE SinkInv
  OBVIOUS
<1>1. TaskInv
  BY TaskInit
<1>2. chan = sent /\ sent \in Seq(Candidate) /\ writer = "opening"
  BY <1>1 DEF Init, TaskInv, TypeInv
<1>3. Len(sent) \in Nat /\ Drained = 0
  BY <1>2 DEF Drained
<1>4. ChanInv
  BY <1>2, <1>3 DEF ChanInv
<1>5. ShowInv
  <2>1. out = <<>> /\ saved = <<>> /\ ~torn
    BY DEF Init
  <2>2. Lines(0)
    BY <2>1, NothingShown DEF Lines
  <2> QED
    BY <1>2, <1>3, <2>1, <2>2 DEF ShowInv
<1> QED
  BY <1>1, <1>4, <1>5 DEF SinkInv

\* The task touches the sinks only by sending.
LEMMA SinkTask ==
  ASSUME SinkInv, TaskInv', grab_task
  PROVE  SinkInv'
<1>0. /\ sent \in Seq(Candidate) /\ chan \in Seq(Candidate)
      /\ Len(sent) \in Nat /\ Len(chan) \in Nat
      /\ format \in {"line", "array"}
      /\ writer # "failed" => Drained \in 0..Len(sent)
  BY DrainedType
<1>1. /\ at # "ended" /\ verb = "grab"
      /\ UNCHANGED <<verb, format, writer, item, out, saved, torn>>
  BY DEF grab_task, fetch, NoMoreFetches, BatchDone, Stop, Skip, Send, flags, sinks,
         SinkInv, TaskInv, TypeInv
<1>2. writer \notin {"flushing", "done"}
  BY <1>1 DEF SinkInv, ShowInv
<1>3. CASE UNCHANGED <<sent, chan>>
  <2>1. ChanInv'
    BY <1>1, <1>3 DEF SinkInv, ChanInv, Drained
  <2>2. ShowInv'
    BY <1>1, <1>2, <1>3 DEF SinkInv, ShowInv, Drained, Lines, Shows
  <2> QED
    BY <2>1, <2>2 DEF SinkInv
<1>4. CASE /\ Send /\ listening
           /\ chan' = Append(chan, Head(batch)) /\ sent' = Append(sent, Head(batch))
  <2> DEFINE x == Head(batch)
  <2>1. x \in Candidate
    <3>1. batch \in Seq(Candidate) /\ batch # <<>>
      BY <1>4 DEF SinkInv, TaskInv, TypeInv, Send
    <3> QED
      BY <3>1, TailValues
  <2>2. chan' = Append(chan, x) /\ sent' = Append(sent, x)
    BY <1>4
  <2> HIDE DEF x
  <2>3. writer # "failed"
    BY <1>4 DEF SinkInv, TaskInv, TypeInv
  <2>4. /\ Len(chan') = Len(chan) + 1 /\ Len(sent') = Len(sent) + 1
        /\ \A i \in 1..Len(sent) : sent'[i] = sent[i]
        /\ sent'[Len(sent) + 1] = x
        /\ \A i \in 1..Len(chan) : chan'[i] = chan[i]
        /\ chan'[Len(chan) + 1] = x
    BY <1>0, <2>1, <2>2
  <2>5. Drained' = Drained /\ Drained \in 0..Len(sent) /\ Len(chan) <= Len(sent)
    BY <1>0, <2>3, <2>4 DEF Drained
  <2>6. ASSUME NEW i \in 1..Len(chan') PROVE chan'[i] = sent'[Drained' + i]
    <3>1. CASE i \in 1..Len(chan)
      <4>1. Drained + i \in 1..Len(sent)
        BY <1>0, <2>5, <3>1 DEF Drained
      <4>2. chan[i] = sent[Drained + i]
        BY <2>3, <3>1 DEF SinkInv, ChanInv
      <4> QED
        BY <2>4, <2>5, <3>1, <4>1, <4>2
    <3>2. CASE i = Len(chan) + 1
      <4>1. Drained + i = Len(sent) + 1
        BY <1>0, <3>2 DEF Drained
      <4> QED
        BY <2>4, <2>5, <3>2, <4>1
    <3> QED
      BY <1>0, <2>4, <3>1, <3>2
  <2>7. ChanInv'
    BY <1>0, <2>4, <2>5, <2>6 DEF ChanInv
  <2>8. \A e \in 0..Len(sent) : Shows(e) => Shows(e)'
    BY <1>0, <1>1, <2>1, <2>2, BodyStable DEF Shows
  <2>9. \A e : Lines(e)'
    BY <1>1 DEF Lines
  <2>10. Drained > 0 => sent'[Drained] = sent[Drained] /\ Drained - 1 \in 0..Len(sent)
    BY <1>0, <2>4, <2>5
  <2>11. ShowInv'
    <3>1. CASE writer = "opening"
      BY <1>1, <2>5, <2>9, <3>1 DEF SinkInv, ShowInv
    <3>2. CASE writer = "draining"
      BY <1>1, <2>5, <2>8, <2>9, <3>2 DEF SinkInv, ShowInv
    <3>3. CASE writer = "emitting"
      BY <1>1, <2>5, <2>8, <2>9, <2>10, <3>3 DEF SinkInv, ShowInv
    <3>4. CASE writer = "saving"
      BY <1>1, <2>5, <2>8, <2>9, <2>10, <3>4 DEF SinkInv, ShowInv
    <3> QED
      BY <1>1, <1>2, <2>3, <3>1, <3>2, <3>3, <3>4 DEF SinkInv, TaskInv, TypeInv, Over
  <2> QED
    BY <2>7, <2>11 DEF SinkInv
<1> QED
  BY <1>3, <1>4 DEF grab_task, fetch, NoMoreFetches, BatchDone, Stop, Skip, Send
\* What the writer does with the next proxy, up to the end of the stream.
LEMMA SinkWriter ==
  ASSUME SinkInv, TaskInv',
         Create \/ Receive \/ Emit \/ SaveBegins \/ SaveEnds \/ Finish \/ Flush
  PROVE  SinkInv'
<1>0. /\ sent \in Seq(Candidate) /\ chan \in Seq(Candidate)
      /\ Len(sent) \in Nat /\ Len(chan) \in Nat
      /\ format \in {"line", "array"} /\ verb \in {"grab", "load"}
      /\ writer # "failed" => Drained \in 0..Len(sent)
  BY DrainedType
<1>1. UNCHANGED <<verb, format, sent, at>> /\ writer # "failed" /\ writer' # "failed"
  BY DEF Create, Receive, Emit, SaveBegins, SaveEnds, Finish, Flush, StreamEnds, flags, task
<1>2. ASSUME UNCHANGED chan PROVE ChanInv' /\ Drained' = Drained
  BY <1>1, <1>2 DEF SinkInv, ChanInv, Drained
<1>3. CASE Create
  <2>1. UNCHANGED <<chan, saved, torn>> /\ writer = "opening" /\ writer' = "draining" /\ out' = prefix
    BY <1>3 DEF Create
  <2>2. Drained = 0 /\ Lines(0) /\ ~torn
    BY <2>1 DEF SinkInv, ShowInv
  <2>3. prefix = Body(format, sent, 0)
    <3>1. CASE format = "line"
      <4>1. Body(format, sent, 0) = [i \in 1..0 |-> Elem(sent[i])] /\ prefix = <<>>
        BY <3>1 DEF Body, prefix
      <4> QED
        BY <4>1
    <3>2. CASE format = "array"
      <4> DEFINE b == Body(format, sent, 0)
      <4>1. b = [i \in 1..1 |-> b[i]] /\ b[1] = Mark("[")
        BY <3>2 DEF Body, ArrayLen
      <4>2. prefix = <<Mark("[")>>
        BY <3>2 DEF prefix
      <4> HIDE DEF b
      <4>3. b = <<Mark("[")>>
        BY <4>1
      <4> QED
        BY <4>2, <4>3 DEF b
    <3> QED
      BY <1>0, <3>1, <3>2
  <2>4. ShowInv'
    BY <1>1, <1>2, <2>1, <2>2, <2>3 DEF ShowInv, Shows, Lines
  <2> QED
    BY <1>2, <2>1, <2>4 DEF SinkInv
<1>4. CASE Receive
  <2>1. /\ UNCHANGED <<out, saved, torn>> /\ writer = "draining" /\ writer' = "emitting"
        /\ chan # <<>> /\ chan' = Tail(chan) /\ item' = <<Head(chan)>>
    BY <1>4 DEF Receive
  <2>2. /\ Len(chan) > 0 /\ Len(chan') = Len(chan) - 1 /\ Head(chan) = chan[1]
        /\ \A i \in 1..Len(chan') : chan'[i] = chan[i + 1]
    BY <1>0, <2>1
  <2>3. /\ Drained' = Drained + 1 /\ Drained \in Nat /\ Drained' - 1 = Drained
    BY <1>0, <1>1, <2>2 DEF Drained
  <2>4. \A i \in 1..Len(chan) : chan[i] = sent[Drained + i]
    BY <1>1 DEF SinkInv, ChanInv
  <2>5. ASSUME NEW i \in 1..Len(chan') PROVE chan'[i] = sent'[Drained' + i]
    <3>1. i + 1 \in 1..Len(chan) /\ Drained' + i = Drained + (i + 1)
      BY <1>0, <2>2, <2>3
    <3>2. chan[i + 1] = sent[Drained + (i + 1)]
      BY ONLY <2>4, <3>1
    <3> QED
      BY <1>1, <2>2, <3>1, <3>2
  <2>6. Len(chan') <= Len(sent')
    BY <1>0, <1>1, <2>2 DEF SinkInv, ChanInv
  <2>7. ChanInv'
    BY <2>5, <2>6 DEF ChanInv
  <2>8. item' = <<sent[Drained + 1]>>
    <3>1. 1 \in 1..Len(chan)
      BY <1>0, <2>2
    <3>2. chan[1] = sent[Drained + 1]
      BY ONLY <2>4, <3>1
    <3> QED
      BY <2>1, <2>2, <3>2
  <2>9. Shows(Drained) /\ Lines(Drained) /\ ~torn
    BY <2>1 DEF SinkInv, ShowInv
  <2>10. Shows(Drained - 1)' /\ Lines(Drained - 1)'
    BY <1>1, <2>1, <2>3, <2>9 DEF Shows, Lines
  <2>11. ShowInv'
    BY <1>1, <2>1, <2>3, <2>8, <2>9, <2>10 DEF ShowInv
  <2> QED
    BY <2>7, <2>11 DEF SinkInv
<1>5. CASE Emit
  <2>1. /\ UNCHANGED <<chan, item, saved, torn>> /\ writer = "emitting"
        /\ out' = out \o Rendered(item[1])
        /\ writer' = IF verb = "load" THEN "saving" ELSE "draining"
    BY <1>5 DEF Emit
  <2>2. /\ Drained > 0 /\ item = <<sent[Drained]>>
        /\ Shows(Drained - 1) /\ Lines(Drained - 1) /\ ~torn
    BY <2>1 DEF SinkInv, ShowInv
  <2>3. Drained - 1 \in Nat /\ (Drained - 1) + 1 = Drained
    BY <1>0, <1>1, <2>2
  <2>4. out' = Body(format, sent, Drained)
    <3> DEFINE e == Drained - 1
    <3>1. e \in Nat /\ e + 1 = Drained /\ out = Body(format, sent, e)
      BY <2>2, <2>3 DEF Shows
    <3> HIDE DEF e
    <3>2. out \o Rendered(sent[e + 1]) = Body(format, sent, e + 1)
      BY <1>0, <3>1, EmitBody
    <3> QED
      BY <2>1, <2>2, <3>1, <3>2
  <2>5. Shows(Drained)' /\ Drained' = Drained
    BY <1>1, <1>2, <2>1, <2>4 DEF Shows
  <2>6. Lines(Drained - 1)' /\ (verb # "load" => Lines(Drained)')
    BY <1>1, <2>1, <2>2, <2>5 DEF Lines
  <2>7. ShowInv'
    <3>1. CASE verb = "load"
      BY <1>1, <2>1, <2>2, <2>5, <2>6, <3>1 DEF ShowInv
    <3>2. CASE verb # "load"
      BY <1>1, <2>1, <2>2, <2>5, <2>6, <3>2 DEF ShowInv
    <3> QED
      BY <3>1, <3>2
  <2> QED
    BY <1>2, <2>1, <2>7 DEF SinkInv
<1>6. CASE SaveBegins
  <2>1. /\ UNCHANGED <<chan, item, out, writer>> /\ writer = "saving" /\ ~torn /\ torn' = TRUE
        /\ saved' = Append(saved, item[1])
    BY <1>6 DEF SaveBegins
  <2>2. /\ Drained > 0 /\ item = <<sent[Drained]>> /\ Shows(Drained) /\ Lines(Drained - 1)
    BY <2>1 DEF SinkInv, ShowInv
  <2>3. Drained - 1 \in Nat /\ (Drained - 1) + 1 = Drained
    BY <1>0, <1>1, <2>2
  <2>4. verb = "load" => saved' = FirstOf(sent, Drained)
    <3> DEFINE e == Drained - 1
    <3>1. e \in Nat /\ e + 1 = Drained /\ (verb = "load" => saved = FirstOf(sent, e))
      BY <2>2, <2>3 DEF Lines
    <3> HIDE DEF e
    <3>2. Append(FirstOf(sent, e), sent[e + 1]) = FirstOf(sent, e + 1)
      BY <3>1, LineAdded
    <3> QED
      BY <2>1, <2>2, <3>1, <3>2
  <2>5. Shows(Drained)' /\ Drained' = Drained /\ Lines(Drained)'
    BY <1>1, <1>2, <2>1, <2>2, <2>4 DEF Shows, Lines
  <2>6. ShowInv'
    BY <1>1, <2>1, <2>2, <2>5 DEF ShowInv
  <2> QED
    BY <1>2, <2>1, <2>6 DEF SinkInv
<1>7. CASE SaveEnds
  <2>1. /\ UNCHANGED <<chan, item, out, saved>> /\ writer = "saving" /\ torn /\ torn' = FALSE
        /\ writer' = "draining"
    BY <1>7 DEF SaveEnds
  <2>2. Shows(Drained) /\ Lines(Drained)
    BY <2>1 DEF SinkInv, ShowInv
  <2>3. Shows(Drained)' /\ Drained' = Drained /\ Lines(Drained)'
    BY <1>1, <1>2, <2>1, <2>2 DEF Shows, Lines
  <2>4. ShowInv'
    BY <1>1, <2>1, <2>3 DEF ShowInv
  <2> QED
    BY <1>2, <2>1, <2>4 DEF SinkInv
<1>8. CASE Finish
  <2>1. /\ UNCHANGED <<chan, item, saved, torn>> /\ writer = "draining" /\ chan = <<>>
        /\ at = "ended" /\ out' = out \o suffix /\ writer' = "flushing"
    BY <1>8 DEF Finish, StreamEnds
  <2>2. Shows(Drained) /\ Lines(Drained) /\ ~torn
    BY <2>1 DEF SinkInv, ShowInv
  <2>3. Drained = Len(sent) /\ Drained' = Drained
    BY <1>0, <1>1, <2>1 DEF Drained
  <2>4. out' = Body(format', sent', Drained') \o suffix' /\ Lines(Drained)'
    BY <1>1, <2>1, <2>2, <2>3 DEF Shows, Lines, suffix
  <2>5. ShowInv'
    BY <1>1, <2>1, <2>2, <2>3, <2>4 DEF ShowInv
  <2> QED
    BY <1>2, <2>1, <2>5 DEF SinkInv
<1>9. CASE Flush
  <2>1. /\ UNCHANGED <<chan, item, out, saved, torn>> /\ writer = "flushing" /\ writer' = "done"
    BY <1>9 DEF Flush
  <2>2. /\ at = "ended" /\ Drained = Len(sent)
        /\ out = Body(format, sent, Drained) \o suffix /\ Lines(Drained) /\ ~torn
    BY <2>1 DEF SinkInv, ShowInv
  <2>3. Drained' = Drained /\ suffix' = suffix /\ Lines(Drained)'
    BY <1>1, <1>2, <2>1, <2>2 DEF Lines, suffix
  <2>4. ShowInv'
    BY <1>1, <2>1, <2>2, <2>3 DEF ShowInv
  <2> QED
    BY <1>2, <2>1, <2>4 DEF SinkInv
<1> QED
  BY <1>3, <1>4, <1>5, <1>6, <1>7, <1>8, <1>9

\* A write that fails changes neither what was handed to the output nor the
\* save file.
LEMMA SinkFails ==
  ASSUME SinkInv, TaskInv', WriteFails \/ StdoutFails \/ ErrorSurfaces
  PROVE  SinkInv'
<1>0. /\ Len(sent) \in Nat /\ writer # "failed" => Drained \in 0..Len(sent)
  BY DrainedType
<1>1. /\ UNCHANGED <<verb, format, sent, at, out, saved, torn>>
      /\ writer \in {"opening", "emitting", "saving", "flushing"} \/ StreamEnds
      /\ writer' = "failed"
  BY DEF WriteFails, StdoutFails, ErrorSurfaces, Fail, flags, task
<1>2. ASSUME NEW e
      PROVE (Shows(e)' <=> Shows(e)) /\ (Closed(e)' <=> Closed(e)) /\ (Lines(e)' <=> Lines(e))
  BY <1>1 DEF Shows, Closed, suffix, Lines
<1>3. \E e \in 0..Len(sent) :
         /\ Shows(e) \/ (e = 0 /\ out = <<>>) \/ (at = "ended" /\ Closed(e))
         /\ Lines(e) \/ (e > 0 /\ ~torn /\ Lines(e - 1))
         /\ torn /\ verb = "load" => e > 0
  <2>1. CASE writer = "opening"
    <3>1. 0 \in 0..Len(sent) /\ out = <<>> /\ Lines(0) /\ ~torn
      BY <1>0, <2>1 DEF SinkInv, ShowInv
    <3> QED
      BY <3>1
  <2>2. CASE writer = "emitting"
    <3>1. Drained - 1 \in 0..Len(sent) /\ Shows(Drained - 1) /\ Lines(Drained - 1) /\ ~torn
      BY <1>0, <2>2 DEF SinkInv, ShowInv
    <3> QED
      BY <3>1
  <2>3. CASE writer = "saving"
    <3>1. /\ Drained \in 0..Len(sent) /\ Drained > 0 /\ Shows(Drained)
          /\ Lines(Drained) \/ (~torn /\ Lines(Drained - 1))
      BY <1>0, <2>3 DEF SinkInv, ShowInv
    <3> QED
      BY <3>1
  <2>4. CASE StreamEnds
    <3>1. Drained \in 0..Len(sent) /\ Shows(Drained) /\ Lines(Drained) /\ ~torn
      BY <1>0, <2>4 DEF SinkInv, ShowInv, StreamEnds
    <3> QED
      BY <3>1
  <2>5. CASE writer = "flushing"
    <3>1. /\ Drained \in 0..Len(sent) /\ at = "ended" /\ Closed(Drained)
          /\ Lines(Drained) /\ ~torn
      BY <1>0, <2>5 DEF SinkInv, ShowInv, Closed
    <3> QED
      BY <3>1
  <2> QED
    BY <1>1, <2>1, <2>2, <2>3, <2>4, <2>5
<1>4. PICK e \in 0..Len(sent) :
         /\ Shows(e) \/ (e = 0 /\ out = <<>>) \/ (at = "ended" /\ Closed(e))
         /\ Lines(e) \/ (e > 0 /\ ~torn /\ Lines(e - 1))
         /\ torn /\ verb = "load" => e > 0
  BY <1>3
<1>5. /\ e \in 0..Len(sent')
      /\ Shows(e)' \/ (e = 0 /\ out' = <<>>) \/ (at' = "ended" /\ Closed(e)')
      /\ Lines(e)' \/ (e > 0 /\ ~torn' /\ Lines(e - 1)')
      /\ torn' /\ verb' = "load" => e > 0
  BY <1>1, <1>2, <1>4
<1>6. ChanInv' /\ ShowInv'
  BY <1>1, <1>5 DEF ChanInv, ShowInv
<1> QED
  BY <1>6 DEF SinkInv

\* A write that ends in the background changes neither, nor does stuttering.
LEMMA SinkStutter ==
  ASSUME SinkInv, TaskInv', UNCHANGED vars \/ Land
  PROVE  SinkInv'
<1>1. TaskInv'
  OBVIOUS
<1>2. UNCHANGED <<verb, format, sent, chan, writer, item, out, saved, torn, at>>
  BY DEF vars, flags, task, sinks, Land
<1>3. ChanInv'
  BY <1>2 DEF SinkInv, ChanInv, Drained
<1>4. ShowInv'
  BY <1>2 DEF SinkInv, ShowInv, Drained, Shows, Closed, Lines, suffix
<1> QED
  BY <1>1, <1>3, <1>4 DEF SinkInv
\* Before the first write has been made the output has no elements.
LEMMA EmptyOutput == out = <<>> => Emitted = <<>>
<1> SUFFICES ASSUME out = <<>> PROVE Emitted = <<>>
  OBVIOUS
<1> DEFINE I == {i \in DOMAIN out : out[i].kind = "proxy"}
           elems == InOrder(out, I)
<1>1. I = {} /\ Cardinality({}) = 0
  BY FS_EmptySet
<1>2. DOMAIN elems = 1..0
  BY <1>1 DEF InOrder
<1>3. Emitted = [i \in DOMAIN elems |-> elems[i].proxy]
  BY DEF Emitted
<1> HIDE DEF elems
<1> QED
  BY <1>2, <1>3

\* In every state the output shows some first e proxies, the save file of
\* `check --load` as many or one less, and when the writer is done all.
LEMMA SinkExtent ==
  ASSUME SinkInv
  PROVE  \E e \in 0..Len(sent) :
           /\ Emitted = FirstOf(sent, e)
           /\ Lines(e) \/ (e > 0 /\ ~torn /\ Lines(e - 1))
           /\ torn /\ verb = "load" => e > 0
           /\ writer = "done" =>
                e = Len(sent) /\ Lines(e) /\ ~torn /\ out = Body(format, sent, e) \o suffix
<1>0. /\ Len(sent) \in Nat /\ format \in {"line", "array"}
      /\ writer # "failed" => Drained \in 0..Len(sent)
  BY DrainedType
<1>1. ASSUME NEW e \in 0..Len(sent), Shows(e) PROVE Emitted = FirstOf(sent, e)
  BY <1>0, <1>1, BodyElements DEF Shows
<1>2. out = <<>> => Emitted = FirstOf(sent, 0)
  BY EmptyOutput, NothingShown
<1>3. CASE writer = "opening"
  <2>1. 0 \in 0..Len(sent) /\ out = <<>> /\ Lines(0) /\ ~torn
    BY <1>0, <1>3 DEF SinkInv, ShowInv
  <2> QED
    BY <1>2, <1>3, <2>1
<1>4. CASE writer = "draining"
  <2>1. Drained \in 0..Len(sent) /\ Shows(Drained) /\ Lines(Drained) /\ ~torn
    BY <1>0, <1>4 DEF SinkInv, ShowInv
  <2> QED
    BY <1>1, <1>4, <2>1
<1>5. CASE writer = "emitting"
  <2>1. Drained - 1 \in 0..Len(sent) /\ Shows(Drained - 1) /\ Lines(Drained - 1) /\ ~torn
    BY <1>0, <1>5 DEF SinkInv, ShowInv
  <2> QED
    BY <1>1, <1>5, <2>1
<1>6. CASE writer = "saving"
  <2>1. /\ Drained \in 0..Len(sent) /\ Drained > 0 /\ Shows(Drained)
        /\ Lines(Drained) \/ (~torn /\ Lines(Drained - 1))
    BY <1>0, <1>6 DEF SinkInv, ShowInv
  <2> QED
    BY <1>1, <1>6, <2>1
<1>7. CASE writer \in {"flushing", "done"}
  <2> DEFINE e == Len(sent)
  <2>1. e \in 0..Len(sent) /\ Lines(e) /\ ~torn /\ out = Body(format, sent, e) \o suffix
    BY <1>0, <1>7 DEF SinkInv, ShowInv
  <2>2. e \in Nat /\ format \in {"line", "array"}
    BY <1>0
  <2> HIDE DEF e
  <2>3. Emitted = FirstOf(sent, e)
    BY <2>1, <2>2, BodyElements
  <2> QED
    BY <1>7, <2>1, <2>3 DEF e
<1>8. CASE writer = "failed"
  <2>1. PICK e \in 0..Len(sent) :
          /\ Shows(e) \/ (e = 0 /\ out = <<>>) \/ (at = "ended" /\ Closed(e))
          /\ Lines(e) \/ (e > 0 /\ ~torn /\ Lines(e - 1))
          /\ torn /\ verb = "load" => e > 0
    BY <1>8 DEF SinkInv, ShowInv
  <2>2. Emitted = FirstOf(sent, e)
    <3>0. e \in Nat
      BY <1>0
    <3>1. Closed(e) => Emitted = FirstOf(sent, e)
      BY <1>0, <3>0, BodyElements DEF Closed
    <3> QED
      BY <1>1, <1>2, <2>1, <3>1
  <2> QED
    BY <1>8, <2>1, <2>2
<1> QED
  BY <1>3, <1>4, <1>5, <1>6, <1>7, <1>8 DEF SinkInv, TaskInv, TypeInv, Over

\* One proxy less, or none, is a prefix.
LEMMA FirstOfPrefix ==
  ASSUME NEW q, NEW e \in Nat, NEW d \in 0..e
  PROVE  Len(FirstOf(q, d)) = d /\ IsPrefix(FirstOf(q, d), FirstOf(q, e))
<1> DEFINE S == {q[i] : i \in 1..e}
           s == FirstOf(q, d)
           t == FirstOf(q, e)
<1>1. /\ s \in [1..d -> S] /\ t \in [1..e -> S] /\ d \in Nat /\ d <= e
      /\ \A i \in 1..d : s[i] = t[i]
  BY DEF FirstOf
<1> HIDE DEF S, s, t
<1>2. s \in Seq(S) /\ t \in Seq(S) /\ Len(s) = d /\ Len(t) = e
  BY <1>1
<1>3. SubSeq(s, 1, d) = SubSeq(t, 1, d)
  BY <1>1, <1>2
<1> QED
  BY <1>1, <1>2, <1>3 DEF IsPrefix, s, t

-----------------------------------------------------------------------------
(* What the output holds of what was handed to it.                          *)

Piece == {Mark(c) : c \in {"[", ",", "]"}} \cup {Elem(x) : x \in Candidate}

\* A file lacks at most the write in flight, lines on stdout lack nothing; a
\* piece is half there only after a write has failed, and a command that is
\* done has had everything written.
LandInv ==
  /\ sink \in {"file", "stdout"}
  /\ out \in Seq(Piece)
  /\ landed \in 0..Len(out)
  /\ sink = "file" => \A i, j \in Unheld : i = j
  /\ sink = "stdout" /\ format = "line" => landed = Len(out)
  /\ half => writer = "failed" \/ spoiled
  /\ spoiled => sink = "file" \/ writer = "failed"
  /\ writer = "done" => landed = Len(out) /\ ~half

\* Nothing has been handed over yet.
LEMMA LandInit == Init => LandInv
<1> SUFFICES ASSUME Init PROVE LandInv
  OBVIOUS
<1>1. /\ sink \in {"file", "stdout"} /\ out = <<>> /\ landed = 0
      /\ half = FALSE /\ spoiled = FALSE /\ writer = "opening"
  BY DEF Init
<1>2. out \in Seq(Piece) /\ Len(out) = 0 /\ DOMAIN out = {}
  BY <1>1
<1> QED
  BY <1>1, <1>2 DEF LandInv, Unheld

\* What a step adds to the output has at most one proxy, its last piece.
Addition(t) ==
  /\ t \in Seq(Piece) /\ Len(t) \in Nat
  /\ \A k \in 1..Len(t) : t[k].kind = "proxy" => k = Len(t)

\* Behind a longer output it still has.
LEMMA HandOver ==
  ASSUME NEW s \in Seq(Piece), NEW t, Addition(t)
  PROVE  /\ s \o t \in Seq(Piece) /\ Len(s \o t) = Len(s) + Len(t)
         /\ \A i \in DOMAIN (s \o t) :
              i > Len(s) /\ (s \o t)[i].kind = "proxy" => i = Len(s \o t)
<1>0. t \in Seq(Piece)
  BY DEF Addition
<1>1. s \o t \in Seq(Piece) /\ Len(s \o t) = Len(s) + Len(t)
  BY <1>0
<1>2. ASSUME NEW i \in DOMAIN (s \o t), i > Len(s), (s \o t)[i].kind = "proxy"
      PROVE  i = Len(s \o t)
  <2>1. Len(s) \in Nat /\ Len(t) \in Nat /\ i \in 1..(Len(s) + Len(t))
    BY <1>0, <1>1
  <2>2. i - Len(s) \in 1..Len(t) /\ (s \o t)[i] = t[i - Len(s)]
    BY <1>0, <1>2, <2>1
  <2>3. i - Len(s) = Len(t)
    BY <1>2, <2>2 DEF Addition
  <2> QED
    BY <1>1, <2>1, <2>3
<1> QED
  BY <1>1, <1>2

\* The brackets and what is rendered are such additions.
LEMMA Brackets == Addition(prefix) /\ Addition(suffix)
<1>1. /\ Mark("[") \in Piece /\ Mark("]") \in Piece
      /\ Mark("[").kind = "[" /\ Mark("]").kind = "]"
  BY DEF Piece, Mark
<1>2. ASSUME NEW q \in Piece PROVE Addition(<<q>>)
  BY DEF Addition
<1>3. Addition(<<>>)
  BY DEF Addition
<1> QED
  BY <1>1, <1>2, <1>3 DEF prefix, suffix

LEMMA RenderedAdds ==
  ASSUME NEW x \in Candidate
  PROVE  Addition(Rendered(x))
<1>1. Mark(",") \in Piece /\ Elem(x) \in Piece /\ Mark(",").kind = ","
  BY DEF Piece, Mark
<1>2. ASSUME NEW q \in Piece PROVE Addition(<<q>>)
  BY DEF Addition
<1>3. ASSUME NEW p \in Piece, NEW q \in Piece, p.kind # "proxy"
      PROVE  Addition(<<p, q>>)
  <2>1. <<p, q>>[1] = p /\ Len(<<p, q>>) = 2 /\ <<p, q>> \in Seq(Piece)
    OBVIOUS
  <2> QED
    BY <1>3, <2>1 DEF Addition
<1> QED
  BY <1>1, <1>2, <1>3 DEF Rendered

\* Every step keeps the invariant.
LEMMA LandStep == SinkInv /\ LandInv /\ [Next]_vars => LandInv'
<1> SUFFICES ASSUME SinkInv, LandInv, [Next]_vars PROVE LandInv'
  OBVIOUS
<1>0. /\ sink \in {"file", "stdout"} /\ format \in {"line", "array"}
      /\ out \in Seq(Piece) /\ Len(out) \in Nat /\ landed \in 0..Len(out)
      /\ sink = "file" => \A i, j \in Unheld : i = j
      /\ sink = "stdout" /\ format = "line" => landed = Len(out)
      /\ half => writer = "failed" \/ spoiled
      /\ spoiled => sink = "file" \/ writer = "failed"
      /\ writer = "done" => landed = Len(out) /\ ~half
  BY DEF LandInv, SinkInv, TaskInv, TypeInv
<1>1. UNCHANGED <<sink, format>>
  BY DEF Next, vars, flags, grab_task, fetch, NoMoreFetches, BatchDone, Stop, Skip, Send,
         write_stream, Create, Receive, Emit, SaveBegins, SaveEnds, Finish, Flush,
         ErrorSurfaces, WriteFails, StdoutFails, Fail, Land
<1>2. CASE UNCHANGED <<out, landed, half, spoiled>> /\ (writer' = "done" => writer = "done")
           /\ (writer = "failed" => writer' = "failed")
  BY <1>0, <1>1, <1>2 DEF LandInv, Unheld
<1>3. CASE grab_task \/ UNCHANGED vars \/ Receive \/ SaveBegins \/ SaveEnds
           \/ ErrorSurfaces \/ WriteFails
  BY <1>2, <1>3 DEF grab_task, fetch, NoMoreFetches, BatchDone, Stop, Skip, Send,
         vars, sinks, land, Receive, SaveBegins, SaveEnds, ErrorSurfaces, WriteFails, Fail
<1>4. ASSUME NEW t, Addition(t), out' = out \o t, landed' \in landed..Len(out'),
             sink = "file" => landed' = Len(out),
             sink = "stdout" /\ format = "line" => landed' = Len(out'),
             UNCHANGED <<half, spoiled>>, writer' # "done", writer # "failed"
      PROVE  LandInv'
  <2>1. /\ out' \in Seq(Piece) /\ Len(out') = Len(out) + Len(t) /\ Len(t) \in Nat
        /\ \A i \in DOMAIN out' : i > Len(out) /\ out'[i].kind = "proxy" => i = Len(out')
    <3>1. /\ out \o t \in Seq(Piece) /\ Len(out \o t) = Len(out) + Len(t)
          /\ \A i \in DOMAIN (out \o t) :
               i > Len(out) /\ (out \o t)[i].kind = "proxy" => i = Len(out \o t)
      BY <1>0, <1>4, HandOver
    <3> QED
      BY <1>4, <3>1 DEF Addition
  <2>2. sink = "file" => \A i, j \in Unheld' : i = j
    BY <1>4, <2>1 DEF Unheld
  <2>3. landed' \in 0..Len(out')
    BY <1>0, <1>4, <2>1
  <2> QED
    BY <1>0, <1>1, <1>4, <2>1, <2>2, <2>3 DEF LandInv
<1>5. ASSUME NEW t, Addition(t) PROVE Len(out \o t) = Len(out) + Len(t) /\ Len(t) \in Nat
  BY <1>0, <1>5, HandOver DEF Addition
<1>6. CASE UNCHANGED <<out, half, spoiled>> /\ landed' = Len(out) /\ writer' # "failed"
           /\ writer # "failed" /\ Settled
  <2>1. Unheld' = {}
    BY <1>0, <1>6 DEF Unheld
  <2>2. ~half
    BY <1>0, <1>6 DEF Settled
  <2> QED
    BY <1>0, <1>1, <1>6, <2>1, <2>2 DEF LandInv
<1>7. CASE Create
  <2>1. /\ writer = "opening" /\ writer' = "draining" /\ out' = prefix
        /\ UNCHANGED <<landed, half, spoiled>>
    BY <1>7 DEF Create, land
  <2>2. out = <<>> /\ Len(out) = 0 /\ landed = 0
    BY <1>0, <2>1 DEF SinkInv, ShowInv
  <2>3. prefix = out \o prefix
    BY <2>2, Brackets DEF Addition
  <2>4. landed' \in landed..Len(out') /\ (format = "line" => Len(out') = 0)
    <3>1. Len(prefix) \in Nat /\ (format = "line" => Len(prefix) = 0)
      BY Brackets DEF Addition, prefix
    <3> QED
      BY <2>1, <2>2, <3>1
  <2> QED
    BY <1>4, <2>1, <2>2, <2>3, <2>4, Brackets
<1>8. CASE Emit
  <2> DEFINE x == item[1]
  <2>1. /\ writer = "emitting" /\ Settled /\ out' = out \o Rendered(x)
        /\ \/ sink = "file" /\ UNCHANGED landed
           \/ sink = "stdout" /\ format = "line" /\ landed' = Len(out')
           \/ sink = "stdout" /\ format = "array" /\ landed' \in {landed, Len(out), Len(out')}
        /\ writer' \in {"saving", "draining"} /\ UNCHANGED <<half, spoiled>>
    BY <1>8 DEF Emit
  <2>2. x \in Candidate
    <3>1. /\ Drained > 0 /\ item = <<sent[Drained]>>
      BY <2>1 DEF SinkInv, ShowInv
    <3>2. sent \in Seq(Candidate) /\ Len(sent) \in Nat /\ Drained \in 0..Len(sent)
      BY <2>1, DrainedType
    <3> QED
      BY <3>1, <3>2
  <2> HIDE DEF x
  <2>3. Addition(Rendered(x))
    BY <2>2, RenderedAdds
  <2>4. Len(out') = Len(out) + Len(Rendered(x)) /\ Len(Rendered(x)) \in Nat
    BY <1>5, <2>1, <2>3
  <2>5. landed' \in landed..Len(out')
    BY <1>0, <2>1, <2>4
  <2>6. sink = "file" => landed' = Len(out)
    BY <2>1 DEF Settled
  <2> QED
    BY <1>4, <2>1, <2>3, <2>5, <2>6
<1>9. CASE Finish
  <2>1. /\ writer = "draining" /\ writer' = "flushing" /\ Settled /\ out' = out \o suffix
        /\ UNCHANGED <<landed, half, spoiled>>
    BY <1>9 DEF Finish, StreamEnds, land
  <2>2. Len(out') = Len(out) + Len(suffix) /\ Len(suffix) \in Nat
    BY <1>5, <2>1, Brackets
  <2>3. format = "line" => Len(suffix) = 0
    BY DEF suffix
  <2>4. landed' \in landed..Len(out')
    BY <1>0, <2>1, <2>2
  <2>5. sink = "stdout" /\ format = "line" => landed' = Len(out')
    BY <1>0, <2>1, <2>2, <2>3
  <2>6. sink = "file" => landed' = Len(out)
    BY <2>1 DEF Settled
  <2> QED
    BY <1>4, <2>1, <2>4, <2>5, <2>6, Brackets
<1>10. CASE Flush
  BY <1>6, <1>10 DEF Flush
<1>11. CASE StdoutFails
  <2>1. /\ sink = "stdout" /\ landed' \in landed..Len(out) /\ writer' = "failed"
        /\ UNCHANGED <<out, spoiled>>
    BY <1>11 DEF StdoutFails, Fail
  <2> QED
    BY <1>0, <1>1, <2>1 DEF LandInv
<1>12. CASE Land
  <2>1. /\ sink = "file" \/ writer = "failed"
        /\ landed < Len(out) /\ UNCHANGED <<out, writer>>
        /\ landed' \in landed..Len(out)
        /\ (half' = FALSE /\ spoiled' = spoiled) \/ spoiled' = TRUE
    BY <1>0, <1>12 DEF Land
  <2>2. Unheld' \subseteq Unheld
    BY <1>0, <2>1 DEF Unheld
  <2>3. sink = "file" => \A i, j \in Unheld' : i = j
    BY <1>0, <2>2
  <2>4. landed' \in 0..Len(out) /\ (landed = Len(out) => FALSE)
    BY <1>0, <2>1
  <2> QED
    BY <1>0, <1>1, <2>1, <2>3, <2>4 DEF LandInv
<1> QED
  BY <1>3, <1>7, <1>8, <1>9, <1>10, <1>11, <1>12 DEF Next, write_stream

\* The invariant gives what the run checks.
LEMMA SinkAgree == SinkInv /\ LandInv => SinksAgree
<1> SUFFICES ASSUME SinkInv, LandInv PROVE SinksAgree
  OBVIOUS
<1>1. PICK e \in 0..Len(sent) :
        /\ Emitted = FirstOf(sent, e)
        /\ Lines(e) \/ (e > 0 /\ ~torn /\ Lines(e - 1))
        /\ torn /\ verb = "load" => e > 0
        /\ writer = "done" =>
             e = Len(sent) /\ Lines(e) /\ ~torn /\ out = Body(format, sent, e) \o suffix
  BY SinkExtent
<1>2. sent \in Seq(Candidate) /\ Len(sent) \in Nat /\ e \in Nat
  BY DrainedType
<1>3. FirstOf(sent, Len(sent)) = sent
  <2>1. sent = [i \in 1..Len(sent) |-> sent[i]]
    BY <1>2
  <2> QED
    BY <2>1 DEF FirstOf
<1>4. writer = "done" => Emitted = sent
  BY <1>1, <1>3
<1>5. ASSUME verb = "load"
      PROVE  /\ IsPrefix(saved, Emitted)
             /\ Len(Emitted) - Len(saved) \in {0, 1}
             /\ torn => saved # <<>> /\ saved = Emitted
             /\ writer = "done" => saved = FileProxies /\ ~torn
  <2>1. Len(Emitted) = e
    <3>1. Len(FirstOf(sent, e)) = e
      BY <1>2, e \in 0..e, FirstOfPrefix
    <3> QED
      BY <1>1, <3>1
  <2>2. sent = FileProxies
    BY <1>5 DEF SinkInv, TaskInv, TypeInv
  <2>3. CASE Lines(e)
    <3>1. saved = FirstOf(sent, e)
      BY <1>5, <2>3 DEF Lines
    <3>2. IsPrefix(saved, Emitted) /\ Len(saved) = e
      BY <1>1, <1>2, <3>1, e \in 0..e, FirstOfPrefix
    <3>3. e > 0 => saved # <<>>
      BY <3>2
    <3> QED
      BY <1>1, <1>2, <1>3, <1>5, <2>1, <2>2, <3>1, <3>2, <3>3
  <2>4. CASE e > 0 /\ ~torn /\ Lines(e - 1)
    <3>1. saved = FirstOf(sent, e - 1) /\ e - 1 \in 0..e
      BY <1>2, <1>5, <2>4 DEF Lines
    <3>2. IsPrefix(saved, Emitted) /\ Len(saved) = e - 1
      BY <1>1, <1>2, <3>1, FirstOfPrefix
    <3>3. writer = "done" => saved = FileProxies
      BY <1>1, <1>3, <1>5, <2>2 DEF Lines
    <3> QED
      BY <1>2, <2>1, <2>4, <3>2, <3>3
  <2> QED
    BY <1>1, <2>3, <2>4
<1>6. ASSUME writer = "done", format = "array"
      PROVE  /\ out[1].kind = "[" /\ out[Len(out)].kind = "]"
             /\ Len(out) = 2 + Len(sent) + (IF sent = <<>> THEN 0 ELSE Len(sent) - 1)
             /\ \A i \in 2..(Len(out) - 1) : out[i].kind = "," <=> i % 2 = 1
  <2> DEFINE n == ArrayLen(e)
             b == Body(format, sent, e)
             c == Mark("]")
  <2>1. n \in Nat /\ n > 0 /\ n + 1 = 2 + e + (IF e = 0 THEN 0 ELSE e - 1)
    BY <1>2 DEF ArrayLen
  <2>2. /\ b = [i \in 1..n |-> b[i]]
        /\ \A i \in 1..n : b[i] = IF i = 1 THEN Mark("[")
                                 ELSE IF i % 2 = 0 THEN Elem(sent[i \div 2]) ELSE Mark(",")
    BY <1>6 DEF Body
  <2>3. out = b \o <<c>> /\ e = Len(sent)
    BY <1>1, <1>6 DEF suffix
  <2>4. /\ Mark("[").kind = "[" /\ Mark(",").kind = "," /\ c.kind = "]"
        /\ \A r : Elem(r).kind = "proxy"
    BY DEF Mark, Elem
  <2> HIDE DEF n, b, c
  <2>5. b = [i \in 1..n |-> b[i]] /\ n \in Nat
    BY <2>1, <2>2
  <2>6. b \o <<c>> = [i \in 1..(n + 1) |-> IF i <= n THEN b[i] ELSE c]
    BY ONLY <2>5, Behind
  <2>7. out = [i \in 1..(n + 1) |-> IF i <= n THEN b[i] ELSE c]
    BY <2>3, <2>6
  <2>8. Len(out) = n + 1
    <3>1. DOMAIN out = 1..(n + 1) /\ n + 1 \in Nat
      BY <2>1, <2>7
    <3>2. out \in Seq({b[i] : i \in 1..n} \cup {c})
      <4> DEFINE S == {b[i] : i \in 1..n} \cup {c}
      <4>1. b \in [1..n -> S] /\ c \in S
        BY <2>5
      <4> HIDE DEF S
      <4>2. b \in Seq(S) /\ <<c>> \in Seq(S)
        BY <2>5, <4>1
      <4> QED
        BY <2>3, <4>2 DEF S
    <3> QED
      BY <3>1, <3>2
  <2>9. /\ \A i \in 1..n : out[i] = b[i]
        /\ out[n + 1] = c
    <3>1. \A i \in 1..n : i \in 1..(n + 1) /\ i <= n
      BY <2>1
    <3>2. n + 1 \in 1..(n + 1) /\ ~(n + 1 <= n)
      BY <2>1
    <3> QED
      BY ONLY <2>7, <3>1, <3>2
  <2>10. out[1].kind = "[" /\ out[Len(out)].kind = "]"
    <3>1. 1 \in 1..n
      BY <2>1
    <3> QED
      BY <2>2, <2>4, <2>8, <2>9, <3>1
  <2>11. Len(out) = 2 + Len(sent) + (IF sent = <<>> THEN 0 ELSE Len(sent) - 1)
    <3>1. sent = <<>> <=> Len(sent) = 0
      BY <1>2
    <3> QED
      BY ONLY <1>2, <2>1, <2>3, <2>8, <3>1
  <2>12. ASSUME NEW i \in 2..(Len(out) - 1)
         PROVE  out[i].kind = "," <=> i % 2 = 1
    <3>1. i \in 1..n /\ i # 1 /\ i % 2 \in {0, 1}
      BY <2>1, <2>8
    <3>2. out[i] = IF i % 2 = 0 THEN Elem(sent[i \div 2]) ELSE Mark(",")
      BY <2>2, <2>9, <3>1
    <3>3. CASE i % 2 = 0
      <4>1. out[i].kind = "proxy"
        BY <3>2, <3>3 DEF Elem
      <4> QED
        BY ONLY <4>1, <3>3
    <3>4. CASE i % 2 = 1
      <4>1. out[i].kind = ","
        <5>1. i % 2 # 0
          BY <3>4
        <5>2. out[i] = Mark(",")
          BY ONLY <3>2, <5>1
        <5> QED
          BY ONLY <2>4, <5>2
      <4> QED
        BY ONLY <4>1, <3>4
    <3> QED
      BY ONLY <3>1, <3>3, <3>4
  <2> QED
    BY <2>10, <2>11, <2>12
<1>7. /\ sink = "file" => \A i, j \in Unheld : i = j
      /\ writer = "done" => landed = Len(out) /\ ~half
  BY DEF LandInv
<1>8. sink = "stdout" /\ format = "line" => Unheld = {}
  <2>1. out \in Seq(Piece)
    BY DEF LandInv
  <2>2. DOMAIN out = 1..Len(out) /\ Len(out) \in Nat
    BY <2>1
  <2> QED
    BY <2>2 DEF LandInv, Unheld
<1> QED
  BY <1>4, <1>5, <1>6, <1>7, <1>8 DEF SinksAgree

\* Every step keeps the invariant.
LEMMA SinkStep == SinkInv /\ [Next]_vars => SinkInv'
<1> SUFFICES ASSUME SinkInv, [Next]_vars PROVE SinkInv'
  OBVIOUS
<1>1. TaskInv'
  BY TaskStep DEF SinkInv
<1> QED
  BY <1>1, SinkTask, SinkWriter, SinkFails, SinkStutter DEF Next, write_stream

\* The output and the save file hold the stream in order in every state,
\* however the output's buffer is drained and wherever a write fails; the save
\* file is at most one proxy ahead of an output file, and a command that ends
\* well has written all of both: for any stream, either sink and both formats.
THEOREM GrabSinksAgree == Spec => []SinksAgree
<1>1. Init => SinkInv /\ LandInv
  BY SinkInit, LandInit
<1>2. SinkInv /\ LandInv /\ [Next]_vars => SinkInv' /\ LandInv'
  BY SinkStep, LandStep
<1>3. SinkInv /\ LandInv => SinksAgree
  BY SinkAgree
<1> QED
  BY <1>1, <1>2, <1>3, PTL DEF Spec
=============================================================================
