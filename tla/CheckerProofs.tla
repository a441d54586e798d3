--------------------------- MODULE CheckerProofs ---------------------------
(***************************************************************************)
(* Proofs about building a checker and checking one proxy with it, for     *)
(* every set of endpoints, judges, queries and deeds of the proxy.         *)
(***************************************************************************)
EXTENDS Checker, FiniteSetTheorems, SequenceTheorems, TLAPS

-----------------------------------------------------------------------------
(* The inductive invariants.                                               *)

\* The checker under construction.  Nothing is checked before it is ready,
\* and what its mode says about the judges holds from then on.
BuildInv ==
  /\ query \in Queries
  /\ phase \in {"start", "ips", "judges", "ready", "NoTypes",
                "ExtIpUnknown", "NoJudges"}
  /\ asked \subseteq Endpoint /\ real_ext_ips \subseteq HostIps
  /\ unprobed \subseteq Judge /\ judges \subseteq Judge \ unprobed
  /\ mode \in {"none", "Judged", "Liveness"}
  /\ phase = "ready" <=> mode # "none"
  /\ mode = "Judged" => judges # {}
  /\ mode = "Liveness" => judges = {}
  /\ verdict # "idle" => phase = "ready"

Levels == AnonLevel \cup {None}

CapSets == SUBSET {"cookie", "referer"}

SignalSets == SUBSET {"InjectedHeader"}

TypeMaps == UNION {[T -> Levels] : T \in SUBSET Proto}

\* The proxy as the checker keeps it.
ProxyRec ==
  [types : TypeMaps,
   requests : Nat, runtimes : Nat, retryable : Nat, final : Nat,
   caps : CapSets, trust : SignalSets]

\* The protocol being checked is neither waiting nor confirmed, and it is
\* checked against a judge of its own flavour.
CurOK ==
  /\ cur.proto \in ngtrs \ (todo \cup DOMAIN seen)
  /\ cur.judge \in JudgesFor(cur.proto)
  /\ cur.i \in Nat /\ cur.i < query.max_tries
  /\ cur.step \in Nat /\ 1 <= cur.step /\ cur.step <= Len(attempt(cur.proto))
  /\ cur = [proto |-> cur.proto, judge |-> cur.judge, i |-> cur.i,
            step |-> cur.step]

\* The walk over the protocols: those confirmed have left todo, and a
\* confirmed type has its history.
WalkInv ==
  /\ verdict \in {"idle", "checking", "pass", "fail", "emit", "drop"}
  /\ proxy \in ProxyRec
  /\ todo \subseteq ngtrs
  /\ verdict = "idle" => proxy = NewProxy /\ seen = <<>> /\ todo = {}
  /\ verdict # "checking" => cur = None
  /\ cur # None => CurOK
  /\ DOMAIN seen \subseteq ngtrs \ todo
  /\ \A p \in DOMAIN seen : seen[p].judge \in JudgesFor(p)
  /\ DOMAIN proxy.types \subseteq DOMAIN seen
  /\ \A p \in DOMAIN proxy.types : p # "Http" => proxy.types[p] = None

\* What the pages showed is what the proxy is credited with, and held
\* against it.
ShownInv ==
  /\ \A p \in Shown : seen[p].injected
       /\ (query.trust_check \/ query.require_trusted)
         => "InjectedHeader" \in proxy.trust
  /\ \A c \in proxy.caps : \E p \in Shown : c \in seen[p].caps

\* The confirmed types that meet the request.
Wanted == {p \in DOMAIN proxy.types : Matches(p, proxy.types[p])}

VerdictInv ==
  /\ verdict \in {"pass", "emit"} =>
       Wanted # {} /\ (query.strict => Wanted = DOMAIN proxy.types)
  /\ verdict = "emit" => passes

Begun == Cardinality(ngtrs) - Cardinality(todo)

\* The attempts: the protocols begun before the one in progress are closed,
\* and have used at most max_tries attempts each.
CountInv ==
  /\ proxy.requests = proxy.runtimes + errors(proxy)
  /\ proxy.runtimes = Cardinality(DOMAIN seen)
  /\ verdict = "checking" /\ cur = None =>
       /\ proxy.runtimes + proxy.final <= Begun
       /\ proxy.retryable <= query.max_tries * Begun
  /\ verdict = "checking" /\ cur # None =>
       /\ proxy.runtimes + proxy.final <= Begun - 1
       /\ proxy.retryable <= query.max_tries * (Begun - 1) + cur.i
       /\ proxy.retryable >= cur.i

-----------------------------------------------------------------------------
(* What the operators of the model return.                                 *)

\* The walk takes one of the protocols that are left.
LEMMA FrontIn ==
  ASSUME NEW S \in SUBSET Proto, S # {}
  PROVE  Front(S) \in S
<1> DEFINE First(i) == ALL[i] \in S /\ \A k \in 1..i - 1 : ALL[k] \notin S
<1>1. DOMAIN ALL = 1..6
  BY DEF ALL
<1>2. \E i \in 1..6 : ALL[i] \in S
  <2>1. PICK p \in Proto : p \in S
    OBVIOUS
  <2>2. \E i \in 1..6 : ALL[i] = p
    BY DEF ALL, Proto
  <2> QED
    BY <2>1, <2>2
<1>3. \E i \in 1..6 : First(i)
  <2>1. CASE First(1)
    BY <2>1
  <2>2. CASE ~First(1) /\ First(2)
    BY <2>2
  <2>3. CASE ALL[1] \notin S /\ ALL[2] \notin S /\ ALL[3] \in S
    BY <2>3
  <2>4. CASE /\ ALL[1] \notin S /\ ALL[2] \notin S /\ ALL[3] \notin S
             /\ ALL[4] \in S
    BY <2>4
  <2>5. CASE /\ ALL[1] \notin S /\ ALL[2] \notin S /\ ALL[3] \notin S
             /\ ALL[4] \notin S /\ ALL[5] \in S
    BY <2>5
  <2>6. CASE /\ ALL[1] \notin S /\ ALL[2] \notin S /\ ALL[3] \notin S
             /\ ALL[4] \notin S /\ ALL[5] \notin S
    BY <2>6, <1>2
  <2> QED
    BY <2>1, <2>2, <2>3, <2>4, <2>5, <2>6
<1>4. First(CHOOSE i \in DOMAIN ALL : First(i))
  BY <1>1, <1>3, Zenon
<1> QED
  BY <1>4 DEF Front

StepName == {"dial", "connect_write", "read_head", "smtp_banner", "tls",
             "socks4", "socks5", "request", "read_response"}

\* An attempt has at least the dial.
LEMMA AttemptLen ==
  ASSUME NEW p \in Proto
  PROVE  Len(attempt(p)) \in Nat /\ Len(attempt(p)) >= 1
<1> DEFINE tail == IF p = "Connect25" THEN <<>>
                   ELSE <<"request", "read_response">>
<1>1. http_connect \in Seq(StepName) /\ Len(http_connect) = 2
  BY DEF http_connect, StepName
<1>2. http_connect \o <<"smtp_banner">> \in Seq(StepName)
  BY <1>1 DEF StepName
<1>3. http_connect \o <<"tls">> \in Seq(StepName)
  BY <1>1 DEF StepName
<1>4. negotiate(p) \in Seq(StepName)
  <2>1. CASE p = "Http"
    BY <2>1 DEF negotiate
  <2>2. CASE p = "Socks4"
    BY <2>2 DEF negotiate, StepName
  <2>3. CASE p = "Socks5"
    BY <2>3 DEF negotiate, StepName
  <2>4. CASE p = "Connect80"
    BY <1>1, <2>4 DEF negotiate
  <2>5. CASE p = "Connect25"
    BY <1>2, <2>5 DEF negotiate
  <2>6. CASE p = "Https"
    BY <1>3, <2>6 DEF negotiate
  <2> QED
    BY <2>1, <2>2, <2>3, <2>4, <2>5, <2>6 DEF Proto
<1>5. tail \in Seq(StepName)
  <2>1. <<"request", "read_response">> \in Seq(StepName)
    BY DEF StepName
  <2>2. <<>> \in Seq(StepName)
    OBVIOUS
  <2> QED
    BY <2>1, <2>2
<1>6. <<"dial">> \in Seq(StepName) /\ Len(<<"dial">>) = 1
  BY DEF StepName
<1> HIDE DEF tail
<1>7. /\ <<"dial">> \o negotiate(p) \in Seq(StepName)
      /\ Len(<<"dial">> \o negotiate(p)) = 1 + Len(negotiate(p))
  BY <1>4, <1>6, ConcatProperties
<1>8. Len((<<"dial">> \o negotiate(p)) \o tail)
        = 1 + Len(negotiate(p)) + Len(tail)
  BY <1>5, <1>7, ConcatProperties
<1>9. attempt(p) = (<<"dial">> \o negotiate(p)) \o tail
  BY DEF attempt, tail
<1> QED
  BY <1>4, <1>5, <1>8, <1>9, LenProperties

\* What BuildInv says of the query.
LEMMA QueryFacts ==
  ASSUME query \in Queries
  PROVE  /\ DOMAIN query.types \subseteq Proto
         /\ ngtrs \subseteq DOMAIN query.types
         /\ ngtrs \subseteq Proto
         /\ query.max_tries \in Nat
         /\ query.require \subseteq {"cookie", "referer", "connect25"}
<1>1. query \in Query
  BY JudgesAssumption
<1>2. PICK T \in SUBSET Proto : query.types \in [T -> SUBSET AnonLevel]
  BY <1>1 DEF Query
<1> QED
  BY <1>1, <1>2 DEF Query, ngtrs

LEMMA ProtoFinite == IsFiniteSet(Proto)
<1>1. IsFiniteSet({"Http"} \cup {"Https"} \cup {"Socks4"} \cup {"Socks5"}
                  \cup {"Connect80"} \cup {"Connect25"})
  BY FS_Singleton, FS_Union
<1>2. Proto = {"Http"} \cup {"Https"} \cup {"Socks4"} \cup {"Socks5"}
                \cup {"Connect80"} \cup {"Connect25"}
  BY DEF Proto
<1> QED
  BY <1>1, <1>2

\* The operations on the proxy, field by field.
LEMMA SetRequests ==
  ASSUME NEW r \in ProxyRec, NEW n \in Nat
  PROVE  [r EXCEPT !.requests = n] \in ProxyRec
  BY DEF ProxyRec

LEMMA SetRuntimes ==
  ASSUME NEW r \in ProxyRec, NEW n \in Nat
  PROVE  [r EXCEPT !.runtimes = n] \in ProxyRec
  BY DEF ProxyRec

LEMMA SetRetryable ==
  ASSUME NEW r \in ProxyRec, NEW n \in Nat
  PROVE  [r EXCEPT !.retryable = n] \in ProxyRec
  BY DEF ProxyRec

LEMMA SetFinal ==
  ASSUME NEW r \in ProxyRec, NEW n \in Nat
  PROVE  [r EXCEPT !.final = n] \in ProxyRec
  BY DEF ProxyRec

LEMMA OkIs ==
  ASSUME NEW r \in ProxyRec
  PROVE  /\ record_attempt_ok(r) \in ProxyRec
         /\ record_attempt_ok(r).types = r.types
         /\ record_attempt_ok(r).caps = r.caps
         /\ record_attempt_ok(r).trust = r.trust
         /\ record_attempt_ok(r).runtimes = r.runtimes + 1
         /\ record_attempt_ok(r).requests = r.requests + 1
         /\ record_attempt_ok(r).retryable = r.retryable
         /\ record_attempt_ok(r).final = r.final
<1>1. [r EXCEPT !.requests = r.requests + 1] \in ProxyRec
  BY SetRequests, r.requests + 1 \in Nat DEF ProxyRec
<1>2. [[r EXCEPT !.requests = r.requests + 1]
         EXCEPT !.runtimes = r.runtimes + 1] \in ProxyRec
  BY <1>1, SetRuntimes, r.runtimes + 1 \in Nat DEF ProxyRec
<1>3. record_attempt_ok(r) = [[r EXCEPT !.requests = r.requests + 1]
                                EXCEPT !.runtimes = r.runtimes + 1]
  BY DEF record_attempt_ok, ProxyRec
<1> QED
  BY <1>2, <1>3 DEF ProxyRec

\* A failed attempt.
LEMMA ErrIs ==
  ASSUME NEW r \in ProxyRec, NEW e
  PROVE  /\ record_attempt_err(r, e) \in ProxyRec
         /\ record_attempt_err(r, e).types = r.types
         /\ record_attempt_err(r, e).caps = r.caps
         /\ record_attempt_err(r, e).trust = r.trust
         /\ record_attempt_err(r, e).runtimes = r.runtimes
         /\ record_attempt_err(r, e).requests = r.requests + 1
         /\ IF e \in query.retry_on
            THEN /\ record_attempt_err(r, e).retryable = r.retryable + 1
                 /\ record_attempt_err(r, e).final = r.final
            ELSE /\ record_attempt_err(r, e).retryable = r.retryable
                 /\ record_attempt_err(r, e).final = r.final + 1
<1>1. [r EXCEPT !.requests = r.requests + 1] \in ProxyRec
  BY SetRequests, r.requests + 1 \in Nat DEF ProxyRec
<1>2. CASE e \in query.retry_on
  <2>1. [[r EXCEPT !.requests = r.requests + 1]
           EXCEPT !.retryable = r.retryable + 1] \in ProxyRec
    BY <1>1, SetRetryable, r.retryable + 1 \in Nat DEF ProxyRec
  <2>2. record_attempt_err(r, e) = [[r EXCEPT !.requests = r.requests + 1]
                                      EXCEPT !.retryable = r.retryable + 1]
    BY <1>2 DEF record_attempt_err, ProxyRec
  <2> QED
    BY <1>2, <2>1, <2>2 DEF ProxyRec
<1>3. CASE e \notin query.retry_on
  <2>1. [[r EXCEPT !.requests = r.requests + 1]
           EXCEPT !.final = r.final + 1] \in ProxyRec
    BY <1>1, SetFinal, r.final + 1 \in Nat DEF ProxyRec
  <2>2. record_attempt_err(r, e) = [[r EXCEPT !.requests = r.requests + 1]
                                      EXCEPT !.final = r.final + 1]
    BY <1>3 DEF record_attempt_err, ProxyRec
  <2> QED
    BY <1>3, <2>1, <2>2 DEF ProxyRec
<1> QED
  BY <1>2, <1>3

LEMMA InsertType ==
  ASSUME NEW f \in TypeMaps, NEW p \in Proto, NEW level \in Levels
  PROVE  Insert(f, p, level) \in TypeMaps
<1>1. PICK T \in SUBSET Proto : f \in [T -> Levels]
  BY DEF TypeMaps
<1>2. Insert(f, p, level) \in [T \cup {p} -> Levels]
  BY <1>1 DEF Insert
<1> QED
  BY <1>2 DEF TypeMaps

LEMMA AddTypeIs ==
  ASSUME NEW r \in ProxyRec, NEW p \in Proto, NEW level \in Levels
  PROVE  /\ add_type(r, p, level) \in ProxyRec
         /\ add_type(r, p, level).types = Insert(r.types, p, level)
         /\ add_type(r, p, level).caps = r.caps
         /\ add_type(r, p, level).trust = r.trust
         /\ add_type(r, p, level).runtimes = r.runtimes
         /\ add_type(r, p, level).requests = r.requests
         /\ add_type(r, p, level).retryable = r.retryable
         /\ add_type(r, p, level).final = r.final
<1>1. Insert(r.types, p, level) \in TypeMaps
  BY InsertType DEF ProxyRec
<1> QED
  BY <1>1 DEF add_type, ProxyRec

LEMMA CapsIs ==
  ASSUME NEW r \in ProxyRec, NEW caps \in CapSets
  PROVE  /\ record_caps(r, caps) \in ProxyRec
         /\ record_caps(r, caps).types = r.types
         /\ record_caps(r, caps).caps = r.caps \cup caps
         /\ record_caps(r, caps).trust = r.trust
         /\ record_caps(r, caps).runtimes = r.runtimes
         /\ record_caps(r, caps).requests = r.requests
         /\ record_caps(r, caps).retryable = r.retryable
         /\ record_caps(r, caps).final = r.final
  BY DEF record_caps, ProxyRec, CapSets

LEMMA TrustIs ==
  ASSUME NEW r \in ProxyRec, NEW signals \in SignalSets
  PROVE  /\ record_trust(r, signals) \in ProxyRec
         /\ record_trust(r, signals).types = r.types
         /\ record_trust(r, signals).caps = r.caps
         /\ record_trust(r, signals).trust = r.trust \cup signals
         /\ record_trust(r, signals).runtimes = r.runtimes
         /\ record_trust(r, signals).requests = r.requests
         /\ record_trust(r, signals).retryable = r.retryable
         /\ record_trust(r, signals).final = r.final
  BY DEF record_trust, ProxyRec, SignalSets

\* A working attempt.
LEMMA WorkingIs ==
  ASSUME proxy \in ProxyRec, cur.proto \in Proto, NEW level \in Levels,
         NEW caps \in CapSets,
         NEW signals \in SignalSets
  PROVE  /\ Working(level, caps, signals) \in ProxyRec
         /\ Working(level, caps, signals).types = Insert(proxy.types, cur.proto, level)
         /\ Working(level, caps, signals).caps = proxy.caps \cup caps
         /\ Working(level, caps, signals).trust = proxy.trust \cup signals
         /\ Working(level, caps, signals).runtimes = proxy.runtimes + 1
         /\ Working(level, caps, signals).requests = proxy.requests + 1
         /\ Working(level, caps, signals).retryable = proxy.retryable
         /\ Working(level, caps, signals).final = proxy.final
<1> DEFINE ok == record_attempt_ok(proxy)
           typed == add_type(ok, cur.proto, level)
           shown == record_caps(typed, caps)
           w == record_trust(shown, signals)
<1>1. /\ ok \in ProxyRec
      /\ ok.types = proxy.types /\ ok.caps = proxy.caps
      /\ ok.trust = proxy.trust /\ ok.runtimes = proxy.runtimes + 1
      /\ ok.requests = proxy.requests + 1
      /\ ok.retryable = proxy.retryable /\ ok.final = proxy.final
  BY OkIs
<1> HIDE DEF ok
<1>2. /\ typed \in ProxyRec
      /\ typed.types = Insert(ok.types, cur.proto, level)
      /\ typed.caps = ok.caps
      /\ typed.trust = ok.trust /\ typed.runtimes = ok.runtimes
      /\ typed.requests = ok.requests
      /\ typed.retryable = ok.retryable /\ typed.final = ok.final
  BY <1>1, AddTypeIs
<1> HIDE DEF typed
<1>3. /\ shown \in ProxyRec
      /\ shown.types = typed.types /\ shown.caps = typed.caps \cup caps
      /\ shown.trust = typed.trust /\ shown.runtimes = typed.runtimes
      /\ shown.requests = typed.requests
      /\ shown.retryable = typed.retryable /\ shown.final = typed.final
  BY <1>2, CapsIs
<1> HIDE DEF shown
<1>4. /\ w \in ProxyRec
      /\ w.types = shown.types /\ w.caps = shown.caps
      /\ w.trust = shown.trust \cup signals /\ w.runtimes = shown.runtimes
      /\ w.requests = shown.requests
      /\ w.retryable = shown.retryable /\ w.final = shown.final
  BY <1>3, TrustIs
<1> HIDE DEF w
<1>5. Working(level, caps, signals) = w
  BY DEF Working, w, shown, typed, ok
<1> QED
  BY <1>1, <1>2, <1>3, <1>4, <1>5

-----------------------------------------------------------------------------
(* The construction, and the walk over the protocols.                      *)

LEMMA BuildNextInv == BuildInv /\ [Next]_vars => BuildInv'
<1> SUFFICES ASSUME BuildInv, [Next]_vars PROVE BuildInv'
  OBVIOUS
<1> USE JudgesAssumption DEF BuildInv, checkVars
<1>1. CASE UNCHANGED vars
  BY <1>1 DEF vars, buildVars
<1>2. CASE StartBuild /\ UNCHANGED checkVars
  BY <1>2 DEF StartBuild
<1>3. ASSUME NEW e \in Endpoint, EndpointAnswers(e), UNCHANGED checkVars
      PROVE  BuildInv'
  <2>1. EndpointIp[e] \in HostIps
    OBVIOUS
  <2> QED
    BY <1>3, <2>1 DEF EndpointAnswers
<1>4. CASE external_ips /\ UNCHANGED checkVars
  BY <1>4 DEF external_ips
<1>5. ASSUME NEW j \in Judge, ProbeJudge(j), UNCHANGED checkVars
      PROVE  BuildInv'
  BY <1>5 DEF ProbeJudge
<1>6. CASE BuiltJudged /\ UNCHANGED checkVars
  BY <1>6 DEF BuiltJudged
<1>7. CASE BuiltLiveness /\ UNCHANGED checkVars
  BY <1>7 DEF BuiltLiveness
<1>8. CASE CheckNext
  <2>1. UNCHANGED buildVars /\ (verdict' # "idle" => phase = "ready")
    BY <1>8 DEF CheckNext, InDnsbl, StartCheck, StartOne, StepPasses, StepFails,
       Unobserved, PageArrives, EndCheck, types_passed, Filter
  <2> QED
    BY <2>1 DEF buildVars
<1> QED
  BY <1>1, <1>2, <1>3, <1>4, <1>5, <1>6, <1>7, <1>8 DEF Next, BuildNext

\* Nothing has been checked while the checker is being built.
LEMMA BuildIsIdle ==
  ASSUME BuildInv, WalkInv, BuildNext, UNCHANGED checkVars
  PROVE  /\ verdict = "idle" /\ verdict' = "idle"
         /\ query' = query /\ todo' = {} /\ cur' = None
         /\ proxy' = NewProxy /\ seen' = <<>>
<1>1. phase # "ready" /\ query' = query
  BY DEF BuildNext, StartBuild, EndpointAnswers, external_ips, ProbeJudge, BuiltJudged,
     BuiltLiveness
<1> QED
  BY <1>1 DEF BuildInv, WalkInv, checkVars

\* The check changes nothing of the checker.
LEMMA CheckKeeps ==
  ASSUME CheckNext
  PROVE  /\ UNCHANGED buildVars
         /\ ngtrs' = ngtrs
         /\ \A p : JudgesFor(p)' = JudgesFor(p)
<1>1. UNCHANGED buildVars
  BY DEF CheckNext, InDnsbl, StartCheck, StartOne, StepPasses, StepFails, Unobserved,
     PageArrives, EndCheck, types_passed, Filter
<1> QED
  BY <1>1 DEF buildVars, ngtrs, JudgesFor

LEMMA NewProxyType == NewProxy \in ProxyRec /\ DOMAIN NewProxy.types = {}
<1>1. <<>> \in [{} -> Levels]
  OBVIOUS
<1>2. <<>> \in TypeMaps
  BY <1>1 DEF TypeMaps
<1> QED
  BY <1>2 DEF NewProxy, ProxyRec, CapSets, SignalSets

LEMMA InitInv == Init => BuildInv /\ WalkInv
<1> SUFFICES ASSUME Init PROVE BuildInv /\ WalkInv
  OBVIOUS
<1>1. BuildInv
  BY DEF Init, BuildInit, BuildInv
<1>2. WalkInv
  BY NewProxyType DEF Init, WalkInv, NewProxy
<1> QED
  BY <1>1, <1>2

\* The end of an attempt: it confirms the protocol with what it observed, or
\* files a bad response.
Confirms(level, caps, signals, entry) ==
  /\ proxy' = Working(level, caps, signals)
  /\ seen' = Insert(seen, cur.proto, entry)
  /\ cur' = None
  /\ UNCHANGED <<buildVars, verdict, todo>>

Rejects ==
  /\ proxy' = record_attempt_err(proxy, "BadResponse")
  /\ seen' = seen
  /\ cur' = None
  /\ UNCHANGED <<buildVars, verdict, todo>>

PageEntry(d) ==
  [judge |-> cur.judge, leak |-> d.leak, extra |-> d.extra,
   injected |-> d.injected, caps |-> caps_from_content(d)]

LEMMA PageEnds ==
  ASSUME PageArrives
  PROVE  /\ cur # None /\ cur.judge # None /\ cur.proto # "Connect25"
         /\ \/ Rejects
            \/ \E d \in Deeds :
                 Confirms(IF checks_anon_level(cur.proto)
                          THEN anonymity_level(cur.judge, d) ELSE None,
                          caps_from_content(d), assess(d), PageEntry(d))
  BY DEF PageArrives, LastStep, Rejects, Confirms, PageEntry

LEMMA ObservedType ==
  ASSUME NEW d
  PROVE  /\ caps_from_content(d) \in CapSets
         /\ assess(d) \in SignalSets
         /\ \A j : anonymity_level(j, d) \in Levels
         /\ None \in Levels
  BY DEF caps_from_content, assess, anonymity_level, Levels, AnonLevel, CapSets,
     SignalSets

\* A confirmation preserves WalkInv.
LEMMA ConfirmsWalk ==
  ASSUME BuildInv, WalkInv, cur # None, NEW level \in Levels,
         NEW caps \in CapSets,
         NEW signals \in SignalSets, NEW entry,
         entry.judge = cur.judge, cur.proto # "Http" => level = None,
         Confirms(level, caps, signals, entry)
  PROVE  WalkInv'
<1>1. CurOK /\ cur.proto \in Proto /\ proxy \in ProxyRec
  BY QueryFacts DEF WalkInv, CurOK, BuildInv
<1>2. /\ proxy' \in ProxyRec
      /\ proxy'.types = Insert(proxy.types, cur.proto, level)
  <2> DEFINE w == Working(level, caps, signals)
  <2>1. w \in ProxyRec /\ w.types = Insert(proxy.types, cur.proto, level)
    BY <1>1, WorkingIs
  <2>2. proxy' = w
    BY DEF Confirms
  <2> QED
    BY <2>1, <2>2, Zenon
<1>3. /\ DOMAIN proxy'.types = DOMAIN proxy.types \cup {cur.proto}
      /\ proxy'.types[cur.proto] = level
      /\ \A p \in DOMAIN proxy.types : p # cur.proto =>
           proxy'.types[p] = proxy.types[p]
  <2> DEFINE f == Insert(proxy.types, cur.proto, level)
  <2>1. /\ DOMAIN f = DOMAIN proxy.types \cup {cur.proto}
        /\ f[cur.proto] = level
        /\ \A p \in DOMAIN proxy.types : p # cur.proto => f[p] = proxy.types[p]
    BY DEF Insert
  <2> QED
    BY <1>2, <2>1, Zenon
<1>4. /\ DOMAIN seen' = DOMAIN seen \cup {cur.proto}
      /\ seen'[cur.proto] = entry
      /\ \A p \in DOMAIN seen : p # cur.proto => seen'[p] = seen[p]
  <2> DEFINE f == Insert(seen, cur.proto, entry)
  <2>1. /\ DOMAIN f = DOMAIN seen \cup {cur.proto}
        /\ f[cur.proto] = entry
        /\ \A p \in DOMAIN seen : p # cur.proto => f[p] = seen[p]
    BY DEF Insert
  <2>2. seen' = f
    BY DEF Confirms
  <2> QED
    BY <2>1, <2>2, Zenon
<1>5. ngtrs' = ngtrs /\ (\A p : JudgesFor(p)' = JudgesFor(p))
      /\ verdict' = verdict /\ todo' = todo /\ cur' = None
      /\ verdict = "checking"
  BY DEF Confirms, buildVars, ngtrs, JudgesFor, WalkInv
<1>6. \A p \in DOMAIN seen' : seen'[p].judge \in JudgesFor(p)'
  BY <1>1, <1>4, <1>5 DEF WalkInv, CurOK
<1>7. DOMAIN seen' \subseteq ngtrs \ todo
  BY <1>1, <1>4 DEF WalkInv, CurOK
<1>8. \A p \in DOMAIN proxy'.types : p # "Http" => proxy'.types[p] = None
  BY <1>3 DEF WalkInv
<1>9. DOMAIN proxy'.types \subseteq DOMAIN seen'
  BY <1>3, <1>4 DEF WalkInv
<1> QED
  BY <1>2, <1>5, <1>6, <1>7, <1>8, <1>9 DEF WalkInv

LEMMA RejectsWalk ==
  ASSUME BuildInv, WalkInv, cur # None, Rejects
  PROVE  WalkInv'
<1>1. proxy' \in ProxyRec /\ proxy'.types = proxy.types
  BY ErrIs DEF Rejects, WalkInv
<1>2. ngtrs' = ngtrs /\ (\A p : JudgesFor(p)' = JudgesFor(p))
      /\ verdict' = verdict /\ todo' = todo /\ cur' = None /\ seen' = seen
      /\ verdict = "checking"
  BY DEF Rejects, buildVars, ngtrs, JudgesFor, WalkInv
<1> QED
  BY <1>1, <1>2 DEF WalkInv

\* The strict filter keeps some of the types, each with its level.
LEMMA TypesPassedIs ==
  ASSUME WalkInv, EndCheck
  PROVE  /\ proxy' \in ProxyRec
         /\ DOMAIN proxy'.types \subseteq DOMAIN proxy.types
         /\ \A p \in DOMAIN proxy'.types : proxy'.types[p] = proxy.types[p]
         /\ proxy'.caps = proxy.caps /\ proxy'.trust = proxy.trust
         /\ proxy'.requests = proxy.requests
         /\ proxy'.runtimes = proxy.runtimes
         /\ proxy'.retryable = proxy.retryable
         /\ proxy'.final = proxy.final
<1>1. proxy \in ProxyRec
  BY DEF WalkInv
<1>2. CASE proxy' = proxy
  BY <1>1, <1>2
<1>3. CASE proxy' # proxy
  <2> DEFINE kept == Restrict(proxy.types, Wanted)
  <2>1. proxy' = [proxy EXCEPT !.types = kept]
    BY <1>3 DEF EndCheck, types_passed, Wanted
  <2>2. PICK T \in SUBSET Proto : proxy.types \in [T -> Levels]
    BY <1>1 DEF ProxyRec, TypeMaps
  <2>3. /\ kept \in [Wanted -> Levels] /\ Wanted \subseteq T
        /\ Wanted \subseteq DOMAIN proxy.types
        /\ \A p \in Wanted : kept[p] = proxy.types[p]
    BY <2>2 DEF Restrict, Wanted
  <2>4. kept \in TypeMaps
    BY <2>2, <2>3 DEF TypeMaps
  <2> HIDE DEF kept
  <2>5. /\ proxy' \in ProxyRec /\ proxy'.types = kept
        /\ proxy'.caps = proxy.caps /\ proxy'.trust = proxy.trust
        /\ proxy'.requests = proxy.requests
        /\ proxy'.runtimes = proxy.runtimes
        /\ proxy'.retryable = proxy.retryable
        /\ proxy'.final = proxy.final
    BY <1>1, <2>1, <2>4 DEF ProxyRec
  <2>6. DOMAIN kept = Wanted
    BY <2>3
  <2> QED
    BY <2>3, <2>5, <2>6
<1> QED
  BY <1>2, <1>3

LEMMA StartOneWalk ==
  ASSUME BuildInv, WalkInv, StartOne
  PROVE  WalkInv'
<1> DEFINE p == Front(todo)
<1>1. /\ ngtrs' = ngtrs /\ (\A q : JudgesFor(q)' = JudgesFor(q))
      /\ query' = query
      /\ verdict' = "checking" /\ proxy' = proxy /\ seen' = seen
      /\ todo' = todo \ {p} /\ todo # {}
  BY DEF StartOne, buildVars, ngtrs, JudgesFor
<1>2. p \in todo /\ p \in ngtrs /\ p \in Proto
  BY <1>1, FrontIn, QueryFacts DEF BuildInv, WalkInv
<1>3. cur' # None => CurOK'
  <2> SUFFICES ASSUME cur' # None PROVE CurOK'
    OBVIOUS
  <2>1. PICK j \in JudgesFor(p) :
          cur' = [proto |-> p, judge |-> j, i |-> 0, step |-> 1]
    BY DEF StartOne
  <2>2. query.max_tries \in Nat /\ query.max_tries # 0
    BY QueryFacts DEF StartOne, BuildInv
  <2> HIDE DEF p
  <2>3. Len(attempt(p)) \in Nat /\ 1 <= Len(attempt(p))
    BY <1>2, AttemptLen
  <2>4. p \notin DOMAIN seen
    BY <1>2 DEF WalkInv
  <2>5. cur'.proto = p /\ cur'.judge = j /\ cur'.i = 0 /\ cur'.step = 1
    BY <2>1
  <2> QED
    BY <1>1, <1>2, <2>1, <2>2, <2>3, <2>4, <2>5 DEF CurOK
<1> QED
  BY <1>1, <1>3 DEF WalkInv

LEMMA StepWalk ==
  ASSUME BuildInv, WalkInv, StepPasses \/ StepFails
  PROVE  WalkInv'
<1>1. /\ ngtrs' = ngtrs /\ (\A q : JudgesFor(q)' = JudgesFor(q))
      /\ query' = query
      /\ verdict' = verdict /\ seen' = seen /\ todo' = todo
      /\ cur # None /\ verdict = "checking"
  BY DEF StepPasses, StepFails, buildVars, ngtrs, JudgesFor, WalkInv
<1>2. CurOK /\ cur.proto \in Proto /\ proxy \in ProxyRec
  BY <1>1, QueryFacts DEF WalkInv, CurOK, BuildInv
<1>3. proxy' \in ProxyRec /\ proxy'.types = proxy.types
  <2>1. CASE StepPasses
    BY <1>2, <2>1 DEF StepPasses
  <2>2. CASE StepFails
    <3>1. PICK e : proxy' = record_attempt_err(proxy, e)
      BY <2>2 DEF StepFails
    <3> QED
      BY <1>2, <3>1, ErrIs
  <2> QED
    BY <2>1, <2>2
<1>4. query.max_tries \in Nat
  BY QueryFacts DEF BuildInv
<1>5. Len(attempt(cur.proto)) \in Nat /\ 1 <= Len(attempt(cur.proto))
  BY <1>2, AttemptLen
<1>6. cur' # None => CurOK'
  <2>1. CASE StepPasses
    <3>1. /\ cur' = [proto |-> cur.proto, judge |-> cur.judge, i |-> cur.i,
                     step |-> cur.step + 1]
          /\ cur.step < Len(attempt(cur.proto))
      BY <1>2, <2>1 DEF StepPasses, CurOK
    <3> QED
      BY <1>1, <1>2, <1>5, <3>1 DEF CurOK
  <2>2. CASE StepFails /\ cur' # None
    <3>1. /\ cur' = [proto |-> cur.proto, judge |-> cur.judge, i |-> cur.i + 1,
                     step |-> 1]
          /\ cur.i + 1 < query.max_tries
      BY <1>2, <2>2 DEF StepFails, Retries, CurOK
    <3> QED
      BY <1>1, <1>2, <1>5, <3>1 DEF CurOK
  <2> QED
    BY <2>1, <2>2
<1> QED
  BY <1>1, <1>3, <1>6 DEF WalkInv

LEMMA WalkNext == BuildInv /\ WalkInv /\ [Next]_vars => WalkInv'
<1> SUFFICES ASSUME BuildInv, WalkInv, [Next]_vars PROVE WalkInv'
  OBVIOUS
<1>1. CASE UNCHANGED vars
  BY <1>1 DEF vars, buildVars, checkVars, WalkInv, CurOK, ngtrs, JudgesFor
<1>2. CASE BuildNext /\ UNCHANGED checkVars
  BY <1>2, BuildIsIdle, NewProxyType DEF WalkInv
<1>3. CASE InDnsbl \/ StartCheck \/ Filter
  <2>1. UNCHANGED buildVars /\ proxy' = proxy /\ seen' = seen /\ cur' = None
    BY <1>3 DEF InDnsbl, StartCheck, Filter, WalkInv
  <2>2. ngtrs' = ngtrs /\ \A q : JudgesFor(q)' = JudgesFor(q)
    BY <2>1 DEF buildVars, ngtrs, JudgesFor
  <2>3. /\ verdict' \in {"fail", "checking", "emit", "drop"}
        /\ todo' = todo \/ (todo' = ngtrs /\ seen = <<>>)
    BY <1>3 DEF InDnsbl, StartCheck, Filter, WalkInv
  <2> QED
    BY <2>1, <2>2, <2>3 DEF WalkInv
<1>4. CASE StartOne
  BY <1>4, StartOneWalk
<1>5. CASE StepPasses \/ StepFails
  BY <1>5, StepWalk
<1>6. CASE Unobserved
  <2>1. /\ cur # None
        /\ Confirms(None, {}, {}, [judge |-> cur.judge])
    BY <1>6 DEF Unobserved, LastStep, Confirms
  <2>2. \E entry : entry.judge = cur.judge /\ Confirms(None, {}, {}, entry)
    BY <2>1, [judge |-> cur.judge].judge = cur.judge
  <2>3. None \in Levels /\ {} \in CapSets /\ {} \in SignalSets
    BY DEF Levels, CapSets, SignalSets
  <2> QED
    BY <2>1, <2>2, <2>3, ConfirmsWalk
<1>7. CASE PageArrives
  <2>1. CASE Rejects
    BY <1>7, <2>1, PageEnds, RejectsWalk
  <2>2. CASE ~Rejects
    <3>1. PICK d \in Deeds :
            Confirms(IF checks_anon_level(cur.proto)
                     THEN anonymity_level(cur.judge, d) ELSE None,
                     caps_from_content(d), assess(d), PageEntry(d))
      BY <1>7, <2>2, PageEnds
    <3> DEFINE level == IF checks_anon_level(cur.proto)
                        THEN anonymity_level(cur.judge, d) ELSE None
    <3>2. cur # None /\ PageEntry(d).judge = cur.judge
      BY <1>7, PageEnds DEF PageEntry
    <3>3. level \in Levels /\ (cur.proto # "Http" => level = None)
      BY ObservedType DEF checks_anon_level
    <3> QED
      BY <3>1, <3>2, <3>3, ObservedType, ConfirmsWalk
  <2> QED
    BY <2>1, <2>2
<1>8. CASE EndCheck
  <2>1. /\ ngtrs' = ngtrs /\ (\A q : JudgesFor(q)' = JudgesFor(q))
        /\ seen' = seen /\ cur' = cur /\ todo' = todo /\ cur = None
        /\ verdict' \in {"pass", "fail"}
    BY <1>8 DEF EndCheck, types_passed, buildVars, ngtrs, JudgesFor
  <2> QED
    BY <1>8, <2>1, TypesPassedIs DEF WalkInv
<1> QED
  BY <1>1, <1>2, <1>3, <1>4, <1>5, <1>6, <1>7, <1>8 DEF Next, CheckNext

(***************************************************************************)
(* A type is on a proxy only because an attempt of that protocol worked    *)
(* against a verified judge of the protocol's own flavour, or, with no     *)
(* judge at all, against the liveness target.                              *)
(***************************************************************************)
THEOREM CheckerTypesWitnessed == Spec => []TypesAreWitnessed
<1>1. BuildInv /\ WalkInv => TypesAreWitnessed
  <2> SUFFICES ASSUME BuildInv, WalkInv, NEW p \in DOMAIN proxy.types
               PROVE  /\ p \in DOMAIN seen
                      /\ IF judges = {} THEN seen[p].judge = None
                         ELSE /\ seen[p].judge \in judges
                              /\ JScheme[seen[p].judge] = judge_scheme(p)
    BY DEF TypesAreWitnessed
  <2>1. p \in DOMAIN seen /\ seen[p].judge \in JudgesFor(p)
    BY DEF WalkInv
  <2>2. mode # "none"
    BY <2>1 DEF WalkInv, BuildInv
  <2> QED
    BY <2>1, <2>2 DEF BuildInv, JudgesFor
<1> QED
  BY <1>1, InitInv, BuildNextInv, WalkNext, PTL DEF Spec

-----------------------------------------------------------------------------
(* The anonymity level.                                                    *)

\* The steps that confirm nothing keep the types that stay and all of seen.
LEMMA StepKinds ==
  ASSUME BuildInv, WalkInv, [Next]_vars
  PROVE  \/ /\ verdict = "idle" /\ verdict' = "idle" /\ query' = query
            /\ proxy' = NewProxy /\ seen' = <<>>
         \/ /\ UNCHANGED buildVars /\ seen' = seen
            /\ DOMAIN proxy'.types \subseteq DOMAIN proxy.types
            /\ \A p \in DOMAIN proxy'.types : proxy'.types[p] = proxy.types[p]
            /\ proxy'.caps = proxy.caps /\ proxy'.trust = proxy.trust
         \/ /\ cur # None /\ (cur.judge = None \/ cur.proto = "Connect25")
            /\ Confirms(None, {}, {}, [judge |-> cur.judge])
         \/ /\ cur # None /\ cur.judge # None
            /\ \E d \in Deeds :
                 Confirms(IF checks_anon_level(cur.proto)
                          THEN anonymity_level(cur.judge, d) ELSE None,
                          caps_from_content(d), assess(d), PageEntry(d))
<1>1. CASE UNCHANGED vars
  BY <1>1 DEF vars, checkVars
<1>2. CASE BuildNext /\ UNCHANGED checkVars
  BY <1>2, BuildIsIdle
<1>3. CASE InDnsbl \/ StartCheck \/ StartOne \/ StepPasses \/ Filter
  BY <1>3 DEF InDnsbl, StartCheck, StartOne, StepPasses, Filter
<1>4. CASE StepFails
  <2>1. PICK e : proxy' = record_attempt_err(proxy, e)
    BY <1>4 DEF StepFails
  <2>2. /\ proxy'.types = proxy.types /\ proxy'.caps = proxy.caps
        /\ proxy'.trust = proxy.trust
    BY <2>1, ErrIs DEF WalkInv
  <2> QED
    BY <1>4, <2>2 DEF StepFails
<1>5. CASE Unobserved
  BY <1>5 DEF Unobserved, LastStep, Confirms
<1>6. CASE PageArrives
  <2>1. CASE Rejects
    <3>1. /\ proxy'.types = proxy.types /\ proxy'.caps = proxy.caps
          /\ proxy'.trust = proxy.trust
      BY <2>1, ErrIs DEF WalkInv, Rejects
    <3> QED
      BY <2>1, <3>1 DEF Rejects
  <2> QED
    BY <1>6, <2>1, PageEnds
<1>7. CASE EndCheck
  <2>1. UNCHANGED buildVars /\ seen' = seen
    BY <1>7 DEF EndCheck
  <2> QED
    BY <1>7, <2>1, TypesPassedIs
<1> QED
  BY <1>1, <1>2, <1>3, <1>4, <1>5, <1>6, <1>7 DEF Next, CheckNext

\* What a confirmation does to the history and to the types.
LEMMA ConfirmsIs ==
  ASSUME BuildInv, WalkInv, cur # None, NEW level \in Levels,
         NEW caps \in CapSets,
         NEW signals \in SignalSets, NEW entry,
         Confirms(level, caps, signals, entry)
  PROVE  /\ cur.proto \notin DOMAIN seen
         /\ DOMAIN seen' = DOMAIN seen \cup {cur.proto}
         /\ seen'[cur.proto] = entry
         /\ \A p \in DOMAIN seen : seen'[p] = seen[p]
         /\ DOMAIN proxy'.types = DOMAIN proxy.types \cup {cur.proto}
         /\ proxy'.types[cur.proto] = level
         /\ \A p \in DOMAIN proxy.types : proxy'.types[p] = proxy.types[p]
         /\ proxy'.caps = proxy.caps \cup caps
         /\ proxy'.trust = proxy.trust \cup signals
         /\ proxy'.runtimes = proxy.runtimes + 1
         /\ proxy'.requests = proxy.requests + 1
         /\ proxy'.retryable = proxy.retryable
         /\ proxy'.final = proxy.final
<1>1. CurOK /\ cur.proto \in Proto /\ proxy \in ProxyRec
  BY QueryFacts DEF WalkInv, CurOK, BuildInv
<1>2. cur.proto \notin DOMAIN seen /\ cur.proto \notin DOMAIN proxy.types
  BY <1>1 DEF WalkInv, CurOK
<1>3. /\ proxy'.types = Insert(proxy.types, cur.proto, level)
      /\ proxy'.caps = proxy.caps \cup caps
      /\ proxy'.trust = proxy.trust \cup signals
      /\ proxy'.runtimes = proxy.runtimes + 1
      /\ proxy'.requests = proxy.requests + 1
      /\ proxy'.retryable = proxy.retryable
      /\ proxy'.final = proxy.final
  <2> DEFINE w == Working(level, caps, signals)
  <2>1. /\ w.types = Insert(proxy.types, cur.proto, level)
        /\ w.caps = proxy.caps \cup caps
        /\ w.trust = proxy.trust \cup signals
    BY <1>1, WorkingIs
  <2>2. /\ w.runtimes = proxy.runtimes + 1
        /\ w.requests = proxy.requests + 1
        /\ w.retryable = proxy.retryable
        /\ w.final = proxy.final
    BY <1>1, WorkingIs
  <2>3. proxy' = w
    BY DEF Confirms
  <2> QED
    BY <2>1, <2>2, <2>3, Zenon
<1>4. /\ DOMAIN Insert(proxy.types, cur.proto, level)
           = DOMAIN proxy.types \cup {cur.proto}
      /\ Insert(proxy.types, cur.proto, level)[cur.proto] = level
      /\ \A p \in DOMAIN proxy.types :
           Insert(proxy.types, cur.proto, level)[p] = proxy.types[p]
  BY <1>2 DEF Insert
<1>5. /\ DOMAIN Insert(seen, cur.proto, entry) = DOMAIN seen \cup {cur.proto}
      /\ Insert(seen, cur.proto, entry)[cur.proto] = entry
      /\ \A p \in DOMAIN seen : Insert(seen, cur.proto, entry)[p] = seen[p]
  BY <1>2 DEF Insert
<1>6. seen' = Insert(seen, cur.proto, entry)
  BY DEF Confirms
<1>7. /\ DOMAIN proxy'.types = DOMAIN proxy.types \cup {cur.proto}
      /\ proxy'.types[cur.proto] = level
      /\ \A p \in DOMAIN proxy.types : proxy'.types[p] = proxy.types[p]
  BY <1>3, <1>4, Zenon
<1>8. /\ DOMAIN seen' = DOMAIN seen \cup {cur.proto}
      /\ seen'[cur.proto] = entry
      /\ \A p \in DOMAIN seen : seen'[p] = seen[p]
  BY <1>5, <1>6, Zenon
<1> QED
  BY <1>2, <1>3, <1>7, <1>8

LEMMA LevelNext ==
  BuildInv /\ WalkInv /\ LevelTellsTruth /\ [Next]_vars => LevelTellsTruth'
<1> SUFFICES ASSUME BuildInv, WalkInv, LevelTellsTruth, [Next]_vars,
                    "Http" \in DOMAIN proxy'.types
             PROVE  LevelTellsTruth'
  BY DEF LevelTellsTruth
<1>1. CASE proxy' = NewProxy
  BY <1>1, NewProxyType
<1>2. ASSUME UNCHANGED buildVars, "Http" \in DOMAIN proxy.types,
             proxy'.types["Http"] = proxy.types["Http"],
             seen'["Http"] = seen["Http"]
      PROVE  LevelTellsTruth'
  BY <1>2 DEF LevelTellsTruth, buildVars
<1>3. CASE /\ UNCHANGED buildVars /\ seen' = seen
           /\ DOMAIN proxy'.types \subseteq DOMAIN proxy.types
           /\ \A p \in DOMAIN proxy'.types : proxy'.types[p] = proxy.types[p]
  BY <1>2, <1>3
<1>4. ASSUME cur # None, NEW level \in Levels, NEW caps \in CapSets,
             NEW signals \in SignalSets, NEW entry,
             Confirms(level, caps, signals, entry), cur.proto # "Http"
      PROVE  LevelTellsTruth'
  <2>1. /\ DOMAIN proxy'.types = DOMAIN proxy.types \cup {cur.proto}
        /\ \A p \in DOMAIN proxy.types : proxy'.types[p] = proxy.types[p]
        /\ \A p \in DOMAIN seen : seen'[p] = seen[p]
    BY <1>4, ConfirmsIs
  <2>2. "Http" \in DOMAIN proxy.types /\ "Http" \in DOMAIN seen
    BY <1>4, <2>1 DEF WalkInv
  <2>3. UNCHANGED buildVars
    BY <1>4 DEF Confirms
  <2> QED
    BY <1>2, <2>1, <2>2, <2>3
<1>5. CASE /\ cur # None /\ (cur.judge = None \/ cur.proto = "Connect25")
           /\ Confirms(None, {}, {}, [judge |-> cur.judge])
  <2> DEFINE entry == [judge |-> cur.judge]
  <2>1. None \in Levels /\ {} \in CapSets /\ {} \in SignalSets
    BY DEF Levels, CapSets, SignalSets
  <2>2. CASE cur.proto # "Http"
    BY <1>4, <1>5, <2>1, <2>2
  <2>3. CASE cur.proto = "Http"
    <3>1. seen'["Http"] = entry /\ proxy'.types["Http"] = None
      BY <1>5, <2>1, <2>3, ConfirmsIs
    <3>2. entry.judge = None
      BY <1>5, <2>3
    <3> QED
      BY <3>1, <3>2 DEF LevelTellsTruth
  <2> QED
    BY <2>2, <2>3
<1>6. ASSUME cur # None, cur.judge # None, NEW d \in Deeds,
             Confirms(IF checks_anon_level(cur.proto)
                      THEN anonymity_level(cur.judge, d) ELSE None,
                      caps_from_content(d), assess(d), PageEntry(d))
      PROVE  LevelTellsTruth'
  <2> DEFINE level == IF checks_anon_level(cur.proto)
                      THEN anonymity_level(cur.judge, d) ELSE None
  <2>1. level \in Levels
    BY ObservedType
  <2>2. CASE cur.proto # "Http"
    BY <1>4, <1>6, <2>1, <2>2, ObservedType
  <2>3. CASE cur.proto = "Http"
    <3>1. seen'["Http"] = PageEntry(d) /\ proxy'.types["Http"] = level
      BY <1>6, <2>1, <2>3, ObservedType, ConfirmsIs
    <3>2. level = anonymity_level(cur.judge, d)
      BY <2>3 DEF checks_anon_level
    <3>3. CurOK /\ cur.judge \in Judge
      BY <1>6 DEF WalkInv, CurOK, JudgesFor, BuildInv
    <3>4. d.extra \in Nat /\ JMarks[cur.judge] \in Nat
      BY <3>3, JudgesAssumption, DeedsAssumption DEF Deed
    <3>5. /\ level = "Transparent" <=> d.leak \cap real_ext_ips # {}
          /\ level # "Transparent" => (level = "High" <=> d.extra = 0)
      BY <3>2, <3>4 DEF anonymity_level, Mentions
    <3>6. /\ PageEntry(d).judge # None /\ PageEntry(d).leak = d.leak
          /\ PageEntry(d).extra = d.extra
      BY <1>6 DEF PageEntry
    <3>7. real_ext_ips' = real_ext_ips
      BY <1>6 DEF Confirms, buildVars
    <3> HIDE DEF level
    <3> QED
      BY <3>1, <3>5, <3>6, <3>7 DEF LevelTellsTruth
  <2> QED
    BY <2>2, <2>3
<1> QED
  BY <1>1, <1>3, <1>5, <1>6, StepKinds

(***************************************************************************)
(* The level on a proxy is what the proxy did to the page of the judge it  *)
(* was measured against; without a judge there is no level.                *)
(***************************************************************************)
THEOREM CheckerLevelTellsTruth == Spec => []LevelTellsTruth
<1>1. Init => LevelTellsTruth
  BY NewProxyType DEF Init, LevelTellsTruth
<1> QED
  BY <1>1, LevelNext, InitInv, BuildNextInv, WalkNext, PTL DEF Spec

-----------------------------------------------------------------------------
(* What the pages showed, and the verdict.                                 *)

LEMMA ShownNext ==
  BuildInv /\ WalkInv /\ ShownInv /\ [Next]_vars => ShownInv'
<1> SUFFICES ASSUME BuildInv, WalkInv, ShownInv, [Next]_vars
             PROVE  ShownInv'
  OBVIOUS
<1>1. CASE proxy' = NewProxy /\ seen' = <<>>
  <2>1. Shown' = {} /\ proxy'.caps = {}
    BY <1>1 DEF Shown, NewProxy
  <2> QED
    BY <2>1 DEF ShownInv
<1>2. CASE /\ UNCHANGED buildVars /\ seen' = seen
           /\ proxy'.caps = proxy.caps /\ proxy'.trust = proxy.trust
  BY <1>2 DEF ShownInv, Shown, buildVars
<1>3. CASE /\ cur # None
           /\ Confirms(None, {}, {}, [judge |-> cur.judge])
  <2>0. PICK entry : entry = [judge |-> cur.judge]
    OBVIOUS
  <2>1. None \in Levels /\ {} \in CapSets /\ {} \in SignalSets
    BY DEF Levels, CapSets, SignalSets
  <2>2. /\ cur.proto \notin DOMAIN seen
        /\ DOMAIN seen' = DOMAIN seen \cup {cur.proto}
        /\ seen'[cur.proto] = entry
        /\ \A p \in DOMAIN seen : seen'[p] = seen[p]
        /\ proxy'.caps = proxy.caps /\ proxy'.trust = proxy.trust
    <3>1. PICK caps \in CapSets, signals \in SignalSets :
                 caps = {} /\ signals = {}
      BY <2>1
    <3>2. Confirms(None, caps, signals, entry)
      BY <1>3, <2>0, <3>1
    <3>3. /\ cur.proto \notin DOMAIN seen
          /\ DOMAIN seen' = DOMAIN seen \cup {cur.proto}
          /\ seen'[cur.proto] = entry
          /\ \A p \in DOMAIN seen : seen'[p] = seen[p]
          /\ proxy'.caps = proxy.caps \cup caps
          /\ proxy'.trust = proxy.trust \cup signals
      BY <1>3, <2>1, <3>2, ConfirmsIs
    <3> QED
      BY <3>1, <3>3
  <2>3. "injected" \notin DOMAIN entry
    BY <2>0
  <2>4. Shown' = Shown /\ \A p \in Shown : seen'[p] = seen[p]
    BY <2>2, <2>3 DEF Shown
  <2>5. query' = query
    BY <1>3 DEF Confirms, buildVars
  <2> QED
    BY <2>2, <2>4, <2>5 DEF ShownInv
<1>4. ASSUME cur # None, NEW d \in Deeds,
             Confirms(IF checks_anon_level(cur.proto)
                      THEN anonymity_level(cur.judge, d) ELSE None,
                      caps_from_content(d), assess(d), PageEntry(d))
      PROVE  ShownInv'
  <2> DEFINE level == IF checks_anon_level(cur.proto)
                      THEN anonymity_level(cur.judge, d) ELSE None
  <2>1. level \in Levels
    BY ObservedType
  <2>2. /\ cur.proto \notin DOMAIN seen
        /\ DOMAIN seen' = DOMAIN seen \cup {cur.proto}
        /\ seen'[cur.proto] = PageEntry(d)
        /\ \A p \in DOMAIN seen : seen'[p] = seen[p]
        /\ proxy'.caps = proxy.caps \cup caps_from_content(d)
        /\ proxy'.trust = proxy.trust \cup assess(d)
    BY <1>4, <2>1, ObservedType, ConfirmsIs
  <2>3. /\ "injected" \in DOMAIN PageEntry(d)
        /\ PageEntry(d).injected = d.injected
        /\ PageEntry(d).caps = caps_from_content(d)
    BY DEF PageEntry
  <2>4. /\ Shown' = Shown \cup {cur.proto}
        /\ \A p \in Shown : seen'[p] = seen[p] /\ p # cur.proto
    BY <2>2, <2>3 DEF Shown
  <2>5. query' = query
    BY <1>4 DEF Confirms, buildVars
  <2>6. ASSUME NEW p \in Shown', seen'[p].injected,
               query.trust_check \/ query.require_trusted
        PROVE  "InjectedHeader" \in proxy'.trust
    <3>1. CASE p \in Shown
      BY <2>2, <2>4, <2>6, <3>1 DEF ShownInv
    <3>2. CASE p = cur.proto
      BY <2>2, <2>3, <2>6, <3>2 DEF assess
    <3> QED
      BY <2>4, <3>1, <3>2
  <2>7. ASSUME NEW c \in proxy'.caps
        PROVE  \E p \in Shown' : c \in seen'[p].caps
    <3>1. CASE c \in proxy.caps
      BY <2>4, <3>1 DEF ShownInv
    <3>2. CASE c \in caps_from_content(d)
      BY <2>2, <2>3, <2>4, <3>2
    <3> QED
      BY <2>2, <3>1, <3>2
  <2> QED
    BY <2>5, <2>6, <2>7 DEF ShownInv
<1> QED
  BY <1>1, <1>2, <1>3, <1>4, StepKinds

LEMMA VerdictNext ==
  BuildInv /\ WalkInv /\ VerdictInv /\ [Next]_vars => VerdictInv'
<1> SUFFICES ASSUME BuildInv, WalkInv, VerdictInv, [Next]_vars,
                    verdict' \in {"pass", "emit"}
             PROVE  VerdictInv'
  BY DEF VerdictInv
<1>1. CASE UNCHANGED vars
  BY <1>1 DEF vars, buildVars, checkVars, VerdictInv, Wanted, Matches, passes,
     capabilities
<1>2. CASE BuildNext /\ UNCHANGED checkVars
  BY <1>2, BuildIsIdle
<1>3. CASE EndCheck
  <2> DEFINE T == proxy.types
  <2>1. /\ Wanted # {} /\ verdict' = "pass"
        /\ proxy' = IF query.strict
                    THEN [proxy EXCEPT !.types = Restrict(T, Wanted)]
                    ELSE proxy
        /\ query' = query
    BY <1>3 DEF EndCheck, types_passed, Wanted, buildVars
  <2>2. CASE ~query.strict
    BY <2>1, <2>2 DEF VerdictInv, Wanted, Matches
  <2>3. CASE query.strict
    <3>1. proxy'.types = Restrict(T, Wanted)
      BY <2>1, <2>3 DEF WalkInv, ProxyRec
    <3>2. /\ DOMAIN Restrict(T, Wanted) = Wanted
          /\ \A p \in Wanted : Restrict(T, Wanted)[p] = T[p]
      BY DEF Restrict
    <3>3. \A p \in Wanted : Matches(p, T[p])
      BY DEF Wanted
    <3>4. Wanted' = Wanted /\ DOMAIN proxy'.types = Wanted
      <4>1. DOMAIN proxy'.types = Wanted
        BY <3>1, <3>2
      <4>2. ASSUME NEW p \in Wanted PROVE Matches(p, proxy'.types[p])
        BY <3>1, <3>2, <3>3
      <4>3. Wanted' = {p \in Wanted : Matches(p, proxy.types[p])'}
        BY <4>1 DEF Wanted
      <4> QED
        BY <2>1, <4>1, <4>2, <4>3 DEF Matches
    <3> QED
      BY <2>1, <3>4 DEF VerdictInv
  <2> QED
    BY <2>2, <2>3
<1>4. CASE Filter
  <2>1. /\ verdict = "pass" /\ (verdict' = "emit" => passes)
        /\ UNCHANGED <<query, proxy>>
    BY <1>4 DEF Filter, buildVars
  <2> QED
    BY <2>1 DEF VerdictInv, Wanted, Matches, passes, capabilities
<1>5. CASE InDnsbl \/ StartCheck \/ StartOne
  BY <1>5 DEF InDnsbl, StartCheck, StartOne
<1>6. CASE StepPasses \/ StepFails \/ Unobserved \/ PageArrives
  <2>1. cur # None /\ verdict' = verdict
    BY <1>6 DEF StepPasses, StepFails, Unobserved, PageArrives, LastStep
  <2> QED
    BY <2>1 DEF WalkInv
<1> QED
  BY <1>1, <1>2, <1>3, <1>4, <1>5, <1>6 DEF Next, CheckNext

LEMMA ShownInit == Init => ShownInv /\ VerdictInv
<1> SUFFICES ASSUME Init PROVE ShownInv /\ VerdictInv
  OBVIOUS
<1>1. Shown = {} /\ proxy.caps = {} /\ verdict = "idle"
  BY DEF Init, Shown, NewProxy
<1> QED
  BY <1>1 DEF ShownInv, VerdictInv

(***************************************************************************)
(* A header injected through any protocol is held against the proxy under  *)
(* the trust check, and --require-trusted lets no such proxy out.          *)
(***************************************************************************)
THEOREM CheckerHoneypot == Spec => []HoneypotRemembered
<1>1. ShownInv /\ VerdictInv => HoneypotRemembered
  BY DEF ShownInv, VerdictInv, HoneypotRemembered, passes
<1> QED
  BY <1>1, ShownInit, ShownNext, VerdictNext, InitInv, BuildNextInv, WalkNext, PTL
     DEF Spec

(***************************************************************************)
(* A pass means a confirmed type meets the request, every type left under  *)
(* --strict, and what is emitted has every required capability.            *)
(***************************************************************************)
THEOREM CheckerPassMeansWanted == Spec => []PassMeansWanted
<1>1. BuildInv /\ WalkInv /\ ShownInv /\ VerdictInv => PassMeansWanted
  <2> SUFFICES ASSUME BuildInv, WalkInv, ShownInv, VerdictInv
               PROVE  PassMeansWanted
    OBVIOUS
  <2>1. ASSUME verdict = "emit", NEW c \in query.require
        PROVE  c \in (UNION {seen[p].caps : p \in Shown})
                 \cup {"connect25" : p \in DOMAIN proxy.types \cap {"Connect25"}}
    <3>1. c \in proxy.caps \/ (c = "connect25" /\ "Connect25" \in DOMAIN proxy.types)
      BY <2>1 DEF VerdictInv, passes, capabilities
    <3>2. CASE c \in proxy.caps
      BY <3>2 DEF ShownInv
    <3> QED
      BY <3>1, <3>2
  <2> DEFINE ok == {p \in DOMAIN proxy.types : \/ p # "Http"
                                               \/ query.types[p] = {}
                                               \/ proxy.types[p] \in query.types[p]}
  <2>2. Wanted \subseteq ok /\ ok \subseteq DOMAIN proxy.types
    <3>1. DOMAIN proxy.types \subseteq DOMAIN query.types
      BY QueryFacts DEF WalkInv, BuildInv
    <3> QED
      BY <3>1 DEF Wanted, Matches
  <2>3. verdict \in {"pass", "emit"} =>
          ok # {} /\ (query.strict => ok = DOMAIN proxy.types)
    BY <2>2 DEF VerdictInv
  <2> QED
    BY <2>1, <2>3 DEF PassMeansWanted
<1> QED
  BY <1>1, ShownInit, ShownNext, VerdictNext, InitInv, BuildNextInv, WalkNext, PTL
     DEF Spec

-----------------------------------------------------------------------------
(* The count of attempts.                                                  *)

LEMMA Times ==
  ASSUME NEW m \in Nat, NEW b \in Int
  PROVE  /\ m * b \in Int /\ m * (b - 1) \in Int
         /\ m * b = m * (b - 1) + m
  OBVIOUS

LEMMA WalkFinite ==
  ASSUME BuildInv, WalkInv
  PROVE  /\ IsFiniteSet(ngtrs) /\ IsFiniteSet(todo) /\ IsFiniteSet(DOMAIN seen)
         /\ Cardinality(ngtrs) \in Nat /\ Cardinality(todo) \in Nat
         /\ Cardinality(DOMAIN seen) \in Nat
         /\ Begun \in Nat
<1>1. ngtrs \subseteq Proto /\ todo \subseteq ngtrs /\ DOMAIN seen \subseteq ngtrs
  BY QueryFacts DEF BuildInv, WalkInv
<1>2. IsFiniteSet(ngtrs)
  BY <1>1, ProtoFinite, FS_Subset
<1>3. /\ IsFiniteSet(todo) /\ IsFiniteSet(DOMAIN seen)
      /\ Cardinality(todo) <= Cardinality(ngtrs)
  BY <1>1, <1>2, FS_Subset
<1>4. /\ Cardinality(ngtrs) \in Nat /\ Cardinality(todo) \in Nat
      /\ Cardinality(DOMAIN seen) \in Nat
  BY <1>2, <1>3, FS_CardinalityType
<1> QED
  BY <1>2, <1>3, <1>4 DEF Begun

\* A step outside the check counts nothing.
LEMMA CountQuiet ==
  ASSUME CountInv, proxy' = proxy, seen' = seen, verdict' # "checking"
  PROVE  CountInv'
  BY DEF CountInv, errors

LEMMA CountStartOne ==
  ASSUME BuildInv, WalkInv, CountInv, StartOne
  PROVE  CountInv'
<1> DEFINE p == Front(todo)
           m == query.max_tries
<1>1. /\ verdict = "checking" /\ cur = None /\ todo # {}
      /\ todo' = todo \ {p} /\ ngtrs' = ngtrs /\ query' = query
      /\ proxy' = proxy /\ seen' = seen /\ verdict' = verdict
  BY DEF StartOne, buildVars, ngtrs
<1>2. p \in todo
  BY <1>1, FrontIn, QueryFacts DEF BuildInv, WalkInv
<1>3. Cardinality(todo') = Cardinality(todo) - 1
  BY <1>1, <1>2, WalkFinite, FS_RemoveElement
<1>4. Begun \in Nat /\ Begun' = Begun + 1
  BY <1>1, <1>3, WalkFinite DEF Begun
<1>5. m \in Nat /\ proxy \in ProxyRec
  BY QueryFacts DEF BuildInv, WalkInv
<1>6. /\ proxy.runtimes + proxy.final <= Begun
      /\ proxy.retryable <= m * Begun
  BY <1>1 DEF CountInv
<1>7. m * (Begun + 1) = m * Begun + m /\ m * Begun \in Int
  <2>1. PICK b \in Int : b = Begun + 1
    BY <1>4
  <2>2. b - 1 = Begun
    BY <1>4, <2>1
  <2>3. m * b = m * (b - 1) + m /\ m * (b - 1) \in Int
    BY <1>5, Times
  <2> QED
    BY <2>1, <2>2, <2>3
<1>8. /\ proxy.runtimes \in Nat /\ proxy.final \in Nat /\ proxy.retryable \in Nat
  BY <1>5 DEF ProxyRec
<1>9. CASE cur' = None
  <2>1. /\ proxy.runtimes + proxy.final <= Begun'
        /\ proxy.retryable <= m * Begun'
    BY <1>4, <1>5, <1>6, <1>7, <1>8
  <2> QED
    BY <1>1, <1>9, <2>1 DEF CountInv, errors
<1>10. CASE cur' # None
  <2>1. cur'.i = 0
    BY <1>10 DEF StartOne
  <2>2. Begun' - 1 = Begun
    BY <1>4
  <2>3. /\ proxy.runtimes + proxy.final <= Begun' - 1
        /\ proxy.retryable <= m * (Begun' - 1) + cur'.i
        /\ proxy.retryable >= cur'.i
    BY <1>6, <1>7, <1>8, <2>1, <2>2
  <2> QED
    BY <1>1, <1>10, <2>3 DEF CountInv, errors
<1> QED
  BY <1>9, <1>10

\* An attempt ended with an error: the protocol goes on only after a
\* retryable one.
LEMMA CountError ==
  ASSUME BuildInv, WalkInv, CountInv, cur # None, NEW e,
         proxy' = record_attempt_err(proxy, e),
         cur' = None \/ (e \in query.retry_on /\ cur'.i = cur.i + 1),
         UNCHANGED <<buildVars, verdict, todo, seen>>
  PROVE  CountInv'
<1> DEFINE m == query.max_tries
<1>1. /\ ngtrs' = ngtrs /\ query' = query /\ Begun' = Begun
      /\ verdict' = verdict /\ verdict = "checking"
  BY DEF buildVars, ngtrs, Begun, WalkInv
<1>2. /\ proxy \in ProxyRec /\ m \in Nat /\ Begun \in Nat /\ CurOK
      /\ cur.i \in Nat /\ cur.i < m
  BY QueryFacts, WalkFinite DEF BuildInv, WalkInv, CurOK
<1>3. /\ proxy'.runtimes = proxy.runtimes
      /\ proxy'.requests = proxy.requests + 1
      /\ IF e \in query.retry_on
         THEN /\ proxy'.retryable = proxy.retryable + 1
              /\ proxy'.final = proxy.final
         ELSE /\ proxy'.retryable = proxy.retryable
              /\ proxy'.final = proxy.final + 1
  BY <1>2, ErrIs
<1>4. /\ proxy.runtimes \in Nat /\ proxy.final \in Nat /\ proxy.retryable \in Nat
      /\ proxy.requests \in Nat
  BY <1>2 DEF ProxyRec
<1>5. /\ proxy.requests = proxy.runtimes + (proxy.retryable + proxy.final)
      /\ proxy.runtimes = Cardinality(DOMAIN seen)
      /\ proxy.runtimes + proxy.final <= Begun - 1
      /\ proxy.retryable <= m * (Begun - 1) + cur.i
      /\ proxy.retryable >= cur.i
  BY <1>1 DEF CountInv, errors
<1>6. m * Begun = m * (Begun - 1) + m /\ m * (Begun - 1) \in Int
  <2>1. PICK b \in Int : b = Begun
    BY <1>2
  <2>2. m * b = m * (b - 1) + m /\ m * (b - 1) \in Int
    BY <1>2, Times
  <2> QED
    BY <2>1, <2>2
<1>7. /\ proxy'.requests = proxy'.runtimes + (proxy'.retryable + proxy'.final)
      /\ proxy'.runtimes = Cardinality(DOMAIN seen)
  BY <1>3, <1>4, <1>5
<1>8. CASE cur' = None
  <2>1. /\ proxy'.runtimes + proxy'.final <= Begun
        /\ proxy'.retryable <= m * Begun
    BY <1>2, <1>3, <1>4, <1>5, <1>6
  <2> QED
    BY <1>1, <1>7, <1>8, <2>1 DEF CountInv, errors
<1>9. CASE cur' # None
  <2>1. /\ proxy'.runtimes + proxy'.final <= Begun - 1
        /\ proxy'.retryable <= m * (Begun - 1) + cur'.i
        /\ proxy'.retryable >= cur'.i
    BY <1>2, <1>3, <1>4, <1>5, <1>6, <1>9
  <2> QED
    BY <1>1, <1>7, <1>9, <2>1 DEF CountInv, errors
<1> QED
  BY <1>8, <1>9

\* A confirmation closes the protocol with one more runtime.
LEMMA CountConfirm ==
  ASSUME BuildInv, WalkInv, CountInv, cur # None, NEW level \in Levels,
         NEW caps \in CapSets, NEW signals \in SignalSets, NEW entry,
         Confirms(level, caps, signals, entry)
  PROVE  CountInv'
<1> DEFINE m == query.max_tries
<1>1. /\ ngtrs' = ngtrs /\ query' = query /\ Begun' = Begun
      /\ verdict' = verdict /\ verdict = "checking" /\ cur' = None
  BY DEF Confirms, buildVars, ngtrs, Begun, WalkInv
<1>2. /\ proxy \in ProxyRec /\ m \in Nat /\ Begun \in Nat /\ CurOK
      /\ cur.i \in Nat /\ cur.i < m
  BY QueryFacts, WalkFinite DEF BuildInv, WalkInv, CurOK
<1>3. /\ cur.proto \notin DOMAIN seen
      /\ DOMAIN seen' = DOMAIN seen \cup {cur.proto}
      /\ proxy'.runtimes = proxy.runtimes + 1
      /\ proxy'.requests = proxy.requests + 1
      /\ proxy'.retryable = proxy.retryable
      /\ proxy'.final = proxy.final
  BY ConfirmsIs
<1>4. Cardinality(DOMAIN seen') = Cardinality(DOMAIN seen) + 1
  <2>1. PICK S, x : S = DOMAIN seen /\ x = cur.proto
    OBVIOUS
  <2>2. IsFiniteSet(S) /\ x \notin S
    BY <1>3, <2>1, WalkFinite
  <2>3. Cardinality(S \cup {x}) = Cardinality(S) + 1
    BY <2>2, FS_AddElement
  <2> QED
    BY <1>3, <2>1, <2>3, Zenon
<1>5. /\ proxy.runtimes \in Nat /\ proxy.final \in Nat /\ proxy.retryable \in Nat
      /\ proxy.requests \in Nat
  BY <1>2 DEF ProxyRec
<1>6. /\ proxy.requests = proxy.runtimes + (proxy.retryable + proxy.final)
      /\ proxy.runtimes = Cardinality(DOMAIN seen)
      /\ proxy.runtimes + proxy.final <= Begun - 1
      /\ proxy.retryable <= m * (Begun - 1) + cur.i
  BY <1>1 DEF CountInv, errors
<1>7. m * Begun = m * (Begun - 1) + m /\ m * (Begun - 1) \in Int
  <2>1. PICK b \in Int : b = Begun
    BY <1>2
  <2>2. m * b = m * (b - 1) + m /\ m * (b - 1) \in Int
    BY <1>2, Times
  <2> QED
    BY <2>1, <2>2
<1>8. /\ proxy'.requests = proxy'.runtimes + (proxy'.retryable + proxy'.final)
      /\ proxy'.runtimes = Cardinality(DOMAIN seen')
  BY <1>3, <1>4, <1>5, <1>6
<1>9. /\ proxy'.runtimes + proxy'.final <= Begun
      /\ proxy'.retryable <= m * Begun
  BY <1>2, <1>3, <1>5, <1>6, <1>7
<1> QED
  BY <1>1, <1>8, <1>9 DEF CountInv, errors

LEMMA CountNext ==
  BuildInv /\ WalkInv /\ CountInv /\ [Next]_vars => CountInv'
<1> SUFFICES ASSUME BuildInv, WalkInv, CountInv, [Next]_vars
             PROVE  CountInv'
  OBVIOUS
<1>1. CASE UNCHANGED vars
  BY <1>1 DEF vars, buildVars, checkVars, CountInv, errors, Begun, ngtrs
<1>2. CASE BuildNext /\ UNCHANGED checkVars
  BY <1>2, BuildIsIdle, CountQuiet DEF checkVars
<1>3. CASE InDnsbl \/ Filter
  BY <1>3, CountQuiet DEF InDnsbl, Filter
<1>4. CASE StartCheck
  <2>1. /\ proxy' = proxy /\ seen' = seen /\ proxy = NewProxy /\ query' = query
        /\ todo' = ngtrs /\ ngtrs' = ngtrs /\ cur' = None
    BY <1>4 DEF StartCheck, WalkInv, buildVars, ngtrs
  <2>2. Begun' = 0
    BY <2>1, WalkFinite DEF Begun
  <2>3. proxy.runtimes = 0 /\ proxy.final = 0 /\ proxy.retryable = 0
    BY <2>1 DEF NewProxy
  <2>4. query.max_tries * 0 = 0
    BY QueryFacts DEF BuildInv
  <2>5. /\ proxy.runtimes + proxy.final <= 0
        /\ proxy.retryable <= query.max_tries * 0
    BY <2>3, <2>4
  <2> QED
    BY <2>1, <2>2, <2>5 DEF CountInv, errors
<1>5. CASE StartOne
  BY <1>5, CountStartOne
<1>6. CASE StepPasses
  <2>1. /\ cur # None /\ cur' = [cur EXCEPT !.step = @ + 1]
        /\ UNCHANGED <<buildVars, verdict, todo, proxy, seen>>
    BY <1>6 DEF StepPasses
  <2>2. cur'.i = cur.i
    BY <2>1 DEF WalkInv, CurOK
  <2>3. Begun' = Begun /\ query' = query
    BY <2>1 DEF Begun, ngtrs, buildVars
  <2>4. verdict = "checking"
    BY <2>1 DEF WalkInv
  <2>5. proxy.retryable <= query.max_tries * Begun
    <3>1. /\ query.max_tries \in Nat /\ Begun \in Nat /\ cur.i \in Nat
          /\ cur.i < query.max_tries /\ proxy.retryable \in Nat
      BY <2>1, QueryFacts, WalkFinite DEF BuildInv, WalkInv, CurOK, ProxyRec
    <3>2. PICK b \in Int : b = Begun
      BY <3>1
    <3>3. /\ query.max_tries * b = query.max_tries * (b - 1) + query.max_tries
          /\ query.max_tries * (b - 1) \in Int
      BY <3>1, Times
    <3>4. proxy.retryable <= query.max_tries * (b - 1) + cur.i
      BY <2>1, <2>4, <3>2 DEF CountInv
    <3> QED
      BY <3>1, <3>2, <3>3, <3>4
  <2>6. proxy.runtimes + proxy.final <= Begun
    <3>1. proxy.runtimes \in Nat /\ proxy.final \in Nat /\ Begun \in Nat
      BY WalkFinite DEF WalkInv, ProxyRec
    <3>2. proxy.runtimes + proxy.final <= Begun - 1
      BY <2>1, <2>4 DEF CountInv
    <3> QED
      BY <3>1, <3>2
  <2> QED
    BY <2>1, <2>2, <2>3, <2>4, <2>5, <2>6 DEF CountInv, errors
<1>7. CASE StepFails
  <2>1. PICK e :
          /\ proxy' = record_attempt_err(proxy, e)
          /\ cur' = IF Retries(e) THEN [cur EXCEPT !.i = @ + 1, !.step = 1]
                                  ELSE None
    BY <1>7 DEF StepFails
  <2>2. cur # None /\ UNCHANGED <<buildVars, verdict, todo, seen>>
    BY <1>7 DEF StepFails
  <2>3. cur' = None \/ (e \in query.retry_on /\ cur'.i = cur.i + 1)
    BY <2>1, <2>2 DEF Retries, WalkInv, CurOK
  <2> QED
    BY <2>1, <2>2, <2>3, CountError
<1>8. CASE Unobserved
  <2>1. PICK entry : entry = [judge |-> cur.judge]
    OBVIOUS
  <2>2. PICK level \in Levels, caps \in CapSets, signals \in SignalSets :
               level = None /\ caps = {} /\ signals = {}
    BY DEF Levels, CapSets, SignalSets
  <2>3. cur # None /\ Confirms(level, caps, signals, entry)
    BY <1>8, <2>1, <2>2 DEF Unobserved, LastStep, Confirms
  <2> QED
    BY <2>3, CountConfirm
<1>9. CASE PageArrives
  <2>1. CASE Rejects
    BY <1>9, <2>1, PageEnds, CountError DEF Rejects
  <2>2. CASE ~Rejects
    <3>1. PICK d \in Deeds :
            Confirms(IF checks_anon_level(cur.proto)
                     THEN anonymity_level(cur.judge, d) ELSE None,
                     caps_from_content(d), assess(d), PageEntry(d))
      BY <1>9, <2>2, PageEnds
    <3> DEFINE level == IF checks_anon_level(cur.proto)
                        THEN anonymity_level(cur.judge, d) ELSE None
    <3>2. cur # None /\ level \in Levels
      BY <1>9, PageEnds, ObservedType
    <3> QED
      BY <3>1, <3>2, ObservedType, CountConfirm
  <2> QED
    BY <2>1, <2>2
<1>10. CASE EndCheck
  <2>1. seen' = seen /\ verdict' # "checking"
    BY <1>10 DEF EndCheck, types_passed
  <2>2. /\ proxy'.requests = proxy.requests /\ proxy'.runtimes = proxy.runtimes
        /\ proxy'.retryable = proxy.retryable /\ proxy'.final = proxy.final
    BY <1>10, TypesPassedIs
  <2> QED
    BY <2>1, <2>2 DEF CountInv, errors
<1> QED
  BY <1>1, <1>2, <1>3, <1>4, <1>5, <1>6, <1>7, <1>8, <1>9, <1>10
     DEF Next, CheckNext

LEMMA TypesFollow == BuildInv /\ WalkInv => TypeOK
<1> SUFFICES ASSUME BuildInv, WalkInv PROVE TypeOK
  OBVIOUS
<1>1. ngtrs \subseteq DOMAIN query.types /\ query.max_tries \in Nat
  BY QueryFacts DEF BuildInv
<1>2. todo \subseteq DOMAIN query.types
  BY <1>1 DEF WalkInv
<1>3. cur # None =>
        /\ cur.proto \in DOMAIN query.types \ todo
        /\ cur.judge \in judges \cup {None}
        /\ cur.i \in 0..query.max_tries - 1
        /\ cur.step \in 1..Len(attempt(cur.proto))
  <2> SUFFICES ASSUME cur # None
               PROVE
        /\ cur.proto \in DOMAIN query.types \ todo
        /\ cur.judge \in judges \cup {None}
        /\ cur.i \in 0..query.max_tries - 1
        /\ cur.step \in 1..Len(attempt(cur.proto))
    OBVIOUS
  <2>1. CurOK /\ cur.proto \in Proto
    BY QueryFacts DEF WalkInv, CurOK, BuildInv
  <2>2. Len(attempt(cur.proto)) \in Nat
    BY <2>1, AttemptLen
  <2> QED
    BY <1>1, <2>1, <2>2 DEF CurOK, JudgesFor
<1>4. DOMAIN proxy.types \subseteq DOMAIN query.types
  BY <1>1 DEF WalkInv
<1>5. \A p \in DOMAIN proxy.types :
        proxy.types[p] \in (IF p = "Http" THEN AnonLevel ELSE {}) \cup {None}
  <2>1. PICK T \in SUBSET Proto : proxy.types \in [T -> Levels]
    BY DEF WalkInv, ProxyRec, TypeMaps
  <2> QED
    BY <2>1 DEF WalkInv, Levels
<1>6. /\ proxy.caps \subseteq {"cookie", "referer"}
      /\ proxy.trust \subseteq {"InjectedHeader"}
  BY DEF WalkInv, ProxyRec, CapSets, SignalSets
<1>7. verdict \in {"idle", "checking", "pass", "fail", "emit", "drop"}
  BY DEF WalkInv
<1> QED
  BY <1>2, <1>3, <1>4, <1>5, <1>6, <1>7 DEF TypeOK, BuildInv

(***************************************************************************)
(* Every attempt is counted once, and a protocol ends at its first success *)
(* or its first error outside the retry policy, after at most max_tries    *)
(* attempts.                                                               *)
(***************************************************************************)
THEOREM CheckerOneEnd == Spec => []OneEndPerProtocol
<1>1. Init => CountInv
  <2> SUFFICES ASSUME Init PROVE CountInv
    OBVIOUS
  <2>1. DOMAIN seen = {} /\ verdict = "idle"
    BY DEF Init
  <2> QED
    BY <2>1, FS_EmptySet DEF Init, NewProxy, CountInv, errors
<1>2. BuildInv /\ WalkInv /\ CountInv => OneEndPerProtocol
  <2> SUFFICES ASSUME BuildInv, WalkInv, CountInv PROVE OneEndPerProtocol
    OBVIOUS
  <2>1. TypeOK
    BY TypesFollow
  <2>2. ASSUME verdict = "checking", cur # None
        PROVE  proxy.retryable <= query.max_tries * Begun
    <3>1. /\ query.max_tries \in Nat /\ Begun \in Nat /\ cur.i \in Nat
          /\ cur.i < query.max_tries /\ proxy.retryable \in Nat
      BY <2>2, QueryFacts, WalkFinite DEF BuildInv, WalkInv, CurOK, ProxyRec
    <3>2. PICK b \in Int : b = Begun
      BY <3>1
    <3>3. /\ query.max_tries * b = query.max_tries * (b - 1) + query.max_tries
          /\ query.max_tries * (b - 1) \in Int
      BY <3>1, Times
    <3>4. proxy.retryable <= query.max_tries * (b - 1) + cur.i
      BY <2>2, <3>2 DEF CountInv
    <3> QED
      BY <3>1, <3>2, <3>3, <3>4
  <2> QED
    BY <2>1, <2>2 DEF CountInv, OneEndPerProtocol, Begun
<1> QED
  BY <1>1, <1>2, CountNext, InitInv, BuildNextInv, WalkNext, PTL DEF Spec
============================================================================
