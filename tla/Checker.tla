------------------------------ MODULE Checker ------------------------------
(***************************************************************************)
(* Checker::check on one proxy, from the construction of the checker        *)
(* (Judges) through every step of every attempt (Negotiator) to the verdict. *)
(*                                                                         *)
(* What the proxy does to a request is a deed: what it lets through, leaks, *)
(* adds or drops.  The page the checker reads is the deed applied to what   *)
(* the judge echoes.  `seen` keeps, per protocol, the deed and the judge    *)
(* behind a confirmed type; no code reads it.                              *)
(***************************************************************************)
EXTENDS Judges, FiniteSets, Functions

CONSTANTS
  Deeds,   \* the deeds in play, a subset of Deed
  None     \* no level, no judge, no check_one in progress

\* marker, referer, cookie: echoed; leak: addresses of the host shown;
\* exit: some other address shown; extra: mentions added to the page;
\* injected: a header the checker never sent.
Deed == [marker : BOOLEAN, referer : BOOLEAN, cookie : BOOLEAN,
         exit : BOOLEAN, leak : SUBSET HostIps, extra : Nat,
         injected : BOOLEAN]

ASSUME DeedsAssumption == Deeds \subseteq Deed

VARIABLES
  verdict,  \* idle, checking, pass or fail, then emit or drop
  todo,     \* protocols still to check, walked in the order of ALL
  cur,      \* the check_one in progress: protocol, judge, attempt, step
  proxy,    \* types, statistics, capabilities and trust of the proxy
  seen      \* history: what confirmed each type

checkVars == <<verdict, todo, cur, proxy, seen>>
vars == <<buildVars, checkVars>>

NewProxy == [types |-> <<>>, requests |-> 0, runtimes |-> 0, retryable |-> 0,
             final |-> 0, caps |-> {}, trust |-> {}]

Init ==
  /\ BuildInit
  /\ verdict = "idle"
  /\ todo = {}
  /\ cur = None
  /\ proxy = NewProxy
  /\ seen = <<>>

-----------------------------------------------------------------------------
\* The errors of a proxy, kept as the two sums the retry policy tells apart.
errors(p) == p.retryable + p.final

record_attempt_err(p, e) ==
  IF e \in query.retry_on
  THEN [p EXCEPT !.requests = @ + 1, !.retryable = @ + 1]
  ELSE [p EXCEPT !.requests = @ + 1, !.final = @ + 1]

record_attempt_ok(p) ==
  [p EXCEPT !.requests = @ + 1, !.runtimes = @ + 1]

\* BTreeMap::insert: a later value replaces an earlier one.
Insert(f, key, value) ==
  [k \in DOMAIN f \cup {key} |-> IF k = key THEN value ELSE f[k]]

add_type(p, proto, level) == [p EXCEPT !.types = Insert(@, proto, level)]

\* A capability once shown is kept, whatever later protocols show.
record_caps(p, caps) == [p EXCEPT !.caps = @ \cup caps]

\* Mutant: a later protocol overwrites the verdict.
record_trust_Overwrite(p, signals) == [p EXCEPT !.trust = signals]

\* A signal once raised is kept, whatever later protocols show.
record_trust(p, signals) == [p EXCEPT !.trust = @ \cup signals]

-----------------------------------------------------------------------------
caps_from_content(d) ==
  {c \in {"cookie", "referer"} : (c = "cookie" /\ d.cookie)
                                 \/ (c = "referer" /\ d.referer)}

\* The marker and some address always; the echoed Referer and Cookie too
\* unless the query relaxed that.
response_is_valid(d) ==
  /\ d.marker
  /\ d.exit \/ d.leak # {}
  /\ query.relaxed_validity \/ (d.referer /\ d.cookie)

\* The mentions on the page: the judge's own and the ones the proxy adds.
Mentions(j, d) == JMarks[j] + d.extra

\* Mutant: the judge's own mentions count against the proxy.
anonymity_level_NoBaseline(j, d) ==
  IF d.leak \cap real_ext_ips # {} THEN "Transparent"
  ELSE IF Mentions(j, d) > 0 THEN "Anonymous"
  ELSE "High"

anonymity_level(j, d) ==
  IF d.leak \cap real_ext_ips # {} THEN "Transparent"
  ELSE IF Mentions(j, d) > JMarks[j] THEN "Anonymous"
  ELSE "High"

\* --require-trusted implies the assessment.
assess(d) ==
  IF (query.trust_check \/ query.require_trusted) /\ d.injected
  THEN {"InjectedHeader"} ELSE {}

-----------------------------------------------------------------------------
\* Requested and expected; an empty expectation is "unknown" and excludes
\* nothing.
ngtrs == {p \in DOMAIN query.types : query.expected = {} \/ p \in query.expected}

\* The protocol of a non-empty S that the fixed order walks first.
Front(S) ==
  ALL[CHOOSE i \in DOMAIN ALL : /\ ALL[i] \in S
                               /\ \A k \in 1..i - 1 : ALL[k] \notin S]

\* A blocklisted address is rejected before any work.
InDnsbl ==
  /\ phase = "ready"
  /\ verdict = "idle"
  /\ query.dnsbl
  /\ verdict' = "fail"
  /\ UNCHANGED <<buildVars, todo, cur, proxy, seen>>

StartCheck ==
  /\ phase = "ready"
  /\ verdict = "idle"
  /\ verdict' = "checking"
  /\ todo' = ngtrs
  /\ UNCHANGED <<buildVars, cur, proxy, seen>>

\* Mutant: any verified judge will do.
JudgesFor_AnyScheme(p) == IF mode = "Judged" THEN judges ELSE {None}

\* check_one takes one random judge of the protocol's scheme for all its
\* attempts, or the liveness target; without a judge the protocol fails.
JudgesFor(p) ==
  IF mode = "Judged" THEN {j \in judges : JScheme[j] = judge_scheme(p)}
                     ELSE {None}

\* Mutant: a protocol without a judge waits for one to come up.
StartOne_AwaitsJudge ==
  /\ verdict = "checking" /\ cur = None /\ todo # {}
  /\ todo' = todo \ {Front(todo)}
  /\ \E j \in JudgesFor(Front(todo)) :
       cur' = [proto |-> Front(todo), judge |-> j, i |-> 0, step |-> 1]
  /\ UNCHANGED <<buildVars, verdict, proxy, seen>>

\* With no attempt allowed (max_tries is not validated) the protocol fails
\* untried.
StartOne ==
  /\ verdict = "checking" /\ cur = None /\ todo # {}
  /\ LET p == Front(todo)
     IN  /\ todo' = todo \ {p}
         /\ IF JudgesFor(p) = {} \/ query.max_tries = 0 THEN cur' = None
            ELSE \E j \in JudgesFor(p) :
                   cur' = [proto |-> p, judge |-> j, i |-> 0, step |-> 1]
  /\ UNCHANGED <<buildVars, verdict, proxy, seen>>

Family == IF cur.judge = None THEN LivenessFamily ELSE JFamily[cur.judge]

Step == attempt(cur.proto)[cur.step]

\* A step that is not the last one passes.
StepPasses ==
  /\ cur # None
  /\ cur.step < Len(attempt(cur.proto))
  /\ StepCanPass(Step, Family)
  /\ cur' = [cur EXCEPT !.step = @ + 1]
  /\ UNCHANGED <<buildVars, verdict, todo, proxy, seen>>

\* Mutant: every error is retried.
Retries_AnyError(e) == cur.i + 1 < query.max_tries

\* The attempt starts over only for an error the policy retries, and only
\* while attempts remain.
Retries(e) == e \in query.retry_on /\ cur.i + 1 < query.max_tries

StepFails ==
  /\ cur # None
  /\ \E e \in StepErrors(Step, Family) :
       /\ proxy' = record_attempt_err(proxy, e)
       /\ cur' = IF Retries(e) THEN [cur EXCEPT !.i = @ + 1, !.step = 1]
                               ELSE None
  /\ UNCHANGED <<buildVars, verdict, todo, seen>>

\* A working attempt, with what it observed.
Working(level, caps, signals) ==
  record_trust(record_caps(add_type(record_attempt_ok(proxy), cur.proto,
                                    level), caps), signals)

LastStep == cur # None /\ cur.step = Len(attempt(cur.proto))

\* CONNECT:25 and the liveness fetch have no page to read: the last step
\* passing is all, and nothing is observed.
Unobserved ==
  /\ LastStep
  /\ cur.judge = None \/ cur.proto = "Connect25"
  /\ proxy' = Working(None, {}, {})
  /\ seen' = Insert(seen, cur.proto, [judge |-> cur.judge])
  /\ cur' = None
  /\ UNCHANGED <<buildVars, verdict, todo>>

\* A 200 with the judge's page on it.
PageArrives ==
  /\ LastStep
  /\ cur.judge # None /\ cur.proto # "Connect25"
  /\ \E d \in Deeds :
       IF response_is_valid(d)
       THEN /\ proxy' = Working(IF checks_anon_level(cur.proto)
                                THEN anonymity_level(cur.judge, d) ELSE None,
                                caps_from_content(d), assess(d))
            /\ seen' = Insert(seen, cur.proto,
                 [judge |-> cur.judge, leak |-> d.leak, extra |-> d.extra,
                  injected |-> d.injected, caps |-> caps_from_content(d)])
       ELSE /\ proxy' = record_attempt_err(proxy, "BadResponse")
            /\ seen' = seen
  /\ cur' = None
  /\ UNCHANGED <<buildVars, verdict, todo>>

\* Mutant: the requested levels are not looked at.
Matches_AnyLevel(p, level) == TRUE

\* Whether a confirmed type meets the request.  Only HTTP ever carries a
\* level, so a type with level None meets no level filter.
Matches(p, level) ==
  \/ p \notin DOMAIN query.types
  \/ query.types[p] = {}
  \/ level \in query.types[p]

\* Strict drops the confirmed types that do not match and needs a survivor;
\* otherwise one match is enough.
types_passed ==
  LET T == proxy.types
      matching == {p \in DOMAIN T : Matches(p, T[p])}
  IN  /\ proxy' = IF query.strict
                  THEN [proxy EXCEPT !.types = Restrict(T, matching)]
                  ELSE proxy
      /\ verdict' = IF matching # {} THEN "pass" ELSE "fail"

\* `any` in the code: a check_one that returned true confirmed a type.
EndCheck ==
  /\ verdict = "checking" /\ cur = None /\ todo = {}
  /\ IF DOMAIN proxy.types # {} THEN types_passed
     ELSE verdict' = "fail" /\ proxy' = proxy
  /\ UNCHANGED <<buildVars, todo, cur, seen>>

capabilities ==
  proxy.caps \cup (IF "Connect25" \in DOMAIN proxy.types THEN {"connect25"}
                                                         ELSE {})

\* CapsFilter: every required capability, and no signal if trust is required.
passes ==
  /\ query.require \subseteq capabilities
  /\ query.require_trusted => proxy.trust = {}

\* check_stream emits a passing proxy only through the capability filter.
Filter ==
  /\ verdict = "pass"
  /\ verdict' = IF passes THEN "emit" ELSE "drop"
  /\ UNCHANGED <<buildVars, todo, cur, proxy, seen>>

CheckNext ==
  \/ InDnsbl \/ StartCheck \/ StartOne
  \/ StepPasses \/ StepFails \/ Unobserved \/ PageArrives
  \/ EndCheck \/ Filter

Next == (BuildNext /\ UNCHANGED checkVars) \/ CheckNext

\* Every wait in the construction and in an attempt carries a timeout, so a
\* step that can be taken is taken.
Spec == Init /\ [][Next]_vars /\ WF_vars(Next)

-----------------------------------------------------------------------------
TypeOK ==
  /\ query \in Queries
  /\ phase \in {"start", "ips", "judges", "ready", "NoTypes",
                "ExtIpUnknown", "NoJudges"}
  /\ asked \subseteq Endpoint /\ real_ext_ips \subseteq HostIps
  /\ unprobed \subseteq Judge /\ judges \subseteq Judge \ unprobed
  /\ mode \in {"none", "Judged", "Liveness"}
  /\ verdict \in {"idle", "checking", "pass", "fail", "emit", "drop"}
  /\ todo \subseteq DOMAIN query.types
  /\ \/ cur = None
     \/ /\ cur.proto \in DOMAIN query.types \ todo
        /\ cur.judge \in judges \cup {None}
        /\ cur.i \in 0..query.max_tries - 1
        /\ cur.step \in 1..Len(attempt(cur.proto))
  /\ DOMAIN proxy.types \subseteq DOMAIN query.types
  /\ \A p \in DOMAIN proxy.types :
       proxy.types[p] \in (IF p = "Http" THEN AnonLevel ELSE {}) \cup {None}
  /\ proxy.caps \subseteq {"cookie", "referer"}
  /\ proxy.trust \subseteq {"InjectedHeader"}

\* A type is on a proxy only because an attempt of that protocol worked
\* against a judge of the protocol's own flavour that had verified, or, with
\* no judge at all, against the liveness target.
TypesAreWitnessed ==
  \A p \in DOMAIN proxy.types :
    /\ p \in DOMAIN seen
    /\ IF judges = {} THEN seen[p].judge = None
       ELSE seen[p].judge \in judges /\ JScheme[seen[p].judge] = judge_scheme(p)

\* The level on a proxy is what the proxy did: Transparent exactly when it
\* showed an address of ours that we know of, else High exactly when it added
\* nothing to the page of the judge it was measured against.  Without a judge there
\* is no level.
LevelTellsTruth ==
  "Http" \in DOMAIN proxy.types =>
    LET level == proxy.types["Http"] w == seen["Http"]
    IN  IF w.judge = None THEN level = None
        ELSE /\ level = "Transparent" <=> w.leak \cap real_ext_ips # {}
             /\ level # "Transparent" => (level = "High" <=> w.extra = 0)

\* Every attempt is counted once, and a protocol ends at its first success or
\* its first error outside the policy: there are never more of those than
\* protocols begun, nor more retryable errors than the attempts allow.
OneEndPerProtocol ==
  LET begun == Cardinality(ngtrs) - Cardinality(todo)
      closed == IF cur = None THEN begun ELSE begun - 1
  IN  /\ TypeOK
      /\ proxy.requests = proxy.runtimes + errors(proxy)
      /\ proxy.runtimes = Cardinality(DOMAIN seen)
      /\ verdict = "checking" =>
           /\ proxy.runtimes + proxy.final <= closed
           /\ proxy.retryable <= query.max_tries * begun
           /\ cur # None => proxy.retryable >= cur.i

\* What the confirming pages showed.
Shown == {p \in DOMAIN seen : "injected" \in DOMAIN seen[p]}

\* With the trust check on, a header injected through any protocol is held
\* against the proxy, clean protocols and unassessed tunnels checked after it
\* notwithstanding; and --require-trusted never lets such a proxy out.
HoneypotRemembered ==
  LET caught == \E p \in Shown : seen[p].injected
  IN  /\ query.trust_check /\ caught => "InjectedHeader" \in proxy.trust
      /\ query.require_trusted /\ verdict = "emit" => ~caught

\* A pass means a confirmed type meets the request; under --strict every
\* type left on the proxy does: an HTTP type has a level that was asked for,
\* if any was.  What is emitted has shown every required echo on some page,
\* and its CONNECT:25 type, if required, has survived what strict removes.
PassMeansWanted ==
  /\ verdict = "emit" => query.require \subseteq
       (UNION {seen[p].caps : p \in Shown})
         \cup {"connect25" : p \in DOMAIN proxy.types \cap {"Connect25"}}
  /\ verdict \in {"pass", "emit"} =>
    LET ok == {p \in DOMAIN proxy.types : \/ p # "Http"
                                          \/ query.types[p] = {}
                                          \/ proxy.types[p] \in query.types[p]}
    IN  /\ ok # {}
        /\ query.strict => ok = DOMAIN proxy.types

\* A checker is built or refused, and a check that can start gets a verdict.
CheckEnds ==
  <>(phase \in {"NoTypes", "ExtIpUnknown", "NoJudges"}
     \/ verdict \in {"fail", "emit", "drop"})
=============================================================================
