------------------------------- MODULE Judges -------------------------------
(***************************************************************************)
(* Building a checker (Broker::build_checker, Checker::new): the host's     *)
(* external addresses are collected from several endpoints at once          *)
(* (resolver.rs), every judge is probed at once (judge.rs), and the checker *)
(* is either refused, judged, or degraded to a plain liveness fetch.        *)
(*                                                                         *)
(* A judge's page is reduced to what is read off it: its status, the host   *)
(* addresses and the marker it echoes, and how often it says "via" or       *)
(* "proxy" (one count here, two in the code, compared in the same way).     *)
(***************************************************************************)
EXTENDS Integers, Negotiator

CONSTANTS
  HostIps,     \* the addresses the host really leaves from
  Endpoint,    \* the services that echo one of them
  EndpointIp,  \* EndpointIp[e]: the one e sees
  Judge,       \* the judge URLs that parse
  JScheme,     \* JScheme[j]: http, https or smtp
  JFamily,     \* JFamily[j]: "v4" or "v6", the address its host resolves to
  JMarks,      \* JMarks[j]: mentions of a proxy on its page seen directly
  LivenessFamily, \* "v4" or "v6", the address the liveness URL resolves to
  Queries      \* the FindQuery values in play

\* What a query asks of the checker.  types maps a protocol to the levels
\* wanted of it, {} when any will do; liveness is the fallback URL.
Query ==
  [types : UNION {[T -> SUBSET AnonLevel] : T \in SUBSET Proto},
   expected : SUBSET Proto, strict : BOOLEAN, relaxed_validity : BOOLEAN,
   trust_check : BOOLEAN, require_trusted : BOOLEAN,
   require : SUBSET {"cookie", "referer", "connect25"}, dnsbl : BOOLEAN,
   liveness : {"none", "http", "smtp"}, max_tries : Nat,
   retry_on : SUBSET ProxyError]

ASSUME JudgesAssumption ==
  /\ Queries \subseteq Query
  /\ EndpointIp \in [Endpoint -> HostIps]
  /\ JScheme \in [Judge -> JudgeScheme]
  /\ JFamily \in [Judge -> {"v4", "v6"}]
  /\ JMarks \in [Judge -> Nat]
  /\ LivenessFamily \in {"v4", "v6"}

VARIABLES
  query,        \* what this run asks
  phase,        \* start, ips, judges, ready, or the error that ended it
  asked,        \* endpoints that have not answered yet
  real_ext_ips, \* the external addresses collected
  unprobed,     \* judges whose probe is still running
  judges,       \* the JudgePool: the judges that verified
  mode          \* Judged, or Liveness

buildVars == <<query, phase, asked, real_ext_ips, unprobed, judges, mode>>

BuildInit ==
  /\ query \in Queries
  /\ phase = "start"
  /\ asked = Endpoint
  /\ real_ext_ips = {}
  /\ unprobed = Judge
  /\ judges = {}
  /\ mode = "none"

\* find and check refuse a query without types before anything else.
StartBuild ==
  /\ phase = "start"
  /\ phase' = IF DOMAIN query.types = {} THEN "NoTypes" ELSE "ips"
  /\ UNCHANGED <<query, asked, real_ext_ips, unprobed, judges, mode>>

\* One endpoint answers with an address, or fails within its timeout.
EndpointAnswers(e) ==
  /\ phase = "ips"
  /\ e \in asked
  /\ asked' = asked \ {e}
  /\ \E found \in {{}, {EndpointIp[e]}} :
       real_ext_ips' = real_ext_ips \cup found
  /\ UNCHANGED <<query, phase, unprobed, judges, mode>>

\* join_all is over: with no address at all nothing could be judged.
external_ips ==
  /\ phase = "ips"
  /\ asked = {}
  /\ phase' = IF real_ext_ips = {} THEN "ExtIpUnknown" ELSE "judges"
  /\ UNCHANGED <<query, asked, real_ext_ips, unprobed, judges, mode>>

\* What a direct probe of a judge can come back with.
Replies == [resolved : BOOLEAN, ok : BOOLEAN, marker : BOOLEAN,
            shown : SUBSET HostIps]

\* An SMTP judge is taken on resolution alone; a page must be a 200 that
\* echoes the marker and an address of ours.
probe(j, r) ==
  /\ r.resolved
  /\ \/ JScheme[j] = "smtp"
     \/ r.ok /\ r.marker /\ r.shown \cap real_ext_ips # {}

ProbeJudge(j) ==
  /\ phase = "judges"
  /\ j \in unprobed
  /\ unprobed' = unprobed \ {j}
  /\ \E r \in Replies : judges' = IF probe(j, r) THEN judges \cup {j}
                                                 ELSE judges
  /\ UNCHANGED <<query, phase, asked, real_ext_ips, mode>>

\* Every probe is back: a judge suffices.
BuiltJudged ==
  /\ phase = "judges"
  /\ unprobed = {}
  /\ judges # {}
  /\ phase' = "ready"
  /\ mode' = "Judged"
  /\ UNCHANGED <<query, asked, real_ext_ips, unprobed, judges>>

\* No judge came up: only a liveness URL that is not SMTP and resolves
\* saves the run.
BuiltLiveness ==
  /\ phase = "judges"
  /\ unprobed = {}
  /\ judges = {}
  /\ \E resolved \in BOOLEAN :
       IF query.liveness = "http" /\ resolved
       THEN phase' = "ready" /\ mode' = "Liveness"
       ELSE phase' = "NoJudges" /\ mode' = mode
  /\ UNCHANGED <<query, asked, real_ext_ips, unprobed, judges>>

BuildNext ==
  \/ StartBuild
  \/ \E e \in Endpoint : EndpointAnswers(e)
  \/ external_ips
  \/ \E j \in Judge : ProbeJudge(j)
  \/ BuiltJudged
  \/ BuiltLiveness
=============================================================================
