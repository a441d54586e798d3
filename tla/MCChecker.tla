----------------------------- MODULE MCChecker -----------------------------
(***************************************************************************)
(* A dual-stack host, two endpoints, two plain judges (one whose own page    *)
(* mentions a proxy, one reached over IPv6), a TLS and an SMTP one, and one  *)
(* deed of each kind the checker tells apart.                               *)
(***************************************************************************)
EXTENDS Checker, TLC

MCHostIps == {"ext4", "ext6"}
MCEndpoint == {"api", "api64"}
MCEndpointIp == [e \in MCEndpoint |-> IF e = "api" THEN "ext4" ELSE "ext6"]
MCJudge == {"azenv", "azenv6", "httpbins", "aspmx"}
MCJScheme == [j \in MCJudge |-> CASE j = "httpbins" -> "https"
                                 [] j = "aspmx" -> "smtp"
                                 [] OTHER -> "http"]
MCJFamily == [j \in MCJudge |-> IF j = "azenv6" THEN "v6" ELSE "v4"]
MCJMarks == [j \in MCJudge |-> IF j = "azenv" THEN 1 ELSE 0]

Clean == [marker |-> TRUE, referer |-> TRUE, cookie |-> TRUE, exit |-> TRUE,
          leak |-> {}, extra |-> 0, injected |-> FALSE]

MCDeeds == {Clean,
            [Clean EXCEPT !.leak = {"ext4"}],
            [Clean EXCEPT !.leak = {"ext6"}, !.extra = 1],
            [Clean EXCEPT !.extra = 1],
            [Clean EXCEPT !.injected = TRUE],
            [Clean EXCEPT !.cookie = FALSE],
            [Clean EXCEPT !.marker = FALSE]}

Base == [types |-> ("Http" :> {"High"} @@ "Socks4" :> {} @@ "Connect25" :> {}),
         expected |-> {}, strict |-> TRUE, relaxed_validity |-> TRUE,
         trust_check |-> FALSE, require_trusted |-> TRUE,
         require |-> {"cookie", "connect25"}, dnsbl |-> FALSE,
         liveness |-> "none", max_tries |-> 2, retry_on |-> {"Timeout"}]

\* The default policy and the transient one, strict and not, judged and with
\* a fallback, every protocol in some query; a CONNECT:25 that strict keeps
\* and one whose level makes it go; one without an attempt and one without a
\* type.
MCQueries ==
  {Base,
   [Base EXCEPT !.types = ("Http" :> {"Anonymous", "High"} @@ "Https" :> {}),
                !.strict = FALSE, !.relaxed_validity = FALSE,
                !.require_trusted = FALSE, !.trust_check = TRUE,
                !.require = {"referer"},
                !.liveness = "http", !.max_tries = 3,
                !.retry_on = {"Timeout", "Reset", "ConnFailed", "EmptyRecv"}],
   [Base EXCEPT !.types = ("Socks5" :> {} @@ "Connect80" :> {"High"}
                           @@ "Http" :> {}),
                !.expected = {"Socks5", "Connect80"}, !.dnsbl = TRUE, !.strict = FALSE,
                !.require = {}, !.liveness = "smtp"],
   [Base EXCEPT !.types = ("Http" :> {"High"} @@ "Connect25" :> {"High"})],
   [Base EXCEPT !.max_tries = 0],
   [Base EXCEPT !.types = <<>>]}
=============================================================================
