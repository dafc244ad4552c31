--------------------------- MODULE Configuration ---------------------------
(***************************************************************************)
(* The settings of a control API process: config.Load reads them from the  *)
(* environment, validateRuntimeComposition decides whether the process can *)
(* be put together from them, and the readiness policy, built at the end   *)
(* of openRuntime, checks its thresholds once more.                        *)
(*                                                                         *)
(* An environment has the variables of the code by short names.  A string  *)
(* is "" when it is unset, a number Unset; durations are in milliseconds.  *)
(* A URL is what its parser makes of it.                                   *)
(***************************************************************************)
EXTENDS Integers, Sequences, FiniteSets

CONSTANT Environments   \* the environments a process is started in, in groups

VARIABLES env, phase, cfg
vars == <<env, phase, cfg>>

Unset == -1
Unparsable == -2     \* also what a number that is refused is loaded as

\* What a variable falls back to, and the range of its value.
DefaultNumbers ==
    [redis_down |-> <<3, 1, 10>>, redis_recover |-> <<2, 1, 10>>,
     degraded_backlog |-> <<1000, 100, 10000>>, degraded_age |-> <<60000, 10000, 600000>>,
     report_queue |-> <<100, 10, 1000>>, report_batch |-> <<20, 1, 100>>]
DefaultSecurityNumbers ==
    [request_deadline |-> <<5000, 2000, 10000>>, redis_timeout |-> <<250, 100, 1000>>,
     signer_timeout |-> <<2000, 500, 5000>>, report_timeout |-> <<1000, 100, 2000>>,
     skew |-> <<120000, 30000, 300000>>]
RateLimits ==
    [login |-> <<10, 5, 50, 900000, 300000, 3600000>>,
     delivery |-> <<5, 1, 20, 3600000, 600000, 86400000>>,
     challenge |-> <<20, 5, 100, 300000, 60000, 1800000>>]

\* parseBoundedInt and parseBoundedInt64: a fallback is not held against the range.
parseBounded(value, fallback, minimum, maximum) ==
    IF value = Unset THEN fallback
    ELSE IF value \in minimum..maximum THEN value ELSE Unparsable

parseDuration(value, fallback, minimum, maximum) == parseBounded(value, fallback, minimum, maximum)

parseQueue(n) == n.report_batch <= n.report_queue

\* The numbers of the process; the limits for "down" start above those for "degraded".
loadNumbers(e) ==
    LET first == [k \in DOMAIN DefaultNumbers |->
                    parseBounded(e.number[k], DefaultNumbers[k][1], DefaultNumbers[k][2], DefaultNumbers[k][3])]
    IN [k \in DOMAIN first \cup {"down_backlog", "down_age"} |->
          CASE k = "down_backlog" -> parseBounded(e.number[k], 10000, first.degraded_backlog + 1, 100000)
            [] k = "down_age" -> parseDuration(e.number[k], 300000, first.degraded_age + 1000, 3600000)
            [] OTHER -> first[k]]

validNumbers(n) == (\A k \in DOMAIN n : n[k] # Unparsable) /\ parseQueue(n)

isLoopbackHost(host) == host \in {"localhost", "loopback"}
parseBool(value) == [bad |-> value = "bad", set |-> value = "true"]

\* The addresses: a server on every interface, and metrics off the loopback, must be asked for.
validAddresses(e) ==
    LET http == IF e.http = "" THEN "loopback" ELSE e.http
        metrics == IF e.metrics = "" THEN "loopback" ELSE e.metrics
    IN /\ e.database # ""
       /\ ~parseBool(e.allow_http).bad /\ ~parseBool(e.allow_metrics).bad
       /\ http # "bad" /\ (http \in {"nohost", "unspecified"} => parseBool(e.allow_http).set)
       /\ metrics # "bad" /\ (parseBool(e.allow_metrics).set \/ isLoopbackHost(metrics))

-----------------------------------------------------------------------------
(* Settings of identity and trust.                                         *)
parseChoice(value, fallback, choices) ==
    IF value = "" THEN fallback ELSE IF value \in choices THEN value ELSE "bad"

parseProfile(e) == parseChoice(e.profile, "local", {"local", "test", "production"})
parseEmailMode(e) == parseChoice(e.email, "disabled", {"required", "grace", "disabled"})
parseProvider(value, fallback) == parseChoice(value, fallback, {"local", "external", "discard"})

NoURL == [scheme |-> "", host |-> "", path |-> ""]
BadURL == [scheme |-> "bad", host |-> "", path |-> ""]
LocalURL(host) == [scheme |-> "http", host |-> host, path |-> ""]

parseBaseURL(value, fallback, requireHTTPS) ==
    LET url == IF value = NoURL THEN fallback ELSE value
    IN IF /\ url.scheme \in {"http", "https"} /\ url.host # "" /\ url.path \in {"", "/"}
          /\ (requireHTTPS => url.scheme = "https")
       THEN [url EXCEPT !.path = ""] ELSE BadURL

\* The fallback origin is taken as it is, in production too.
parseOrigins(e, profile) ==
    IF e.origins = <<>> THEN <<LocalURL("localhost:8080")>>
    ELSE IF \A i \in DOMAIN e.origins :
              /\ e.origins[i].scheme \in {"http", "https"} /\ e.origins[i].host # "" /\ e.origins[i].path = ""
              /\ (profile = "production" => e.origins[i].scheme = "https")
         THEN e.origins ELSE <<BadURL>>

parseRequiredString(value, fallback) == IF value = "" THEN fallback ELSE value

\* Both parts of a rate limit are held against their range, the fallback too.
parseRateLimit(e, k) ==
    LET r == RateLimits[k]
        limit == IF e.limit[k] = Unset THEN r[1] ELSE e.limit[k]
        window == IF e.window[k] = Unset THEN r[4] ELSE e.window[k]
    IN IF limit \in r[2]..r[3] /\ window \in r[5]..r[6] THEN <<limit, window>> ELSE <<Unparsable, Unparsable>>

parseKey(value) == IF value = "" THEN "default" ELSE value

localKeyNames == {"lookup", "encryption", "root_seed", "config_seed"}

loadSecurity(e) ==
    LET profile == parseProfile(e)
        https == profile = "production"
    IN [profile |-> profile, email |-> parseEmailMode(e),
        public |-> parseBaseURL(e.public, LocalURL("localhost:8080"), https),
        bundles |-> <<parseBaseURL(e.bundles[1], LocalURL("localhost:8080"), https),
                      parseBaseURL(e.bundles[2], LocalURL("localhost:8081"), https),
                      parseBaseURL(e.bundles[3], LocalURL("localhost:8082"), https)>>,
        rp |-> parseRequiredString(e.rp, "localhost"), origins |-> parseOrigins(e, profile),
        signer |-> parseProvider(e.signer, "local"), protector |-> parseProvider(e.protector, "local"),
        sender |-> parseProvider(e.sender, "local"), reporter |-> parseProvider(e.reporter, "discard"),
        times |-> [k \in DOMAIN DefaultSecurityNumbers |->
                     parseDuration(e.number[k], DefaultSecurityNumbers[k][1], DefaultSecurityNumbers[k][2],
                                   DefaultSecurityNumbers[k][3])],
        limits |-> [k \in DOMAIN RateLimits |-> parseRateLimit(e, k)],
        keys |-> IF https THEN [k \in localKeyNames |-> "none"]
                 ELSE [k \in localKeyNames |-> parseKey(e.keys[k])]]

parsed(s) ==
    /\ "bad" \notin {s.profile, s.email, s.signer, s.protector, s.sender, s.reporter}
    /\ BadURL \notin {s.public, s.bundles[1], s.bundles[2], s.bundles[3], s.origins[1]}
    /\ s.rp # "blank"
    /\ \A k \in DOMAIN s.times : s.times[k] # Unparsable
    /\ \A k \in DOMAIN s.limits : s.limits[k] # <<Unparsable, Unparsable>>
    /\ \A k \in localKeyNames : s.keys[k] # "bad"

distinctBundles(s) == \A i, j \in 1..3 : s.bundles[i] = s.bundles[j] => i = j

production(e, s) ==
    /\ s.email # "disabled"
    /\ s.signer = "external" /\ s.protector = "external" /\ s.sender = "external"
    /\ s.reporter # "local"
    /\ \A k \in localKeyNames : e.keys[k] = ""

validSecurity(e, s) ==
    parsed(s) /\ distinctBundles(s) /\ (s.profile = "production" => production(e, s))

Nothing == [numbers |-> <<>>, security |-> [profile |-> "none"]]

\* config.Load.
Load ==
    /\ phase = "environment"
    /\ LET n == loadNumbers(env)
           s == loadSecurity(env)
       IN IF validAddresses(env) /\ validNumbers(n) /\ validSecurity(env, s)
          THEN phase' = "loaded" /\ cfg' = [numbers |-> n, security |-> s]
          ELSE phase' = "refused" /\ UNCHANGED cfg
    /\ UNCHANGED env

-----------------------------------------------------------------------------
isRuntimeHTTPSURL(url) == url.scheme = "https" /\ url.host # "" /\ url.path \in {"", "/"}

\* Mutant: the origins are trusted to have been checked when they were loaded.
compositionOriginsTrusted(s) ==
    IF s.profile = "production"
    THEN IF /\ s.email # "disabled"
            /\ {s.signer, s.protector, s.sender, s.reporter} = {"external"}
            /\ isRuntimeHTTPSURL(s.public) /\ \A i \in 1..3 : isRuntimeHTTPSURL(s.bundles[i])
         THEN "unavailable" ELSE "configuration"
    ELSE IF "external" \in {s.signer, s.protector, s.sender, s.reporter} THEN "unavailable"
    ELSE IF {s.signer, s.protector, s.sender} = {"local"} /\ s.reporter \in {"local", "discard"}
         THEN "none" ELSE "configuration"

validateRuntimeComposition(s) ==
    IF s.profile = "production"
    THEN IF /\ s.email # "disabled"
            /\ {s.signer, s.protector, s.sender, s.reporter} = {"external"}
            /\ isRuntimeHTTPSURL(s.public) /\ \A i \in 1..3 : isRuntimeHTTPSURL(s.bundles[i])
            /\ s.origins # <<>> /\ \A i \in DOMAIN s.origins : isRuntimeHTTPSURL(s.origins[i])
         THEN "unavailable" ELSE "configuration"
    ELSE IF "external" \in {s.signer, s.protector, s.sender, s.reporter} THEN "unavailable"
    ELSE IF {s.signer, s.protector, s.sender} = {"local"} /\ s.reporter \in {"local", "discard"}
         THEN "none" ELSE "configuration"

Compose ==
    /\ phase = "loaded"
    /\ phase' = CASE validateRuntimeComposition(cfg.security) = "none" -> "composed"
                  [] validateRuntimeComposition(cfg.security) = "unavailable" -> "unavailable"
                  [] OTHER -> "misconfigured"
    /\ UNCHANGED <<env, cfg>>

\* The thresholds of readiness.NewWithPolicy.
validPolicy(n) ==
    /\ n.redis_down \in 1..10 /\ n.redis_recover \in 1..10
    /\ n.degraded_backlog \in 100..10000
    /\ n.down_backlog > n.degraded_backlog /\ n.down_backlog <= 100000
    /\ n.degraded_age \in 10000..600000
    /\ n.down_age >= n.degraded_age + 1000 /\ n.down_age <= 3600000

\* The readiness checker is the last part of the runtime; without it everything opened is closed again.
Open ==
    /\ phase = "composed"
    /\ phase' = IF validPolicy(cfg.numbers) THEN "open" ELSE "failed"
    /\ UNCHANGED <<env, cfg>>

Init == (\E group \in Environments : env \in group) /\ phase = "environment" /\ cfg = Nothing
Next == Load \/ Compose \/ Open
Spec == Init /\ [][Next]_vars

-----------------------------------------------------------------------------
IsLoaded == phase \in {"loaded", "composed", "open", "failed", "unavailable", "misconfigured"}

\* A process that is open works with the local adapters it really has, holds its four keys, and its
\* thresholds are in order; no production process opens, since its adapters do not exist yet.
OpensWithWhatItHas ==
    phase = "open" =>
        LET s == cfg.security
        IN /\ s.profile \in {"local", "test"}
           /\ {s.signer, s.protector, s.sender} = {"local"} /\ s.reporter # "external"
           /\ \A k \in localKeyNames : s.keys[k] \in {"default", "good"}
           /\ cfg.numbers.degraded_backlog < cfg.numbers.down_backlog
           /\ cfg.numbers.degraded_age < cfg.numbers.down_age

\* A production process that lacks only its adapters has HTTPS everywhere, the origins included, which
\* Load takes unchecked when none is configured.
ProductionIsHTTPS ==
    (phase = "unavailable" /\ cfg.security.profile = "production") =>
        /\ cfg.security.public.scheme = "https"
        /\ \A i \in 1..3 : cfg.security.bundles[i].scheme = "https"
        /\ \A i \in DOMAIN cfg.security.origins : cfg.security.origins[i].scheme = "https"

\* The three places a bundle is read from differ in scheme or host, as they are written: a
\* URL with the path "/" is the one without it, and nothing else of the spelling is normalised.
BundlePlacesDiffer ==
    IsLoaded => \A i, j \in 1..3 :
        LET a == cfg.security.bundles[i]
            b == cfg.security.bundles[j]
        IN (a.scheme = b.scheme /\ a.host = b.host) => i = j

\* A production configuration is loaded only when no local key is in the environment.
ProductionHasNoLocalKeys ==
    (IsLoaded /\ cfg.security.profile = "production") => \A k \in localKeyNames : env.keys[k] = ""

\* A batch of error reports fits the queue, whichever of the two is configured.
BatchFitsQueue == IsLoaded => cfg.numbers.report_batch <= cfg.numbers.report_queue

\* The thresholds that Load accepts are thresholds the readiness policy accepts: "down" lies above
\* "degraded" also when only one of the two is configured.
LoadedPolicyIsValid == IsLoaded => validPolicy(cfg.numbers)
=============================================================================
