-------------------------- MODULE ControlApiProcess --------------------------
(***************************************************************************)
(* The life of one control API process: start-up opens the dependencies,   *)
(* the providers and the workers one after another and any step may fail;  *)
(* two HTTP servers run until a signal arrives or one of them stops; then  *)
(* the servers are shut down under one deadline and everything else is     *)
(* closed in order under a second one, while handlers and workers may      *)
(* still be at work.                                                       *)
(***************************************************************************)
EXTENDS Integers, Sequences, FiniteSets

CONSTANTS Requests, Scrapes     \* calls of the public and of the metrics server

Servers == {"metrics", "public"}
Workers == {"intake", "publisher"}
Users == Workers \cup Requests \cup Scrapes
ServerOf(u) == IF u \in Scrapes THEN "metrics" ELSE "public"
CallsOf(s) == IF s = "metrics" THEN Scrapes ELSE Requests

VARIABLES
    pc,         \* where main is
    held,       \* resources that are open
    hooks,      \* the workers runtimeShutdown knows how to stop
    told,       \* workers that have been told to stop
    user,       \* what each worker and each call is doing
    server, shutting,
    errCh,      \* what the two servers returned
    signalled, httpExpired, closeExpired, cut, closeErr, result
vars == <<pc, held, hooks, told, user, server, shutting, errCh, signalled, httpExpired, closeExpired, cut, closeErr, result>>

OfStart == <<pc, held, hooks>>
OfServers == <<server, shutting, errCh>>
OfStop == <<httpExpired, closeExpired, cut, closeErr>>

Init ==
    /\ pc = "load" /\ held = {} /\ hooks = {} /\ told = {} /\ user = [u \in Users |-> "off"]
    /\ server = [s \in Servers |-> "off"] /\ shutting = {} /\ errCh = <<>>
    /\ signalled = FALSE /\ httpExpired = FALSE /\ closeExpired = FALSE /\ cut = {}
    /\ closeErr = "none" /\ result = "none"

(***************************************************************************)
(* Start-up.                                                               *)
(***************************************************************************)
\* The step succeeds: `got` is open and main goes on.
Gets(from, to, got) ==
    /\ pc = from /\ pc' = to /\ held' = held \cup got
    /\ UNCHANGED <<hooks, told, user, OfServers, signalled, OfStop, result>>
\* The step fails: `got` was opened before, and main goes to the closing step `to`.
Fails(from, to, got, why) ==
    /\ pc = from /\ pc' = to /\ held' = held \cup got /\ result' = why
    /\ UNCHANGED <<hooks, told, user, OfServers, signalled, OfStop>>

LoadConfig ==
    Gets("load", "validate", {}) \/ Fails("load", "exited", {}, "configuration")
ValidateComposition ==
    Gets("validate", "postgres", {}) \/ Fails("validate", "exited", {}, "dependencies")
\* Mutant: a failed ping of Redis returns without closing what is open.
OpenLeavesPostgres ==
    \/ Gets("postgres", "redis", {"postgres"}) \/ Fails("postgres", "close_nats", {}, "dependencies")
    \/ Fails("postgres", "close_nats", {"postgres"}, "dependencies")
    \/ Gets("redis", "nats", {"redis"}) \/ Fails("redis", "exited", {"redis"}, "dependencies")
    \/ Gets("nats", "protector", {"nats"}) \/ Fails("nats", "close_nats", {}, "dependencies")
\* openWithOperations: a connection and its ping each; a failure closes what is open.
OpenDependencies ==
    \/ Gets("postgres", "redis", {"postgres"}) \/ Fails("postgres", "close_nats", {}, "dependencies")
    \/ Fails("postgres", "close_nats", {"postgres"}, "dependencies")
    \/ Gets("redis", "nats", {"redis"}) \/ Fails("redis", "close_nats", {"redis"}, "dependencies")
    \/ Gets("nats", "protector", {"nats"}) \/ Fails("nats", "close_nats", {}, "dependencies")
\* openRuntimeProviders: a failure closes the providers, and then the dependencies.
OpenProviders ==
    \/ Gets("protector", "root_signer", {"protector"}) \/ Fails("protector", "close_providers", {}, "dependencies")
    \/ Gets("root_signer", "config_signer", {"root_signer"}) \/ Fails("root_signer", "close_providers", {}, "dependencies")
    \/ Gets("config_signer", "signer", {"config_signer"}) \/ Fails("config_signer", "close_providers", {}, "dependencies")
    \/ Gets("signer", "reporter", {"signer"}) \/ Fails("signer", "close_providers", {}, "dependencies")
    \/ Gets("reporter", "compose", {"reporter"}) \/ Fails("reporter", "close_providers", {}, "dependencies")
\* Repositories, stores, the signed metadata, the applications and the consumer.
Compose ==
    Gets("compose", "subscribe", {}) \/ Fails("compose", "stop_intake", {}, "dependencies")
Subscribe ==
    Gets("subscribe", "start_intake", {"subscription"}) \/ Fails("subscribe", "stop_intake", {}, "dependencies")

StartWorker(w, from, to) ==
    /\ pc = from /\ pc' = to /\ hooks' = hooks \cup {w} /\ user' = [user EXCEPT ![w] = "idle"]
    /\ UNCHANGED <<held, told, OfServers, signalled, OfStop, result>>
StartIntake ==
    \/ StartWorker("intake", "start_intake", "start_publisher")
    \/ /\ pc = "start_intake" /\ pc' = "stop_intake" /\ held' = held \ {"subscription"} /\ result' = "dependencies"
       /\ UNCHANGED <<hooks, told, user, OfServers, signalled, OfStop>>
StartPublisher ==
    StartWorker("publisher", "start_publisher", "readiness") \/ Fails("start_publisher", "stop_intake", {}, "dependencies")
ComposeReadiness ==
    Gets("readiness", "listen", {}) \/ Fails("readiness", "stop_intake", {}, "dependencies")

(***************************************************************************)
(* Serving.                                                                *)
(***************************************************************************)
Listen ==
    /\ pc = "listen" /\ pc' = "serving" /\ server' = [s \in Servers |-> "starting"]
    /\ UNCHANGED <<held, hooks, told, user, shutting, errCh, signalled, OfStop, result>>
\* ListenAndServe: the address may be taken, accepting may fail, and a server
\* that is shut down returns ErrServerClosed.
ListenAndServe(s) ==
    /\ pc # "exited"
    /\ \/ server[s] = "starting" /\ s \notin shutting /\ server' = [server EXCEPT ![s] = "listening"] /\ UNCHANGED errCh
       \/ /\ server[s] \in {"starting", "listening"} /\ s \notin shutting
          /\ server' = [server EXCEPT ![s] = "failed"] /\ errCh' = Append(errCh, "failed")
       \/ /\ server[s] \in {"starting", "listening"} /\ s \in shutting
          /\ server' = [server EXCEPT ![s] = "closed"] /\ errCh' = Append(errCh, "closed")
    /\ UNCHANGED <<OfStart, told, user, shutting, signalled, OfStop, result>>
Signal ==
    /\ ~signalled /\ pc # "exited" /\ signalled' = TRUE
    /\ UNCHANGED <<OfStart, told, user, OfServers, OfStop, result>>
\* The select of runWithFactory.
Await ==
    /\ pc = "serving" /\ pc' = "stop_metrics"
    /\ \/ signalled /\ UNCHANGED <<result, errCh>>
       \/ /\ errCh # <<>> /\ errCh' = Tail(errCh)
          /\ result' = IF errCh[1] = "closed" THEN result ELSE "serve"
    /\ UNCHANGED <<held, hooks, told, user, server, shutting, signalled, OfStop>>

(***************************************************************************)
(* The two workers and the calls.  Each piece of work uses the database,   *)
(* then something else, then the database again.                           *)
(***************************************************************************)
Begin(u) ==
    /\ pc # "exited"
    /\ \/ u \in Workers /\ user[u] = "idle" /\ u \notin told
       \/ u \notin Workers /\ user[u] = "off" /\ server[ServerOf(u)] = "listening" /\ ServerOf(u) \notin shutting
    /\ user' = [user EXCEPT ![u] = "first"]
    /\ UNCHANGED <<OfStart, told, OfServers, signalled, OfStop, result>>
Rest(u) == IF u \in Workers THEN "idle" ELSE "done"
\* The database answers, or the pool is being closed or the context has ended.
QueryEnds(u) ==
    /\ pc # "exited" /\ user[u] \in {"first", "second"}
    /\ \/ user[u] = "first" /\ user' = [user EXCEPT ![u] = "call"]
       \/ user' = [user EXCEPT ![u] = Rest(u)]
    /\ UNCHANGED <<OfStart, told, OfServers, signalled, OfStop, result>>
CallEnds(u) ==
    /\ pc # "exited" /\ user[u] = "call"
    /\ \/ pc # "close_postgres" /\ user' = [user EXCEPT ![u] = "second"]
       \/ user' = [user EXCEPT ![u] = Rest(u)]
    /\ UNCHANGED <<OfStart, told, OfServers, signalled, OfStop, result>>
WorkerEnds(w) ==
    /\ pc # "exited" /\ user[w] = "idle" /\ w \in told /\ user' = [user EXCEPT ![w] = "ended"]
    /\ UNCHANGED <<OfStart, told, OfServers, signalled, OfStop, result>>

(***************************************************************************)
(* Shutdown.                                                               *)
(***************************************************************************)
Active(s) == {u \in CallsOf(s) : user[u] \in {"first", "call", "second"}}
BeginShutdown(s, from, to) ==
    /\ pc = from /\ pc' = to /\ shutting' = shutting \cup {s}
    /\ UNCHANGED <<held, hooks, told, user, server, errCh, signalled, OfStop, result>>
\* The shutdown of a server has no deadline.
EndShutdownPatiently(s, from, to) ==
    /\ pc = from /\ pc' = to /\ Active(s) = {}
    /\ UNCHANGED <<held, hooks, told, user, OfServers, signalled, OfStop, result>>
\* shutdownHTTPServerWithContext: the calls end, or the deadline passes and the
\* connections are closed under them.
EndShutdown(s, from, to) ==
    /\ pc = from /\ pc' = to
    /\ \/ Active(s) = {} /\ UNCHANGED <<cut, result>>
       \/ /\ Active(s) # {} /\ httpExpired /\ cut' = cut \cup Active(s)
          /\ result' = IF result = "none" THEN "shutdown" ELSE result
    /\ UNCHANGED <<held, hooks, told, user, OfServers, signalled, httpExpired, closeExpired, closeErr>>
shutdownHTTPServers ==
    \/ BeginShutdown("metrics", "stop_metrics", "await_metrics") \/ EndShutdown("metrics", "await_metrics", "stop_public")
    \/ BeginShutdown("public", "stop_public", "await_public") \/ EndShutdown("public", "await_public", "stop_intake")
HttpDeadline ==
    /\ pc \in {"await_metrics", "stop_public", "await_public"} /\ ~httpExpired /\ httpExpired' = TRUE
    /\ UNCHANGED <<OfStart, told, user, OfServers, signalled, closeExpired, cut, closeErr, result>>

ClosingSteps == {"stop_intake", "await_intake", "stop_publisher", "await_publisher", "drain"}
CloseDeadline ==
    /\ pc \in ClosingSteps /\ ~closeExpired /\ closeExpired' = TRUE
    /\ UNCHANGED <<OfStart, told, user, OfServers, signalled, httpExpired, cut, closeErr, result>>
StopIntake ==
    /\ pc = "stop_intake"
    /\ \/ "intake" \notin hooks /\ pc' = "stop_publisher" /\ UNCHANGED <<told, held>>
       \/ "intake" \in hooks /\ pc' = "await_intake" /\ told' = told \cup {"intake"} /\ held' = held \ {"subscription"}
    /\ UNCHANGED <<hooks, user, OfServers, signalled, OfStop, result>>
\* runtimeEmailIntake.Close reports an expired deadline even if the worker ended.
AwaitIntake ==
    /\ pc = "await_intake" /\ (user["intake"] = "ended" \/ closeExpired) /\ pc' = "stop_publisher"
    /\ closeErr' = IF closeExpired THEN "intake" ELSE closeErr
    /\ UNCHANGED <<held, hooks, told, user, OfServers, signalled, httpExpired, closeExpired, cut, result>>
StopPublisher ==
    /\ pc = "stop_publisher"
    /\ \/ "publisher" \notin hooks /\ pc' = "drain" /\ UNCHANGED told
       \/ "publisher" \in hooks /\ pc' = "await_publisher" /\ told' = told \cup {"publisher"}
    /\ UNCHANGED <<held, hooks, user, OfServers, signalled, OfStop, result>>
\* The first error is kept.
AwaitPublisher ==
    /\ pc = "await_publisher" /\ pc' = "drain"
    /\ \/ user["publisher"] = "ended" /\ UNCHANGED closeErr
       \/ closeExpired /\ closeErr' = IF closeErr = "none" THEN "publisher" ELSE closeErr
    /\ UNCHANGED <<held, hooks, told, user, OfServers, signalled, httpExpired, closeExpired, cut, result>>

Releases(from, to, what) ==
    /\ pc = from /\ pc' = to /\ held' = held \ what
    /\ UNCHANGED <<hooks, told, user, OfServers, signalled, OfStop, result>>
DrainReporter == Releases("drain", "close_providers", {"reporter"})
closeResources == Releases("close_providers", "close_nats", {"signer", "config_signer", "root_signer", "protector"})
\* The pool is closed when every connection has been returned.
PoolClosed == \A u \in Users : user[u] \notin {"first", "second"}
CloseDependencies ==
    \/ Releases("close_nats", "close_redis", {"nats"})
    \/ Releases("close_redis", "close_postgres", {"redis"})
    \/ PoolClosed /\ Releases("close_postgres", "exited", {"postgres"})

Start == LoadConfig \/ ValidateComposition \/ OpenDependencies \/ OpenProviders \/ Compose \/ Subscribe
         \/ StartIntake \/ StartPublisher \/ ComposeReadiness \/ Listen
Stop == shutdownHTTPServers \/ StopIntake \/ AwaitIntake \/ StopPublisher \/ AwaitPublisher
        \/ DrainReporter \/ closeResources \/ CloseDependencies
Main == Start \/ Await \/ Stop
Work(u) == Begin(u) \/ QueryEnds(u) \/ CallEnds(u)
Next ==
    \/ Main \/ Signal \/ HttpDeadline \/ CloseDeadline
    \/ \E s \in Servers : ListenAndServe(s)
    \/ \E u \in Users : Work(u)
    \/ \E w \in Workers : WorkerEnds(w)

\* Main, timers and database calls go on; other calls may hang for ever.
Spec ==
    /\ Init /\ [][Next]_vars /\ WF_vars(Main) /\ WF_vars(HttpDeadline) /\ WF_vars(CloseDeadline)
    /\ \A u \in Users : WF_vars(QueryEnds(u))

(***************************************************************************)
(* Properties.                                                             *)
(***************************************************************************)
TypeOK ==
    /\ held \subseteq {"postgres", "redis", "nats", "protector", "root_signer", "config_signer", "signer", "reporter", "subscription"}
    /\ hooks \subseteq Workers /\ told \subseteq hooks /\ Len(errCh) <= 2
    /\ server \in [Servers -> {"off", "starting", "listening", "failed", "closed"}] /\ shutting \subseteq Servers
    /\ user \in [Users -> {"off", "idle", "first", "call", "second", "done", "ended"}] /\ cut \subseteq Requests \cup Scrapes

\* Whatever start-up step failed and whatever deadline passed, everything that
\* was opened has been closed when the process returns.
NothingLeaked == pc = "exited" => held = {} /\ hooks \subseteq told

NeedsOf(u) ==
    CASE user[u] \in {"first", "second"} -> {"postgres"}
      [] user[u] = "call" /\ u = "intake" -> {"protector"}
      [] user[u] = "call" /\ u = "publisher" -> {"nats"}
      [] user[u] = "call" /\ u \in Requests -> {"redis", "signer", "protector"}
      [] OTHER -> {}

\* What a call or a worker uses is open while it is at work, unless the deadline
\* it was given has passed.
OpenWhileUsed ==
    pc # "exited" => \A u \in Users :
        NeedsOf(u) \subseteq held \/ (u \in cut) \/ (u \in Workers /\ closeExpired)

\* A shutdown that reports no error has waited for both workers, and an error of
\* the intake is not replaced by the publisher's answer.
CleanCloseIsComplete ==
    pc \in {"drain", "close_providers", "close_nats", "close_redis", "close_postgres"} /\ hooks = Workers =>
        /\ closeErr = "none" => \A w \in Workers : user[w] = "ended"
        /\ user["intake"] # "ended" => closeErr = "intake"

\* The process reports success only if it was told to stop and cut no call off:
\* a server that fails by itself makes the process fail.
SuccessMeansAsked == pc = "exited" /\ result = "none" => signalled /\ cut = {}

\* A process that is told to stop, or one of whose servers fails, returns, even
\* if a call outside the database never ends.
Stops == (signalled \/ errCh # <<>>) ~> pc = "exited"
=============================================================================
