----------------------------- MODULE Lifecycle -----------------------------
(***************************************************************************)
(* The process: main.run with its two listeners, the background probe that *)
(* keeps the reachability gauge, the pings of /readyz and datasources_list *)
(* and the shutdown on a signal, while datasources fail and recover.       *)
(*                                                                         *)
(* A datasource is good (it answers pings with a 2xx, well within any      *)
(* timeout), bad (it refuses, or answers with an error) or silent.  A ping *)
(* takes a while, and its outcome may be due to any state its datasource   *)
(* has been in since it began.                                             *)
(***************************************************************************)
EXTENDS Naturals

CONSTANTS
    N,             \* the number of datasources; All() has them in this order
    Default,       \* the default datasource
    Bounded,       \* the datasources whose HTTP client has a timeout above zero
    Requests,      \* the HTTP requests to the two servers
    Faults,        \* what can be wrong with a datasource
    MetricsOn      \* metricsAddr is not "off"

Names == 1 .. N

\* What config.Validate and datasources.Build guarantee.
ASSUME LifecycleAssumption ==
    /\ N \in Nat
    /\ Default \in Names
    /\ Bounded \subseteq Names
    /\ Faults \subseteq {"bad", "silent"}
    /\ MetricsOn \in BOOLEAN
    /\ "probe" \notin Requests

VARIABLES
    health,     \* the state of each datasource
    stage,      \* where main.run is
    exit,       \* how the process ended
    signalled,  \* SIGINT or SIGTERM has been caught
    timeUp,     \* the ten seconds of the shutdown are over
    listen,     \* the listeners of the two servers
    probe,      \* where the probe goroutine is
    gauge,      \* omcp_datasource_up
    kind,       \* what each request is for
    rq,         \* where it is
    status,     \* the status that /readyz answered
    target,     \* the datasource that each pinger is pinging, or 0
    seen,       \* the states that datasource has been in since the ping began
    since       \* history: the states the default has been in since the request came

Servers  == {"mcp", "metrics"}
Kinds    == {"readyz", "list", "other", "scrape"}
Pingers  == {"probe"} \cup Requests
Health   == {"good"} \cup Faults
ServerOf(k) == IF k = "scrape" THEN "metrics" ELSE "mcp"

mainVars    == <<stage, exit, signalled, timeUp>>
requestVars == <<kind, rq, status>>
pingVars    == <<target, seen>>
vars == <<health, mainVars, listen, probe, gauge, requestVars, pingVars, since>>

-----------------------------------------------------------------------------

(********************************* pings ***********************************)

\* As if the first came after the last.
BugAround(d) == IF d = N THEN 1 ELSE d + 1

\* The datasource after d in a round of all of them, or 0.
After(d) == IF d = N THEN 0 ELSE d + 1

\* The pinger turns to datasource d; to none if d is 0.
PingNext(p, d) ==
    /\ target' = [target EXCEPT ![p] = d]
    /\ seen' = [seen EXCEPT ![p] = IF d = 0 THEN {} ELSE {health[d]}]

\* As if only the datasource's own client had a timeout.
BugClientTimeoutOnly(p) == target[p] \in Bounded

\* The probe gives each ping 5 seconds and /readyz gives its one 3; the pings of
\* datasources_list have no deadline but the datasource's timeout.
HasDeadline(p) ==
    \/ p = "probe"
    \/ p \in Requests /\ kind[p] = "readyz"
    \/ target[p] \in Bounded

\* Ping returns, with an error or without.
PingReturns(p, ok) ==
    IF ok THEN "good" \in seen[p]
    ELSE "bad" \in seen[p] \/ ("silent" \in seen[p] /\ HasDeadline(p))

-----------------------------------------------------------------------------

(******************************* start-up **********************************)

Exit(how) ==
    /\ stage' = "exited"
    /\ exit' = how
    /\ probe' = "off"
    /\ listen' = [s \in Servers |-> "off"]
    /\ gauge' = [d \in Names |-> "unset"]
    /\ rq' = [r \in Requests |-> IF rq[r] = "open" THEN "cut" ELSE rq[r]]
    /\ target' = [p \in Pingers |-> 0]
    /\ seen' = [p \in Pingers |-> {}]
    /\ UNCHANGED <<health, signalled, timeUp, kind, status, since>>

\* config.Load, datasources.Build and auth.Build, which asks the OIDC issuer for
\* its configuration and waits as long as that takes.
Prepare ==
    /\ stage = "preparing"
    /\ \/ Exit("error")
       \/ /\ stage' = "serving"
          /\ listen' = [s \in Servers |->
                           IF s = "metrics" /\ ~ MetricsOn THEN "off" ELSE "open"]
          /\ IF MetricsOn THEN probe' = "sweep" /\ PingNext("probe", 1)
                          ELSE UNCHANGED <<probe, pingVars>>
          /\ UNCHANGED <<health, exit, signalled, timeUp, gauge, requestVars, since>>

\* The signal is caught from signal.NotifyContext on; before, it kills.
Signal ==
    \/ stage = "preparing" /\ Exit("killed")
    \/ /\ stage # "preparing" /\ stage # "exited"
       /\ ~ signalled
       /\ signalled' = TRUE
       /\ UNCHANGED <<health, stage, exit, timeUp, listen, probe, gauge, requestVars,
                      pingVars, since>>

\* ListenAndServe fails: at once, when it cannot have its port, or later.
ListenerFails(s) ==
    /\ listen[s] = "open"
    /\ listen' = [listen EXCEPT ![s] = "failed"]
    /\ UNCHANGED <<health, mainVars, probe, gauge, requestVars, pingVars, since>>

-----------------------------------------------------------------------------

(****************************** the probe **********************************)

\* A ping returns and sets the gauge.  The context of the probe is that of the
\* signal, which ends the ping with an error unless it is just done.
ProbeStep ==
    /\ probe = "sweep"
    /\ \E ok \in BOOLEAN :
         /\ PingReturns("probe", ok) \/ (signalled /\ ~ ok)
         /\ gauge' = [gauge EXCEPT ![target["probe"]] = IF ok THEN "up" ELSE "down"]
    /\ PingNext("probe", After(target["probe"]))
    /\ probe' = IF After(target["probe"]) = 0 THEN "wait" ELSE "sweep"
    /\ UNCHANGED <<health, mainVars, listen, requestVars, since>>

\* The ticker or the signal; a tick that comes during a sweep is kept for its end.
ProbeWakes ==
    /\ probe = "wait"
    /\ \/ probe' = "sweep" /\ PingNext("probe", 1)
       \/ signalled /\ probe' = "off" /\ UNCHANGED pingVars
    /\ UNCHANGED <<health, mainVars, listen, gauge, requestVars, since>>

-----------------------------------------------------------------------------

(******************************* requests **********************************)

\* As if readiness asked the first datasource there is.
BugReadyFirst(k) == IF k \in {"readyz", "list"} THEN 1 ELSE 0

\* The datasource that a request of kind k pings first.
FirstTarget(k) ==
    CASE k = "readyz" -> Default
      [] k = "list"   -> 1
      [] OTHER        -> 0

\* A request comes in: /readyz, datasources_list, any other (tool calls, streams)
\* or a scrape of the metrics.
Arrive(r, k) ==
    /\ rq[r] = "new"
    /\ listen[ServerOf(k)] = "open"
    /\ rq' = [rq EXCEPT ![r] = "open"]
    /\ kind' = [kind EXCEPT ![r] = k]
    /\ PingNext(r, FirstTarget(k))
    /\ since' = [since EXCEPT ![r] = {health[Default]}]
    /\ UNCHANGED <<health, mainVars, listen, probe, gauge, status>>

Ready(r) ==
    /\ rq[r] = "open" /\ kind[r] = "readyz"
    /\ \E ok \in BOOLEAN :
         /\ PingReturns(r, ok)
         /\ status' = [status EXCEPT ![r] = IF ok THEN 200 ELSE 503]
    /\ rq' = [rq EXCEPT ![r] = "answered"]
    /\ PingNext(r, 0)
    /\ UNCHANGED <<health, mainVars, listen, probe, gauge, kind, since>>

\* datasources_list, from one datasource to the next.
List(r) ==
    /\ rq[r] = "open" /\ kind[r] = "list"
    /\ \E ok \in BOOLEAN : PingReturns(r, ok)
    /\ PingNext(r, After(target[r]))
    /\ rq' = [rq EXCEPT ![r] = IF After(target[r]) = 0 THEN "answered" ELSE "open"]
    /\ UNCHANGED <<health, mainVars, listen, probe, gauge, kind, status, since>>

\* Any other request is answered some time, if at all; or the client of a request
\* goes away, which cancels its pings.
Ends(r) ==
    /\ rq[r] = "open"
    /\ \/ kind[r] \in {"other", "scrape"} /\ rq' = [rq EXCEPT ![r] = "answered"]
       \/ rq' = [rq EXCEPT ![r] = "gone"]
    /\ PingNext(r, 0)
    /\ UNCHANGED <<health, mainVars, listen, probe, gauge, kind, status, since>>

-----------------------------------------------------------------------------

(******************************* shutdown **********************************)

\* As if Shutdown waited for requests and left the port open.
BugPortStaysOpen(s) == UNCHANGED listen

Close(s) == listen' = [listen EXCEPT ![s] = IF @ = "failed" THEN @ ELSE "off"]

\* The select of main.run: either case may win when both are there.
Select ==
    /\ stage = "serving"
    /\ \/ /\ signalled
          /\ stage' = "closing_metrics"
          /\ Close("metrics")
          /\ UNCHANGED <<health, exit, signalled, timeUp, probe, gauge, requestVars,
                         pingVars, since>>
       \/ listen["mcp"] = "failed" /\ Exit("error")

Idle(s) == \A r \in Requests : rq[r] = "open" => ServerOf(kind[r]) # s

\* As if each shutdown waited for its requests, however long.
BugNoDeadline == FALSE

\* The one context of both shutdowns runs out.
Deadline == stage \in {"closing_metrics", "closing"} /\ ~ timeUp

TimePasses ==
    /\ Deadline
    /\ timeUp' = TRUE
    /\ UNCHANGED <<health, stage, exit, signalled, listen, probe, gauge, requestVars,
                   pingVars, since>>

\* metricsSrv.Shutdown returns, in time or not; httpSrv.Shutdown closes its port.
MetricsClosed ==
    /\ stage = "closing_metrics"
    /\ Idle("metrics") \/ timeUp
    /\ stage' = "closing"
    /\ Close("mcp")
    /\ UNCHANGED <<health, exit, signalled, timeUp, probe, gauge, requestVars,
                   pingVars, since>>

\* As if the error of the last Shutdown were dropped like that of the first.
BugErrorDropped(idle) == IF idle \/ timeUp THEN {"ok"} ELSE {}

\* As if the server were closed and not shut down.
BugCloseAtOnce(idle) == {IF idle THEN "ok" ELSE "error"}

\* What httpSrv.Shutdown can return: it looks for open requests before it looks
\* at the clock, but may find the time up between two such looks.
Outcomes(idle) == (IF idle THEN {"ok"} ELSE {}) \cup (IF timeUp THEN {"error"} ELSE {})

Closed == stage = "closing" /\ \E how \in Outcomes(Idle("mcp")) : Exit(how)

-----------------------------------------------------------------------------

\* A datasource fails, falls silent or recovers while the process looks on.
Turns(d, h) ==
    /\ stage \notin {"preparing", "exited"}
    /\ health[d] # h
    /\ health' = [health EXCEPT ![d] = h]
    /\ seen' = [p \in Pingers |-> IF target[p] = d THEN seen[p] \cup {h} ELSE seen[p]]
    /\ since' = [r \in Requests |->
                   IF rq[r] = "open" /\ d = Default THEN since[r] \cup {h} ELSE since[r]]
    /\ UNCHANGED <<mainVars, listen, probe, gauge, requestVars, target>>

Init ==
    /\ health \in [Names -> Health]
    /\ stage = "preparing"
    /\ exit = "none"
    /\ signalled = FALSE
    /\ timeUp = FALSE
    /\ listen = [s \in Servers |-> "off"]
    /\ probe = "off"
    /\ gauge = [d \in Names |-> "unset"]
    /\ kind = [r \in Requests |-> "other"]
    /\ rq = [r \in Requests |-> "new"]
    /\ status = [r \in Requests |-> 0]
    /\ target = [p \in Pingers |-> 0]
    /\ seen = [p \in Pingers |-> {}]
    /\ since = [r \in Requests |-> {}]

RequestStep(r) ==
    \/ \E k \in Kinds : Arrive(r, k)
    \/ Ready(r)
    \/ List(r)
    \/ Ends(r)

MainStep == Select \/ TimePasses \/ MetricsClosed \/ Closed

Finished == stage = "exited" /\ UNCHANGED vars

Next ==
    \/ Prepare
    \/ Signal
    \/ \E s \in Servers : ListenerFails(s)
    \/ ProbeStep
    \/ ProbeWakes
    \/ \E r \in Requests : RequestStep(r)
    \/ MainStep
    \/ \E d \in Names, h \in Health : Turns(d, h)
    \/ Finished

Spec == Init /\ [][Next]_vars

\* Goroutines run, tickers and deadlines go off.  Nothing is assumed of clients,
\* of datasources, of the OIDC issuer or of a ping that has no deadline.
Fairness ==
    /\ WF_vars(MainStep)
    /\ WF_vars(ProbeStep)
    /\ WF_vars(ProbeWakes /\ probe' = "sweep")
    /\ \A r \in Requests : WF_vars(Ready(r)) /\ WF_vars(HasDeadline(r) /\ List(r))

FairSpec == Spec /\ Fairness

-----------------------------------------------------------------------------

(****************************** properties *********************************)

\* The types of the variables.
TypeOK ==
    /\ health \in [Names -> Health]
    /\ stage \in {"preparing", "serving", "closing_metrics", "closing", "exited"}
    /\ exit \in {"none", "ok", "error", "killed"}
    /\ signalled \in BOOLEAN /\ timeUp \in BOOLEAN
    /\ listen \in [Servers -> {"off", "open", "failed"}]
    /\ probe \in {"off", "sweep", "wait"}
    /\ gauge \in [Names -> {"unset", "up", "down"}]
    /\ kind \in [Requests -> Kinds]
    /\ rq \in [Requests -> {"new", "open", "answered", "gone", "cut"}]
    /\ status \in [Requests -> {0, 200, 503}]
    /\ target \in [Pingers -> 0 .. N]
    /\ seen \in [Pingers -> SUBSET Health]
    /\ since \in [Requests -> SUBSET Health]

\* main.go:97, "Ready if the default datasource is reachable.  A degraded secondary
\* datasource must not fail readiness": whatever the others do, also during the
\* shutdown, /readyz never answers 503 while the default is good, nor 200 while it
\* is not.
ReadinessGrounded ==
    \A r \in Requests :
        /\ status[r] = 503 => since[r] # {"good"}
        /\ status[r] = 200 => "good" \in since[r]

\* The process ends with success only if it has cut off no request to its main
\* server, and only after a signal.
CleanExit ==
    exit = "ok" =>
        signalled /\ \A r \in Requests : rq[r] = "cut" => ServerOf(kind[r]) # "mcp"

\* A request that is open belongs to a process that runs; what it pings and what it
\* has seen of the default are what its kind says; only /readyz sets a status.
RequestGrounded(r) ==
    /\ rq[r] # "new" => stage # "preparing"
    /\ rq[r] = "open" => stage # "exited"
    /\ rq[r] = "cut" => stage = "exited"
    /\ status[r] # 0 => rq[r] = "answered" /\ kind[r] = "readyz"
    /\ target[r] # 0 => rq[r] = "open" /\ kind[r] \in {"readyz", "list"}
    /\ rq[r] = "open" /\ kind[r] = "readyz" =>
          target[r] = Default /\ seen[r] = since[r]

\* A pinger has seen the present state of its datasource; the probe is at a
\* datasource exactly while it sweeps.
PingsGrounded ==
    /\ \A p \in Pingers : IF target[p] = 0 THEN seen[p] = {} ELSE health[target[p]] \in seen[p]
    /\ probe = "sweep" <=> target["probe"] # 0

\* No port is open before the start, after the end or, of a server, once its shutdown
\* has begun; httpSrv.Shutdown begins only when nothing hangs on the metrics server or
\* the time is up.
StageGrounded ==
    /\ exit = "none" <=> stage # "exited"
    /\ stage \in {"preparing", "exited"} => \A s \in Servers : listen[s] = "off"
    /\ stage = "preparing" => ~ signalled
    /\ stage \in {"closing_metrics", "closing"} => signalled /\ listen["metrics"] # "open"
    /\ stage = "closing" => listen["mcp"] # "open" /\ (timeUp \/ Idle("metrics"))

\* The inductive invariant.
LifeInv ==
    /\ TypeOK
    /\ PingsGrounded
    /\ StageGrounded
    /\ \A r \in Requests : RequestGrounded(r)
    /\ ReadinessGrounded
    /\ CleanExit

\* A request is cut off only when the ten seconds of the shutdown are over, which a
\* hanging scrape can use up alone, or when the main listener has failed.
CutOnlyLate ==
    [][\A r \in Requests :
          rq[r] = "open" /\ rq'[r] = "cut" => timeUp \/ listen["mcp"] = "failed"]_vars

\* Whatever hangs - a ping, a scrape, a stream, a tool call - a process that has been
\* told to stop stops.
SignalledExits == signalled ~> stage = "exited"

\* main.go:157, the gauge "reflects health independently of tool traffic": it
\* follows a datasource that stays as it is, though others are silent.
GaugeFollows ==
    MetricsOn =>
        \A d \in Names :
            /\ <>[](stage = "serving" /\ health[d] = "good") => <>[](gauge[d] = "up")
            /\ <>[](stage = "serving" /\ health[d] # "good") => <>[](gauge[d] = "down")

\* /readyz is answered whatever its datasource does, and datasources_list gets past
\* each datasource that has a timeout; unless the client leaves or the process ends.
PingsEnd ==
    \A r \in Requests, d \in Names :
        target[r] = d /\ (kind[r] = "readyz" \/ d \in Bounded) ~> target[r] # d

\* What of main.run is seen from outside.
Phase ==
    CASE stage = "preparing" -> "starting"
      [] stage = "exited"    -> "over"
      [] OTHER               -> "running"

\* The process implements the service of module ProcessService.
Service == INSTANCE ProcessService WITH
    phase   <- Phase,
    told    <- signalled,
    late    <- timeUp,
    broken  <- listen["mcp"] = "failed",
    default <- health[Default]

\* However probe, pings, listeners and the two shutdowns interleave, who runs and who
\* calls the process sees requests answered, cut off late or never, and true exits.
ImplementsProcess == Service!Spec
=============================================================================
