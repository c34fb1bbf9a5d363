-------------------------- MODULE LifecycleProofs --------------------------
(***************************************************************************)
(* Theorems about the process, for any number of datasources and requests, *)
(* any timeouts, with and without metrics.                                 *)
(***************************************************************************)
EXTENDS Lifecycle, TLAPS

USE LifecycleAssumption DEF Names, Pingers, Servers, Health, Kinds

LEMMA InitHolds == Init => LifeInv
  <1> SUFFICES ASSUME Init PROVE LifeInv
    OBVIOUS
  <1>1. TypeOK
    <2>1. /\ target \in [Pingers -> 0 .. N] /\ seen \in [Pingers -> SUBSET Health]
          /\ health \in [Names -> Health]
      BY DEF Init
    <2>2. /\ kind \in [Requests -> Kinds] /\ status \in [Requests -> {0, 200, 503}]
          /\ rq \in [Requests -> {"new", "open", "answered", "gone", "cut"}]
          /\ since \in [Requests -> SUBSET Health]
      BY DEF Init
    <2> QED BY <2>1, <2>2, ZenonT(60) DEF Init, TypeOK
  <1>2. PingsGrounded /\ StageGrounded
    BY DEF Init, PingsGrounded, StageGrounded
  <1>3. ASSUME NEW r \in Requests PROVE RequestGrounded(r)
    BY <1>3 DEF Init, RequestGrounded
  <1>4. ReadinessGrounded /\ CleanExit
    BY DEF Init, ReadinessGrounded, CleanExit
  <1> QED BY <1>1, <1>2, <1>3, <1>4 DEF LifeInv

\* What a pinger that turns to a datasource, or to none, leaves and changes.
LEMMA PingTyped ==
    ASSUME TypeOK, NEW p \in Pingers, NEW d \in 0 .. N, PingNext(p, d)
    PROVE  /\ target' \in [Pingers -> 0 .. N] /\ seen' \in [Pingers -> SUBSET Health]
           /\ target'[p] = d /\ seen'[p] = IF d = 0 THEN {} ELSE {health[d]}
           /\ \A q \in Pingers \ {p} : target'[q] = target[q] /\ seen'[q] = seen[q]
  <1>1. (IF d = 0 THEN {} ELSE {health[d]}) \in SUBSET Health
    <2>1. d = 0 \/ health[d] \in Health
      BY DEF TypeOK
    <2> QED BY <2>1
  <1> QED BY <1>1 DEF TypeOK, PingNext

LEMMA ProbePings ==
    ASSUME LifeInv, NEW d \in 0 .. N, PingNext("probe", d), UNCHANGED health,
           probe' = "sweep" <=> d # 0
    PROVE  /\ target' \in [Pingers -> 0 .. N] /\ seen' \in [Pingers -> SUBSET Health]
           /\ \A r \in Requests : target'[r] = target[r] /\ seen'[r] = seen[r]
           /\ PingsGrounded'
  <1>1. TypeOK /\ "probe" \in Pingers
    BY DEF LifeInv
  <1>2. /\ target' \in [Pingers -> 0 .. N] /\ seen' \in [Pingers -> SUBSET Health]
        /\ target'["probe"] = d /\ seen'["probe"] = IF d = 0 THEN {} ELSE {health[d]}
        /\ \A q \in Pingers \ {"probe"} : target'[q] = target[q] /\ seen'[q] = seen[q]
    BY <1>1, PingTyped
  <1>3. \A r \in Requests : r \in Pingers \ {"probe"}
    OBVIOUS
  <1>4. PingsGrounded'
    BY <1>2 DEF LifeInv, PingsGrounded
  <1> QED BY <1>2, <1>3, <1>4

LEMMA RequestPings ==
    ASSUME LifeInv, NEW r \in Requests, NEW d \in 0 .. N, PingNext(r, d)
    PROVE  /\ target' \in [Pingers -> 0 .. N] /\ seen' \in [Pingers -> SUBSET Health]
           /\ target'[r] = d /\ seen'[r] = IF d = 0 THEN {} ELSE {health[d]}
           /\ \A q \in Pingers \ {r} : target'[q] = target[q] /\ seen'[q] = seen[q]
           /\ \A q \in Requests \ {r} : target'[q] = target[q] /\ seen'[q] = seen[q]
  <1>1. TypeOK /\ r \in Pingers
    BY DEF LifeInv
  <1>2. \A q \in Requests \ {r} : q \in Pingers \ {r}
    OBVIOUS
  <1> QED BY <1>1, <1>2, PingTyped

\* However the process ends, nothing of it is left.
LEMMA ExitKeeps ==
    ASSUME LifeInv, NEW how \in {"ok", "error", "killed"}, Exit(how),
           how = "ok" => stage = "closing" /\ Idle("mcp")
    PROVE  LifeInv'
  <1>1. TypeOK'
    BY DEF LifeInv, TypeOK, Exit
  <1>2. PingsGrounded'
    BY DEF LifeInv, TypeOK, PingsGrounded, Exit
  <1>3. StageGrounded'
    BY DEF LifeInv, TypeOK, StageGrounded, Exit
  <1>4. ASSUME NEW r \in Requests PROVE RequestGrounded(r)'
    BY <1>4 DEF LifeInv, TypeOK, RequestGrounded, Exit
  <1>5. ReadinessGrounded'
    BY DEF LifeInv, ReadinessGrounded, Exit
  <1>6. CleanExit'
    BY DEF LifeInv, TypeOK, StageGrounded, RequestGrounded, CleanExit, Idle, Exit
  <1> QED BY <1>1, <1>2, <1>3, <1>4, <1>5, <1>6 DEF LifeInv

\* The start, the signal and the shutdown.
LEMMA MainKeeps == LifeInv /\ (Prepare \/ Signal \/ MainStep) => LifeInv'
  <1> SUFFICES ASSUME LifeInv, Prepare \/ Signal \/ MainStep PROVE LifeInv'
    OBVIOUS
  <1>1. CASE \E how \in {"error", "killed"} : Exit(how)
    BY <1>1, ExitKeeps
  <1>2. CASE Closed
    BY <1>2, ExitKeeps DEF Closed, Outcomes
  <1>3. CASE Prepare /\ ~ \E how \in {"error", "killed"} : Exit(how)
    <2>1. /\ stage = "preparing" /\ stage' = "serving"
          /\ listen' = [s \in Servers |-> IF s = "metrics" /\ ~ MetricsOn THEN "off" ELSE "open"]
          /\ UNCHANGED <<health, exit, signalled, timeUp, gauge, kind, rq, status, since>>
          /\ \/ probe' = "sweep" /\ PingNext("probe", 1)
             \/ UNCHANGED <<probe, target, seen>>
          /\ 1 \in Names
      BY <1>3 DEF Prepare, requestVars, pingVars
    <2>2. /\ target' \in [Pingers -> 0 .. N] /\ seen' \in [Pingers -> SUBSET Health]
          /\ \A r \in Requests : target'[r] = target[r] /\ seen'[r] = seen[r]
      <3>1. CASE PingNext("probe", 1) /\ probe' = "sweep"
        <4>1. 1 \in 0 .. N /\ (probe' = "sweep" <=> 1 # 0) /\ UNCHANGED health
          BY <2>1, <3>1
        <4> QED BY <3>1, <4>1, ProbePings
      <3>2. CASE UNCHANGED <<probe, target, seen>>
        BY <3>2 DEF LifeInv, TypeOK
      <3> QED BY <2>1, <3>1, <3>2
    <2>3. TypeOK'
      BY <2>1, <2>2 DEF LifeInv, TypeOK
    <2>4. PingsGrounded'
      <3>1. CASE PingNext("probe", 1) /\ probe' = "sweep"
        <4>1. 1 \in 0 .. N /\ (probe' = "sweep" <=> 1 # 0) /\ UNCHANGED health
          BY <2>1, <3>1
        <4> QED BY <3>1, <4>1, ProbePings
      <3>2. CASE UNCHANGED <<probe, target, seen>>
        BY <2>1, <3>2 DEF LifeInv, PingsGrounded
      <3> QED BY <2>1, <3>1, <3>2
    <2>5. StageGrounded'
      BY <2>1 DEF LifeInv, StageGrounded
    <2>6. ASSUME NEW r \in Requests PROVE RequestGrounded(r)'
      BY <2>1, <2>2, <2>6 DEF LifeInv, RequestGrounded
    <2>7. ReadinessGrounded' /\ CleanExit'
      BY <2>1 DEF LifeInv, StageGrounded, ReadinessGrounded, CleanExit
    <2> QED BY <2>3, <2>4, <2>5, <2>6, <2>7 DEF LifeInv
  <1>4. CASE (Signal \/ Select \/ TimePasses \/ MetricsClosed)
             /\ ~ \E how \in {"error", "killed"} : Exit(how)
    <2>1. /\ UNCHANGED <<health, exit, probe, gauge, requestVars, pingVars, since>>
          /\ \/ stage' = stage /\ stage \notin {"preparing", "exited"}
             \/ stage = "serving" /\ stage' = "closing_metrics"
             \/ stage = "closing_metrics" /\ stage' = "closing"
      BY <1>4 DEF Signal, Select, TimePasses, Deadline, MetricsClosed
    <2>2. TypeOK'
      <3>1. /\ signalled' \in BOOLEAN /\ timeUp' \in BOOLEAN
            /\ listen' \in [Servers -> {"off", "open", "failed"}]
        <4>1. ASSUME NEW s \in Servers, Close(s)
              PROVE  listen' \in [Servers -> {"off", "open", "failed"}]
          BY <4>1 DEF LifeInv, TypeOK, Close
        <4>2. signalled \in BOOLEAN /\ timeUp \in BOOLEAN
              /\ listen \in [Servers -> {"off", "open", "failed"}]
          BY DEF LifeInv, TypeOK
        <4>3. CASE Signal \/ TimePasses
          BY <1>4, <4>2, <4>3 DEF Signal, TimePasses
        <4>4. CASE Select \/ MetricsClosed
          BY <1>4, <4>1, <4>2, <4>4 DEF Select, MetricsClosed
        <4> QED BY <1>4, <4>3, <4>4
      <3> QED BY <2>1, <3>1 DEF LifeInv, TypeOK, requestVars, pingVars
    <2>3. PingsGrounded' /\ ReadinessGrounded'
      BY <2>1 DEF LifeInv, PingsGrounded, ReadinessGrounded, requestVars, pingVars
    <2>4. StageGrounded' /\ CleanExit'
      BY <1>4, <2>1 DEF LifeInv, TypeOK, StageGrounded, CleanExit, Signal, Select, TimePasses,
                        MetricsClosed, Close, Idle, requestVars
    <2>5. ASSUME NEW r \in Requests PROVE RequestGrounded(r)'
      BY <2>1, <2>5 DEF LifeInv, RequestGrounded, requestVars, pingVars
    <2> QED BY <2>2, <2>3, <2>4, <2>5 DEF LifeInv
  <1> QED BY <1>1, <1>2, <1>3, <1>4 DEF MainStep, Signal, Select

\* Listeners and datasources, which change what a request may see.
LEMMA OutsideKeeps ==
    ASSUME LifeInv,
           \/ \E s \in Servers : ListenerFails(s)
           \/ \E d \in Names, h \in Health : Turns(d, h)
    PROVE  LifeInv'
  <1>1. ASSUME NEW s \in Servers, ListenerFails(s) PROVE LifeInv'
    <2>1. TypeOK'
      BY <1>1 DEF LifeInv, TypeOK, ListenerFails, mainVars, requestVars, pingVars
    <2>2. PingsGrounded' /\ ReadinessGrounded' /\ CleanExit'
      BY <1>1 DEF LifeInv, PingsGrounded, ReadinessGrounded, CleanExit, ListenerFails, mainVars,
                  requestVars, pingVars
    <2>3. StageGrounded'
      BY <1>1 DEF LifeInv, TypeOK, StageGrounded, Idle, ListenerFails, mainVars, requestVars
    <2>4. ASSUME NEW r \in Requests PROVE RequestGrounded(r)'
      BY <1>1, <2>4 DEF LifeInv, RequestGrounded, ListenerFails, mainVars, requestVars, pingVars
    <2> QED BY <2>1, <2>2, <2>3, <2>4 DEF LifeInv
  <1>2. ASSUME NEW d \in Names, NEW h \in Health, Turns(d, h) PROVE LifeInv'
    <2>1. TypeOK'
      BY <1>2 DEF LifeInv, TypeOK, Turns, mainVars, requestVars
    <2>2. PingsGrounded'
      BY <1>2 DEF LifeInv, TypeOK, PingsGrounded, Turns, mainVars, requestVars
    <2>3. StageGrounded' /\ CleanExit'
      BY <1>2 DEF LifeInv, StageGrounded, CleanExit, Idle, Turns, mainVars, requestVars
    <2>4. ASSUME NEW r \in Requests PROVE RequestGrounded(r)'
      <3>1. /\ UNCHANGED <<stage, kind, rq, status, target>>
            /\ since'[r] = IF rq[r] = "open" /\ d = Default THEN since[r] \cup {h} ELSE since[r]
            /\ seen'[r] = IF target[r] = d THEN seen[r] \cup {h} ELSE seen[r]
        BY <1>2, <2>4 DEF LifeInv, TypeOK, Turns, mainVars, requestVars
      <3>2. ASSUME rq[r] = "open", kind[r] = "readyz" PROVE seen'[r] = since'[r]
        BY <3>1, <3>2, <2>4 DEF LifeInv, RequestGrounded
      <3> QED BY <3>1, <3>2, <2>4 DEF LifeInv, RequestGrounded
    <2>5. ReadinessGrounded'
      <3>1. ASSUME NEW r \in Requests, status[r] # 0 PROVE since'[r] = since[r]
        BY <1>2, <3>1 DEF LifeInv, TypeOK, RequestGrounded, Turns
      <3>2. ReadinessGrounded /\ status' = status
        BY <1>2 DEF LifeInv, Turns, requestVars
      <3> QED BY <3>1, <3>2 DEF ReadinessGrounded
    <2> QED BY <2>1, <2>2, <2>3, <2>4, <2>5 DEF LifeInv
  <1> QED BY <1>1, <1>2

\* The probe turns to the next datasource, sleeps, wakes or ends.
LEMMA ProbeKeeps == LifeInv /\ (ProbeStep \/ ProbeWakes) => LifeInv'
  <1> SUFFICES ASSUME LifeInv, ProbeStep \/ ProbeWakes PROVE LifeInv'
    OBVIOUS
  <1>1. /\ UNCHANGED <<health, stage, exit, signalled, timeUp, listen, kind, rq, status, since>>
        /\ (\E d \in 0 .. N : PingNext("probe", d)) \/ UNCHANGED <<target, seen>>
    <2>1. 1 \in 0 .. N /\ After(target["probe"]) \in 0 .. N
      BY DEF LifeInv, TypeOK, After
    <2> QED BY <2>1 DEF ProbeStep, ProbeWakes, mainVars, requestVars, pingVars
  <1>2. /\ \A r \in Requests : target'[r] = target[r] /\ seen'[r] = seen[r]
        /\ target' \in [Pingers -> 0 .. N] /\ seen' \in [Pingers -> SUBSET Health]
        /\ PingsGrounded' /\ probe' \in {"off", "sweep", "wait"}
    <2>1. CASE ProbeStep
      <3>1. /\ PingNext("probe", After(target["probe"])) /\ After(target["probe"]) \in 0 .. N
            /\ probe' = IF After(target["probe"]) = 0 THEN "wait" ELSE "sweep"
        BY <2>1 DEF LifeInv, TypeOK, ProbeStep, After
      <3> QED BY <1>1, <3>1, ProbePings
    <2>2. CASE probe' = "sweep" /\ PingNext("probe", 1)
      <3>1. 1 \in 0 .. N /\ (probe' = "sweep" <=> 1 # 0) /\ UNCHANGED health
        BY <1>1, <2>2
      <3> QED BY <2>2, <3>1, ProbePings
    <2>3. CASE probe = "wait" /\ probe' = "off" /\ UNCHANGED <<target, seen>>
      BY <1>1, <2>3 DEF LifeInv, TypeOK, PingsGrounded
    <2> QED BY <2>1, <2>2, <2>3 DEF ProbeWakes, pingVars
  <1>3. TypeOK'
    <2>1. target["probe"] \in Names \/ probe # "sweep"
      BY DEF LifeInv, TypeOK, PingsGrounded
    <2>2. gauge' \in [Names -> {"unset", "up", "down"}]
      <3>1. gauge \in [Names -> {"unset", "up", "down"}]
        BY DEF LifeInv, TypeOK
      <3>2. CASE ProbeStep
        <4>1. PICK ok \in BOOLEAN :
                gauge' = [gauge EXCEPT ![target["probe"]] = IF ok THEN "up" ELSE "down"]
          BY <3>2 DEF ProbeStep
        <4> QED BY <3>1, <4>1
      <3> QED BY <3>1, <3>2 DEF ProbeWakes
    <2> QED BY <1>2, <1>1, <2>2 DEF LifeInv, TypeOK
  <1>4. StageGrounded' /\ ReadinessGrounded' /\ CleanExit'
    BY <1>1 DEF LifeInv, StageGrounded, Idle, ReadinessGrounded, CleanExit
  <1>5. ASSUME NEW r \in Requests PROVE RequestGrounded(r)'
    BY <1>2, <1>1, <1>5 DEF LifeInv, RequestGrounded
  <1> QED BY <1>2, <1>3, <1>4, <1>5 DEF LifeInv

\* A request comes in or goes on.
LEMMA RequestKeeps == ASSUME LifeInv, NEW r \in Requests, RequestStep(r) PROVE LifeInv'
  <1>1. PICK d \in 0 .. N :
          /\ PingNext(r, d)
          /\ UNCHANGED <<health, stage, exit, signalled, timeUp, listen, probe, gauge>>
          /\ \E how \in {"open", "answered", "gone"} :
               rq' = [rq EXCEPT ![r] = how] /\ (how # "open" => d = 0)
          /\ \/ rq[r] = "new" /\ rq'[r] = "open" /\ listen[ServerOf(kind'[r])] = "open"
             \/ rq[r] = "open" /\ kind' = kind
    <2>1. ASSUME NEW k \in Kinds, Arrive(r, k)
          PROVE  /\ FirstTarget(k) \in 0 .. N /\ kind'[r] = k
                 /\ rq' = [rq EXCEPT ![r] = "open"] /\ rq'[r] = "open"
      BY <2>1 DEF LifeInv, TypeOK, Arrive, FirstTarget
    <2>2. CASE \E k \in Kinds : Arrive(r, k)
      BY <2>2, <2>1 DEF Arrive, mainVars
    <2>3. After(target[r]) \in 0 .. N /\ 0 \in 0 .. N
      BY DEF LifeInv, TypeOK, After
    <2>4. CASE List(r)
      BY <2>4, <2>3 DEF List, mainVars
    <2>5. CASE Ready(r) \/ Ends(r)
      BY <2>5, <2>3 DEF Ready, Ends, mainVars
    <2> QED BY <2>2, <2>4, <2>5 DEF RequestStep
  <1>2. /\ kind' \in [Requests -> Kinds] /\ status' \in [Requests -> {0, 200, 503}]
        /\ since' \in [Requests -> SUBSET Health]
        /\ \A q \in Requests \ {r} :
             kind'[q] = kind[q] /\ status'[q] = status[q] /\ since'[q] = since[q]
    <2>1. CASE \E k \in Kinds : Arrive(r, k)
      BY <2>1 DEF LifeInv, TypeOK, Arrive
    <2>2. CASE Ready(r)
      BY <2>2 DEF LifeInv, TypeOK, Ready
    <2>3. CASE List(r) \/ Ends(r)
      BY <2>3 DEF LifeInv, TypeOK, List, Ends
    <2> QED BY <2>1, <2>2, <2>3 DEF RequestStep
  <1>3. /\ target' \in [Pingers -> 0 .. N] /\ seen' \in [Pingers -> SUBSET Health]
        /\ \A p \in Pingers \ {r} : target'[p] = target[p] /\ seen'[p] = seen[p]
        /\ target'[r] = d /\ seen'[r] = IF d = 0 THEN {} ELSE {health[d]}
        /\ \A q \in Requests \ {r} :
              target'[q] = target[q] /\ seen'[q] = seen[q] /\ rq'[q] = rq[q]
        /\ rq' \in [Requests -> {"new", "open", "answered", "gone", "cut"}]
    <2>1. \A q \in Requests \ {r} : rq'[q] = rq[q]
      BY <1>1 DEF LifeInv, TypeOK
    <2>2. rq' \in [Requests -> {"new", "open", "answered", "gone", "cut"}]
      BY <1>1 DEF LifeInv, TypeOK
    <2>3. PingNext(r, d)
      BY <1>1
    <2>4. /\ target' \in [Pingers -> 0 .. N] /\ seen' \in [Pingers -> SUBSET Health]
          /\ target'[r] = d /\ seen'[r] = IF d = 0 THEN {} ELSE {health[d]}
          /\ \A q \in Pingers \ {r} : target'[q] = target[q] /\ seen'[q] = seen[q]
          /\ \A q \in Requests \ {r} : target'[q] = target[q] /\ seen'[q] = seen[q]
      BY <2>3, RequestPings
    <2> QED BY <2>1, <2>2, <2>4
  <1>4. TypeOK'
    BY <1>1, <1>2, <1>3 DEF LifeInv, TypeOK
  <1>5. PingsGrounded'
    BY <1>1, <1>3 DEF LifeInv, TypeOK, PingsGrounded
  <1>6. StageGrounded'
    BY <1>1, <1>2, <1>3 DEF LifeInv, TypeOK, StageGrounded, Idle, ServerOf
  <1>7. RequestGrounded(r)' /\ (status'[r] = 503 => since'[r] # {"good"})
        /\ (status'[r] = 200 => "good" \in since'[r])
    <2>1. RequestGrounded(r) /\ stage \in {"serving", "closing_metrics", "closing"}
      BY <1>1 DEF LifeInv, TypeOK, StageGrounded, RequestGrounded, ServerOf
    <2>2. ASSUME NEW k \in Kinds, Arrive(r, k) PROVE RequestGrounded(r)' /\ status'[r] = 0
      <3>1. /\ kind'[r] = k /\ status'[r] = 0 /\ rq'[r] = "open" /\ UNCHANGED <<stage, health>>
            /\ since'[r] = {health[Default]}
            /\ PingNext(r, FirstTarget(k)) /\ FirstTarget(k) \in 0 .. N
        BY <2>1, <2>2 DEF LifeInv, TypeOK, RequestGrounded, Arrive, FirstTarget, mainVars
      <3>2. target'[r] = FirstTarget(k)
            /\ seen'[r] = IF FirstTarget(k) = 0 THEN {} ELSE {health[FirstTarget(k)]}
        <4> DEFINE first == FirstTarget(k)
        <4> HIDE DEF first
        <4>1. first \in 0 .. N /\ PingNext(r, first)
          BY <3>1 DEF first
        <4>2. target'[r] = first /\ seen'[r] = IF first = 0 THEN {} ELSE {health[first]}
          BY <4>1, RequestPings, Zenon
        <4> QED BY <4>2 DEF first
      <3>3. k = "readyz" => FirstTarget(k) = Default /\ Default # 0
        BY DEF FirstTarget
      <3>4. k \notin {"readyz", "list"} => FirstTarget(k) = 0
        BY DEF FirstTarget
      <3> QED BY <2>1, <3>1, <3>2, <3>3, <3>4, ZenonT(60) DEF RequestGrounded
    <2>3. CASE Ready(r)
      BY <2>1, <2>3 DEF LifeInv, TypeOK, RequestGrounded, Ready, PingReturns, PingNext, mainVars
    <2>4. CASE List(r)
      BY <1>3, <2>1, <2>4 DEF LifeInv, TypeOK, RequestGrounded, List, PingNext, mainVars
    <2>5. CASE Ends(r)
      BY <1>3, <2>1, <2>5 DEF LifeInv, TypeOK, RequestGrounded, Ends, PingNext, mainVars
    <2> QED BY <2>2, <2>3, <2>4, <2>5 DEF RequestStep
  <1>8. ASSUME NEW q \in Requests \ {r} PROVE RequestGrounded(q)'
    <2>1. RequestGrounded(q) /\ UNCHANGED <<target[q], seen[q], rq[q], kind[q], status[q], since[q],
                                             stage>>
      BY <1>1, <1>2, <1>3, <1>8 DEF LifeInv
    <2> QED BY <2>1 DEF RequestGrounded
  <1>9. ReadinessGrounded' /\ CleanExit'
    BY <1>1, <1>2, <1>3, <1>7 DEF LifeInv, ReadinessGrounded, CleanExit, StageGrounded, RequestGrounded
  <1> QED BY <1>4, <1>5, <1>6, <1>7, <1>8, <1>9 DEF LifeInv

LEMMA NextKeeps == LifeInv /\ [Next]_vars => LifeInv'
  <1> SUFFICES ASSUME LifeInv, [Next]_vars PROVE LifeInv'
    OBVIOUS
  <1>1. CASE UNCHANGED vars
    BY <1>1 DEF vars, mainVars, requestVars, pingVars, LifeInv, TypeOK, PingsGrounded,
                StageGrounded, Idle, RequestGrounded, ReadinessGrounded, CleanExit
  <1>2. CASE Next
    BY <1>1, <1>2, MainKeeps, OutsideKeeps, ProbeKeeps, RequestKeeps DEF Next, Finished
  <1> QED BY <1>1, <1>2

\* The invariant of main.run, its probe and its requests.
THEOREM Invariance == Spec => []LifeInv
  BY InitHolds, NextKeeps, PTL DEF Spec

\* Every variable of the process keeps its type.
THEOREM TypeCorrect == Spec => []TypeOK
  BY Invariance, PTL DEF LifeInv

\* /readyz answers 503 only if its default datasource was not good all the while, and
\* 200 only if it was good at some moment meanwhile.
THEOREM ReadinessIsGrounded == Spec => []ReadinessGrounded
  BY Invariance, PTL DEF LifeInv

\* An exit with success follows a signal and cuts off no request to /mcp or the health
\* endpoints.
THEOREM SuccessIsClean == Spec => []CleanExit
  BY Invariance, PTL DEF LifeInv

\* A request is cut off only after the ten seconds or a failure of the main listener.
THEOREM CutsAreLate == Spec => CutOnlyLate
  <1> DEFINE Late == \A r \in Requests :
                        rq[r] = "open" /\ rq'[r] = "cut" => timeUp \/ listen["mcp"] = "failed"
  <1>1. LifeInv /\ Next => Late
    <2> SUFFICES ASSUME LifeInv, Next, NEW r \in Requests, rq[r] = "open", rq'[r] = "cut"
                 PROVE  timeUp \/ listen["mcp"] = "failed"
      OBVIOUS
    <2>1. stage # "preparing"
      BY DEF LifeInv, RequestGrounded
    <2>2. ASSUME NEW q \in Requests, RequestStep(q) PROVE FALSE
      <3>1. \E how \in {"open", "answered", "gone"} : rq' = [rq EXCEPT ![q] = how]
        BY <2>2 DEF RequestStep, Arrive, Ready, List, Ends
      <3> QED BY <3>1 DEF LifeInv, TypeOK
    <2>3. CASE Select \/ Signal
      BY <2>1, <2>3 DEF Select, Signal, requestVars
    <2>4. CASE Closed
      <3>1. CASE Idle("mcp") /\ Idle("metrics")
        BY <3>1 DEF LifeInv, TypeOK, Idle, ServerOf
      <3> QED BY <2>4, <3>1 DEF Closed, Outcomes, LifeInv, StageGrounded
    <2> QED
      BY <2>1, <2>2, <2>3, <2>4 DEF Next, MainStep, Prepare, ListenerFails, ProbeStep, ProbeWakes,
         TimePasses, MetricsClosed, Turns, Finished, requestVars, vars
  <1>2. LifeInv /\ [Next]_vars => [Late]_vars
    BY <1>1
  <1> QED BY <1>2, Invariance, PTL DEF Spec, CutOnlyLate

-----------------------------------------------------------------------------

(************************ the service of the process ***********************)

LEMMA ServiceInit == Init => Service!Init
  BY DEF Init, Service!Init, Phase

\* The phases of the process as seen from outside.
LEMMA Phases ==
    TypeOK => /\ Phase = "starting" <=> stage = "preparing"
              /\ Phase = "over" <=> stage = "exited"
              /\ Phase = "running" <=> stage \in {"serving", "closing_metrics", "closing"}
  BY DEF TypeOK, Phase

\* What nobody outside sees: steps that leave requests, signal, clock and default alone.
LEMMA Unseen ==
    ASSUME UNCHANGED <<Phase, exit, signalled, timeUp, listen["mcp"] = "failed", health[Default],
                       kind, rq, status, since>>
    PROVE  UNCHANGED Service!vars
  BY DEF Service!vars, Service!mainVars

LEMMA EndMaps ==
    ASSUME LifeInv, NEW how, Exit(how), stage # "exited",
           (\E r \in Requests : rq[r] = "open") => timeUp \/ listen["mcp"] = "failed"
    PROVE  Service!End(how)
  <1>1. Phase # "over" /\ Phase' = "over"
    BY DEF LifeInv, TypeOK, Phase, Exit
  <1>2. (listen["mcp"] = "failed")' = FALSE
    BY DEF Exit
  <1>3. /\ exit' = how /\ UNCHANGED <<signalled, timeUp, health[Default], kind, status, since>>
        /\ rq' = [r \in Requests |-> IF rq[r] = "open" THEN "cut" ELSE rq[r]]
    BY DEF Exit
  <1> QED BY <1>1, <1>2, <1>3 DEF Service!End

\* What main.run does is a start, an end, a turn of the signal or of the clock, or unseen.
LEMMA MainMaps ==
    ASSUME LifeInv, Prepare \/ Signal \/ MainStep
    PROVE  Service!Next \/ UNCHANGED Service!vars
  <1>1. TypeOK
    BY DEF LifeInv
  <1>2. CASE stage = "preparing" /\ \E how \in {"error", "killed"} : Exit(how)
    <2>1. \A r \in Requests : rq[r] # "open"
      BY <1>2 DEF LifeInv, RequestGrounded
    <2>2. PICK how \in {"error", "killed"} : Exit(how)
      BY <1>2
    <2>3. Service!End(how)
      BY <1>2, <2>1, <2>2, EndMaps
    <2>4. Phase = "starting"
      BY <1>2 DEF Phase
    <2> QED BY <2>2, <2>3, <2>4 DEF Service!Next, Service!Stops
  <1>3. CASE Prepare /\ stage' = "serving"
    <2>1. Phase = "starting" /\ Phase' = "running"
      BY <1>3 DEF Prepare, Phase
    <2>2. (listen["mcp"] = "failed") = FALSE /\ (listen["mcp"] = "failed")' = FALSE
      BY <1>3 DEF Prepare, LifeInv, StageGrounded, Exit
    <2>3. UNCHANGED <<exit, signalled, timeUp, health[Default], kind, rq, status, since>>
      BY <1>3 DEF Prepare, Exit, requestVars
    <2>4. Service!Starts
      BY <2>1, <2>2, <2>3 DEF Service!Starts
    <2> QED BY <2>4 DEF Service!Next
  <1>4. CASE Select /\ Exit("error")
    <2>1. stage = "serving" /\ Phase = "running" /\ listen["mcp"] = "failed"
      BY <1>4 DEF Select, Phase, Exit
    <2>2. Service!End("error")
      BY <1>4, <2>1, EndMaps
    <2> QED BY <2>1, <2>2 DEF Service!Next, Service!Stops
  <1>5. CASE Closed
    <2>1. PICK how \in Outcomes(Idle("mcp")) : Exit(how)
      BY <1>5 DEF Closed
    <2>2. stage = "closing" /\ Phase = "running" /\ signalled
      BY <1>5 DEF Closed, Phase, LifeInv, StageGrounded
    <2>3. timeUp \/ Idle("metrics")
      BY <2>2 DEF LifeInv, StageGrounded
    <2>4. CASE how = "error" /\ timeUp
      <3>1. Service!End("error")
        BY <2>1, <2>2, <2>4, EndMaps
      <3> QED BY <2>2, <2>4, <3>1 DEF Service!Next, Service!Stops
    <2>5. CASE how = "ok" /\ Idle("mcp")
      <3>1. \A r \in Requests : rq[r] = "open" => kind[r] = "scrape"
        BY <1>1, <2>5 DEF TypeOK, Idle, ServerOf
      <3>2. (\E r \in Requests : rq[r] = "open") => timeUp
        BY <2>3, <3>1 DEF Idle, ServerOf
      <3>3. Service!End("ok")
        BY <2>1, <2>2, <2>5, <3>2, EndMaps
      <3> QED BY <2>2, <3>1, <3>3 DEF Service!Next, Service!Stops
    <2> QED BY <2>1, <2>4, <2>5 DEF Outcomes
  <1>6. CASE Signal /\ signalled' = TRUE /\ stage' = stage
    <2>1. /\ Phase = "running"
          /\ UNCHANGED <<Phase, exit, timeUp, listen["mcp"] = "failed", health[Default],
                         kind, rq, status, since>>
      BY <1>1, <1>6 DEF Signal, Phase, TypeOK, Exit, requestVars
    <2>2. Service!Turn
      BY <1>6, <2>1 DEF Service!Turn
    <2> QED BY <2>2 DEF Service!Next
  <1>7. CASE TimePasses
    <2>1. /\ Phase = "running" /\ signalled
          /\ UNCHANGED <<Phase, exit, signalled, listen["mcp"] = "failed", health[Default],
                         kind, rq, status, since>>
      BY <1>7 DEF TimePasses, Deadline, Phase, LifeInv, StageGrounded, requestVars
    <2>2. Service!Turn
      BY <1>7, <2>1 DEF Service!Turn, TimePasses
    <2> QED BY <2>2 DEF Service!Next
  <1>8. CASE (Select /\ signalled /\ stage' = "closing_metrics") \/ MetricsClosed
    <2>1. UNCHANGED <<exit, signalled, timeUp, health[Default], kind, rq, status, since>>
      BY <1>8 DEF Select, MetricsClosed, Exit, requestVars
    <2>2. UNCHANGED <<Phase, listen["mcp"] = "failed">>
      BY <1>1, <1>8 DEF Select, MetricsClosed, Exit, Phase, Close, TypeOK
    <2> QED BY <2>1, <2>2, Unseen
  <1> QED
    BY <1>2, <1>3, <1>4, <1>5, <1>6, <1>7, <1>8 DEF Prepare, Signal, MainStep, Select

\* Listeners, probe and datasources: only the main listener and the default are seen.
LEMMA OutsideMaps ==
    ASSUME LifeInv,
           \/ \E s \in Servers : ListenerFails(s)
           \/ \E d \in Names, h \in Health : Turns(d, h)
           \/ ProbeStep \/ ProbeWakes
    PROVE  Service!Next \/ UNCHANGED Service!vars
  <1>1. TypeOK
    BY DEF LifeInv
  <1>2. CASE ListenerFails("mcp")
    <2>1. Phase = "running"
      BY <1>1, <1>2 DEF ListenerFails, LifeInv, StageGrounded, TypeOK, Phase
    <2>2. (listen["mcp"] = "failed")' = TRUE
      BY <1>1, <1>2 DEF ListenerFails, TypeOK
    <2>3. UNCHANGED <<Phase, exit, signalled, timeUp, health[Default], kind, rq, status, since>>
      BY <1>2 DEF ListenerFails, mainVars, requestVars, Phase
    <2>4. Service!Turn
      BY <2>1, <2>2, <2>3 DEF Service!Turn
    <2> QED BY <2>4 DEF Service!Next
  <1>3. CASE ListenerFails("metrics") \/ ProbeStep \/ ProbeWakes
    <2>1. UNCHANGED <<Phase, exit, signalled, timeUp, health[Default], kind, rq, status, since>>
      BY <1>3 DEF ListenerFails, ProbeStep, ProbeWakes, mainVars, requestVars, Phase
    <2>2. UNCHANGED (listen["mcp"] = "failed")
      BY <1>1, <1>3 DEF ListenerFails, ProbeStep, ProbeWakes, TypeOK
    <2> QED BY <2>1, <2>2, Unseen
  <1>4. ASSUME NEW d \in Names, NEW h \in Health, Turns(d, h)
        PROVE  Service!Next \/ UNCHANGED Service!vars
    <2>1. UNCHANGED <<Phase, exit, signalled, timeUp, listen["mcp"] = "failed", kind, rq, status>>
      BY <1>4 DEF Turns, mainVars, requestVars, Phase
    <2>2. CASE d = Default
      <3>1. Phase = "running" /\ health'[Default] = h
        BY <1>1, <1>4, <2>2 DEF Turns, Phase, TypeOK
      <3>2. since' = [r \in Requests |-> IF rq[r] = "open" THEN since[r] \cup {h} ELSE since[r]]
        BY <1>4, <2>2 DEF Turns
      <3>3. Service!Changes(h)
        BY <2>1, <3>1, <3>2 DEF Service!Changes, Service!mainVars
      <3> QED BY <3>3 DEF Service!Next
    <2>3. CASE d # Default
      <3>1. UNCHANGED <<health[Default], since>>
        BY <1>1, <1>4, <2>3 DEF Turns, TypeOK
      <3> QED BY <2>1, <3>1, Unseen
    <2> QED BY <2>2, <2>3
  <1> QED BY <1>2, <1>3, <1>4

\* A request comes, is answered or is left; /readyz by what its ping has seen.
LEMMA RequestMaps ==
    ASSUME LifeInv, NEW r \in Requests, RequestStep(r)
    PROVE  Service!Next \/ UNCHANGED Service!vars
  <1>1. TypeOK /\ RequestGrounded(r)
    BY DEF LifeInv
  <1>2. /\ UNCHANGED <<Phase, exit, signalled, timeUp, listen["mcp"] = "failed", health[Default]>>
        /\ Phase = "running"
    <2>1. UNCHANGED <<stage, exit, signalled, timeUp, listen, health>>
      BY DEF RequestStep, Arrive, Ready, List, Ends, mainVars
    <2>2. rq[r] = "open" \/ \E k \in Kinds : listen[ServerOf(k)] = "open"
      BY DEF RequestStep, Arrive, Ready, List, Ends
    <2>3. Phase = "running"
      BY <1>1, <2>2, Phases DEF LifeInv, TypeOK, StageGrounded, RequestGrounded, ServerOf
    <2> QED BY <2>1, <2>3 DEF Phase
  <1>3. ASSUME NEW k \in Kinds, Arrive(r, k) PROVE Service!Comes(r, k)
    <2>1. listen["mcp"] = "failed" => k = "scrape"
      BY <1>3 DEF Arrive, ServerOf
    <2> QED BY <1>2, <1>3, <2>1 DEF Arrive, Service!Comes, Service!mainVars
  <1>4. CASE Ready(r)
    <2>1. PICK ok \in BOOLEAN :
            PingReturns(r, ok) /\ status' = [status EXCEPT ![r] = IF ok THEN 200 ELSE 503]
      BY <1>4 DEF Ready
    <2>2. seen[r] = since[r] /\ rq[r] = "open" /\ kind[r] = "readyz"
      BY <1>1, <1>4 DEF Ready, RequestGrounded
    <2>3. IF ok THEN "good" \in since[r] ELSE since[r] # {"good"}
      BY <2>1, <2>2 DEF PingReturns
    <2>4. rq' = [rq EXCEPT ![r] = "answered"] /\ UNCHANGED <<kind, since>>
      BY <1>4 DEF Ready
    <2>5. \/ "good" \in since[r] /\ status' = [status EXCEPT ![r] = 200]
          \/ since[r] # {"good"} /\ status' = [status EXCEPT ![r] = 503]
      <3>1. CASE ok
        BY <2>1, <2>3, <3>1
      <3>2. CASE ~ ok
        BY <2>1, <2>3, <3>2
      <3> QED BY <3>1, <3>2
    <2>6. Service!Answered(r)
      BY <1>2, <2>2, <2>4, <2>5 DEF Service!Answered, Service!Open, Service!mainVars
    <2> QED BY <2>6 DEF Service!Next
  <1>5. CASE List(r)
    <2>1. rq[r] = "open" /\ kind[r] = "list" /\ UNCHANGED <<kind, status, since>>
      BY <1>5 DEF List
    <2>2. CASE After(target[r]) = 0
      <3>1. rq' = [rq EXCEPT ![r] = "answered"]
        BY <1>5, <2>2 DEF List
      <3>2. Service!Answered(r)
        BY <1>2, <2>1, <3>1 DEF Service!Answered, Service!Open, Service!mainVars
      <3> QED BY <3>2 DEF Service!Next
    <2>3. CASE After(target[r]) # 0
      <3>1. rq' = rq
        BY <1>1, <1>5, <2>1, <2>3 DEF List, TypeOK
      <3> QED BY <1>2, <2>1, <3>1, Unseen
    <2> QED BY <2>2, <2>3
  <1>6. CASE Ends(r)
    <2>1. rq[r] = "open" /\ UNCHANGED <<kind, status, since>>
      BY <1>6 DEF Ends
    <2>2. CASE kind[r] \in {"other", "scrape"} /\ rq' = [rq EXCEPT ![r] = "answered"]
      <3>1. Service!Answered(r)
        BY <1>2, <2>1, <2>2 DEF Service!Answered, Service!Open, Service!mainVars
      <3> QED BY <3>1 DEF Service!Next
    <2>3. CASE rq' = [rq EXCEPT ![r] = "gone"]
      <3>1. Service!Left(r)
        BY <1>2, <2>1, <2>3 DEF Service!Left, Service!Open, Service!mainVars
      <3> QED BY <3>1 DEF Service!Next
    <2> QED BY <1>6, <2>2, <2>3 DEF Ends
  <1> QED BY <1>3, <1>4, <1>5, <1>6 DEF RequestStep, Service!Next

LEMMA StepMaps == LifeInv /\ [Next]_vars => [Service!Next]_(Service!vars)
  <1> SUFFICES ASSUME LifeInv, [Next]_vars PROVE Service!Next \/ UNCHANGED Service!vars
    OBVIOUS
  <1>1. CASE UNCHANGED vars
    BY <1>1, Unseen DEF vars, mainVars, requestVars, pingVars, Phase
  <1>2. CASE Next
    BY <1>1, <1>2, MainMaps, OutsideMaps, RequestMaps DEF Next, Finished
  <1> QED BY <1>1, <1>2

\* Whatever the probe, the pings, the listeners and the two shutdowns do, and in whatever
\* order, the process shows the service of module ProcessService.
THEOREM Implementation == Spec => ImplementsProcess
  BY ServiceInit, Invariance, StepMaps, PTL DEF Spec, ImplementsProcess, Service!Spec
=============================================================================
