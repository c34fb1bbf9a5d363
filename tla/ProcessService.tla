--------------------------- MODULE ProcessService ---------------------------
(***************************************************************************)
(* What the process promises those who run it and call it, without its     *)
(* listeners, its probe and its pings: requests come while it runs and are *)
(* answered, left or cut off; /readyz speaks of the default datasource as  *)
(* it was at some moment meanwhile; nothing is cut off before the time of  *)
(* the shutdown is over, unless the main listener broke; and success means *)
(* that it was told to stop and has answered all on its main server.       *)
(***************************************************************************)
CONSTANTS Requests, Kinds, Health

VARIABLES
    phase,    \* "starting", "running" or "over"
    exit,     \* how it ended
    told,     \* whether it has been told to stop,
    late,     \* and its time for that is over
    broken,   \* whether the main listener has failed
    default,  \* the state of the default datasource
    kind, rq, status,   \* the requests, and what /readyz answers
    since     \* history: the states of the default since a request came

mainVars == <<phase, exit, told, late, broken>>
vars == <<mainVars, default, kind, rq, status, since>>

Open(r) == phase = "running" /\ rq[r] = "open"

\* The process ends, from whatever it was doing, and what is open is cut off.
End(how) ==
    /\ phase # "over"
    /\ phase' = "over" /\ exit' = how /\ broken' = FALSE
    /\ rq' = [r \in Requests |-> IF rq[r] = "open" THEN "cut" ELSE rq[r]]
    /\ (\E r \in Requests : rq[r] = "open") => late \/ broken
    /\ UNCHANGED <<told, late, default, kind, status, since>>

Stops ==
    \/ phase = "starting" /\ (End("error") \/ End("killed"))
    \/ phase = "running" /\ (broken \/ (told /\ late)) /\ End("error")
    \/ /\ phase = "running" /\ told
       /\ \A r \in Requests : rq[r] = "open" => kind[r] = "scrape"
       /\ End("ok")

Starts ==
    /\ phase = "starting" /\ phase' = "running"
    /\ UNCHANGED <<exit, told, late, broken, default, kind, rq, status, since>>

Turn ==
    /\ phase = "running"
    /\ \/ told' = TRUE /\ UNCHANGED <<late, broken>>
       \/ told /\ late' = TRUE /\ UNCHANGED <<told, broken>>
       \/ broken' = TRUE /\ UNCHANGED <<told, late>>
    /\ UNCHANGED <<phase, exit, default, kind, rq, status, since>>

Changes(h) ==
    /\ phase = "running"
    /\ default' = h
    /\ since' = [r \in Requests |-> IF rq[r] = "open" THEN since[r] \cup {h} ELSE since[r]]
    /\ UNCHANGED <<mainVars, kind, rq, status>>

Comes(r, k) ==
    /\ phase = "running" /\ rq[r] = "new"
    /\ broken => k = "scrape"
    /\ rq' = [rq EXCEPT ![r] = "open"] /\ kind' = [kind EXCEPT ![r] = k]
    /\ since' = [since EXCEPT ![r] = {default}]
    /\ UNCHANGED <<mainVars, default, status>>

Answered(r) ==
    /\ Open(r) /\ rq' = [rq EXCEPT ![r] = "answered"]
    /\ \/ kind[r] # "readyz" /\ UNCHANGED status
       \/ /\ kind[r] = "readyz"
          /\ \/ "good" \in since[r] /\ status' = [status EXCEPT ![r] = 200]
             \/ since[r] # {"good"} /\ status' = [status EXCEPT ![r] = 503]
    /\ UNCHANGED <<mainVars, default, kind, since>>

Left(r) ==
    /\ Open(r) /\ rq' = [rq EXCEPT ![r] = "gone"]
    /\ UNCHANGED <<mainVars, default, kind, status, since>>

Init ==
    /\ phase = "starting" /\ exit = "none"
    /\ told = FALSE /\ late = FALSE /\ broken = FALSE
    /\ default \in Health
    /\ kind = [r \in Requests |-> "other"]
    /\ rq = [r \in Requests |-> "new"]
    /\ status = [r \in Requests |-> 0]
    /\ since = [r \in Requests |-> {}]

Next ==
    \/ Starts \/ Stops \/ Turn
    \/ \E h \in Health : Changes(h)
    \/ \E r \in Requests : (\E k \in Kinds : Comes(r, k)) \/ Answered(r) \/ Left(r)

Spec == Init /\ [][Next]_vars

=============================================================================
