------------------------------ MODULE ToolCalls ------------------------------
(***************************************************************************)
(* The life of tool calls: the handlers of internal/mcpserver, wrapped by  *)
(* addTool, with the outbound request each of them makes through the       *)
(* datasource's HTTP client (outbound metrics, datasource credential,      *)
(* timeout) and the backend at the other end.                              *)
(*                                                                         *)
(* Calls run concurrently, one goroutine each, and share only the          *)
(* counters, the credential files and the backends.  A handler does all    *)
(* its checks before its one request, so the steps of a call are:          *)
(*                                                                         *)
(*   idle -Guard-> roundtrip -Send-> waiting -ReceiveHead-> reading        *)
(*        -ReadBody-> returned -Record-> answered                          *)
(*                                                                         *)
(* with a return from every step that can fail.  The network may lose the  *)
(* request or the reply; the backend may apply a request long after the    *)
(* call that sent it has given up and answered an error.                   *)
(*                                                                         *)
(* The http.Client has no CheckRedirect, so a reply that redirects goes    *)
(* back to "roundtrip" (Follow): the same request again, elsewhere, or a   *)
(* GET in place of a POST or DELETE, whose 2xx then says nothing of what   *)
(* the call was for.                                                       *)
(***************************************************************************)
EXTENDS Registry, ClientDecode, FiniteSets, Naturals

CONSTANTS
    Calls,         \* the tool calls that agents make; retries are further calls
    AskedTools,    \* the tools that agents call, here
    AskedNames,    \* the datasource arguments that they send
    Bodies,        \* what a silence says: its matchers and its window
    Others,        \* the IDs of the silences that others made beforehand,
    OthersOn,      \* and the datasource of each
    NoSilence,     \* a silence ID that no backend has minted
    WordsIn,       \* the classifying words that a datasource name contains
    ErrorWords,    \* the sets of classifying words in errors from outside: what a
                   \* backend replies, and the URL that a transport error quotes
    ErrorStatuses, \* the other statuses than 2xx that replies have
    RedirectsSent, \* the redirects that replies are
    MaxFollowed,   \* bound: the redirects followed for one call, 9 in net/http
    MaxRotations   \* bound: how often each credential file is rotated

\* The IDs that backends mint for silences, one for each POST that a call makes.
Minted == Calls \X (0 .. MaxFollowed)

ASSUME CallsAssumption ==
    /\ IsFiniteSet(Calls)
    /\ AskedTools \subseteq Tools
    /\ OthersOn \in [Others -> {d \in Names : IsAlertmanager(d)}]
    /\ Minted \cap Others = {}
    /\ NoSilence \notin Minted \cup Others
    /\ WordsIn \in [Names \cup AskedNames -> SUBSET Words]
    /\ ErrorWords \subseteq SUBSET Words
    /\ ErrorStatuses \subseteq Statuses \ {"2xx"}
    /\ RedirectsSent \subseteq Redirects
    /\ {MaxFollowed, MaxRotations} \subseteq Nat

VARIABLES
    pc,             \* where each call is
    args,           \* what each call was asked to do
    res,            \* what its handler returned
    reply,          \* the backend's reply to its request, if any
    followed,       \* how many redirects of its requests have been followed
    turned,         \* the calls whose POST or DELETE a redirect made a GET
    wire,           \* the calls whose request is on its way to the backend
    startCred,      \* the version of the credential file when the call began
    sentCred,       \* the version of the credential that its request carries
    credVersion,    \* the version now in each datasource's credential file
    silences,       \* the silences the Alertmanagers hold
    toolCalls,      \* omcp_tool_calls_total, by result
    series,         \* the values its datasource label has taken
    dsRequests,     \* omcp_datasource_requests_total, by code
    writesBlocked   \* omcp_writes_blocked_total, by reason

callVars   == <<pc, args, res, reply, startCred, sentCred, followed, turned>>
worldVars  == <<wire, credVersion, silences>>
metricVars == <<toolCalls, series, dsRequests, writesBlocked>>
vars       == <<callVars, worldVars, metricVars>>

-----------------------------------------------------------------------------

(***************************** the tools' inputs ***************************)

Forms == {"ok", "no_matchers", "bad_time"}

ReadArgs ==
    [tool : AskedTools \ WriteTools, name : AskedNames, form : {"ok"},
     body : {"none"}, id : {NoSilence}]
CreateArgs ==
    [tool : AskedTools \cap {"alertmanager_silence_create"}, name : AskedNames,
     form : Forms, body : Bodies, id : {NoSilence}]
DeleteArgs ==
    [tool : AskedTools \cap {"alertmanager_silence_delete"}, name : AskedNames,
     form : {"ok"}, body : {"none"}, id : Minted \cup Others \cup {NoSilence}]
Args == ReadArgs \cup CreateArgs \cup DeleteArgs

Unasked  == [tool |-> "none", name |-> NoName, form |-> "ok",
             body |-> "none", id |-> NoSilence]
NoReply  == [status |-> "none", words |-> {}, fits |-> FALSE, redirect |-> "none"]
NoResult == Failed("none", {})

\* The datasource that the handler of call c works on.
Target(c) == Resolve(args[c].name)

Replied(c) == reply[c].status # "none"

-----------------------------------------------------------------------------

(****************************** the guards *********************************)

TypeFits(tool, d) ==
    \/ tool \in MetricsTools /\ IsMetrics(d)
    \/ tool \in LogsTools /\ IsLogs(d)
    \/ tool \in AMTools /\ IsAlertmanager(d)

\* As if the handler of a delete lacked assertWritable.
BugDeleteUnguarded(a) ==
    LET d == Resolve(a.name) IN
    IF ~ Known(a.name) THEN "unknown_datasource"
    ELSE IF ~ TypeFits(a.tool, d) THEN "wrong_type"
    ELSE IF a.tool = "alertmanager_silence_create" /\ WriteBlock(d) # "none" THEN WriteBlock(d)
    ELSE IF a.form # "ok" THEN a.form
    ELSE "none"

\* The first check that refuses the request, in the order of the handlers:
\* resolveDatasource, assert<type>, assertWritable, matchers, times.
Refusal(a) ==
    LET d == Resolve(a.name) IN
    IF ~ Known(a.name) THEN "unknown_datasource"
    ELSE IF ~ TypeFits(a.tool, d) THEN "wrong_type"
    ELSE IF a.tool \in WriteTools /\ WriteBlock(d) # "none" THEN WriteBlock(d)
    ELSE IF a.form # "ok" THEN a.form
    ELSE "none"

Refusals == {"unknown_datasource", "wrong_type", "no_matchers", "bad_time"}
                \cup WriteBlocks

\* As if neither message of assertWritable spelt out that it is about read-only.
BugBlockUnsaid(a, why) ==
    IF why = "unknown_datasource" THEN WordsIn[a.name] ELSE {}

\* The classifying words in the text of a refusal: both read-only messages
\* say "read-only" or "readOnly", and every message but the last two quotes a
\* name; the one about an unknown name lists all the configured ones too.
RefusalWords(a, why) ==
    CASE why = "unknown_datasource"  -> WordsIn[a.name] \cup UNION {WordsIn[d] : d \in Names}
      [] why = "wrong_type"          -> WordsIn[Resolve(a.name)]
      [] why = "datasource_readonly" -> WordsIn[Resolve(a.name)] \cup {"readonly"}
      [] why = "global_readonly"     -> {"readonly"}
      [] OTHER                       -> {}

-----------------------------------------------------------------------------

(******************************** metrics **********************************)

Results == {"ok", "error", "forbidden", "blocked"}
Codes   == Statuses \cup {"error"}

\* classifyResult: the label is found by looking for words in the error text.
Classify(r) ==
    IF r.ok THEN "ok"
    ELSE IF "forbidden" \in r.words THEN "forbidden"
    ELSE IF "readonly" \in r.words THEN "blocked"
    ELSE "error"

\* As if the default were not filled in for a name left out.
BugLabelEmpty(a) == a.name

\* datasourceLabel: the name as it was asked for, not as it was resolved.
Label(a) == IF a.name = NoName THEN DefaultName ELSE a.name

\* As if failed round trips were not counted.
BugRepliesOnly(code) ==
    dsRequests' = IF code = "error" THEN dsRequests ELSE [dsRequests EXCEPT ![code] = @ + 1]

CountRequest(code) == dsRequests' = [dsRequests EXCEPT ![code] = @ + 1]

\* As if the wrapper returned before counting when the call was refused.
BugRefusalsUncounted(c) ==
    /\ toolCalls' = IF Classify(res[c]) = "blocked" THEN toolCalls
                    ELSE [toolCalls EXCEPT ![Classify(res[c])] = @ + 1]
    /\ series' = series \cup {Label(args[c])}

\* RecordTool.
CountCall(c) ==
    /\ toolCalls' = [toolCalls EXCEPT ![Classify(res[c])] = @ + 1]
    /\ series' = series \cup {Label(args[c])}

-----------------------------------------------------------------------------

(********************************* calls ***********************************)

Return(c, r) ==
    /\ pc'  = [pc EXCEPT ![c] = "returned"]
    /\ res' = [res EXCEPT ![c] = r]

\* A handler starts and runs its checks.  Refused, it returns an error with
\* nothing sent; otherwise it goes on to its request.
Guard(c, a) ==
    /\ pc[c] = "idle"
    /\ args' = [args EXCEPT ![c] = a]
    /\ LET why == Refusal(a) IN
         /\ IF why = "none"
            THEN /\ pc' = [pc EXCEPT ![c] = "roundtrip"]
                 /\ startCred' = [startCred EXCEPT ![c] = credVersion[Resolve(a.name)]]
                 /\ UNCHANGED res
            ELSE /\ Return(c, Failed(why, RefusalWords(a, why)))
                 /\ UNCHANGED startCred
         /\ writesBlocked' = IF why \in WriteBlocks
                             THEN [writesBlocked EXCEPT ![why] = @ + 1]
                             ELSE writesBlocked
    /\ UNCHANGED <<reply, sentCred, followed, turned, worldVars, toolCalls, series, dsRequests>>

\* As if the file had been read once, when the client was built.
BugCachedCredential(c) == 0

\* valueOrFile: the file is read for each request.
Credential(c) == credVersion[Target(c)]

\* authTransport.RoundTrip: the credential is read anew for this request, and
\* the request leaves with it.
Send(c) ==
    /\ pc[c] = "roundtrip"
    /\ pc' = [pc EXCEPT ![c] = "waiting"]
    /\ sentCred' = [sentCred EXCEPT ![c] = Credential(c)]
    /\ wire' = wire \cup {c}
    /\ UNCHANGED <<args, res, reply, startCred, followed, turned, credVersion, silences, metricVars>>

\* The credential file cannot be read, or no connection can be had: nothing is
\* sent, and the outbound metrics count an "error" all the same.
SendFails(c) ==
    /\ pc[c] = "roundtrip"
    /\ \E why \in {"transport"} \cup
                  (IF Target(c) \in FileCredNames THEN {"credential"} ELSE {}),
          words \in ErrorWords :
         Return(c, Failed(why, words))
    /\ CountRequest("error")
    /\ UNCHANGED <<args, reply, startCred, sentCred, followed, turned, worldVars,
                   toolCalls, series, writesBlocked>>

Redirected(c) == reply[c].redirect # "none"

\* The head of the reply arrives, RoundTrip returns and the reply is the client's.
ReceiveHead(c) ==
    /\ pc[c] = "waiting"
    /\ Replied(c) /\ ~ Redirected(c)
    /\ pc' = [pc EXCEPT ![c] = "reading"]
    /\ CountRequest(reply[c].status)
    /\ UNCHANGED <<args, res, reply, startCred, sentCred, followed, turned, worldVars,
                   toolCalls, series, writesBlocked>>

\* net/http follows a redirect with a round trip of its own: counted by itself,
\* and with the credential read anew.
Follow(c) ==
    /\ pc[c] = "waiting"
    /\ Redirected(c) /\ followed[c] < MaxFollowed
    /\ pc' = [pc EXCEPT ![c] = "roundtrip"]
    /\ followed' = [followed EXCEPT ![c] = @ + 1]
    /\ turned' = IF reply[c].redirect = "rewrites" THEN turned \cup {c} ELSE turned
    /\ reply' = [reply EXCEPT ![c] = NoReply]
    /\ CountRequest(reply[c].status)
    /\ UNCHANGED <<args, res, startCred, sentCred, worldVars,
                   toolCalls, series, writesBlocked>>

\* It does not when there were too many, or when the Location does not parse.
GiveUp(c) ==
    /\ pc[c] = "waiting"
    /\ Redirected(c)
    /\ \E words \in ErrorWords : Return(c, Failed("redirect", words))
    /\ CountRequest(reply[c].status)
    /\ UNCHANGED <<args, reply, startCred, sentCred, followed, turned, worldVars,
                   toolCalls, series, writesBlocked>>

\* RoundTrip fails: the connection breaks, the client's timeout passes or the
\* agent cancels.  The request may be on its way still.
WaitFails(c) ==
    /\ pc[c] = "waiting"
    /\ \E words \in ErrorWords : Return(c, Failed("transport", words))
    /\ CountRequest("error")
    /\ UNCHANGED <<args, reply, startCred, sentCred, followed, turned, worldVars,
                   toolCalls, series, writesBlocked>>

ReadBody(c) ==
    /\ pc[c] = "reading"
    /\ \E r \in Decodings(args[c].tool, reply[c], "whole") : Return(c, r)
    /\ UNCHANGED <<args, reply, startCred, sentCred, followed, turned, worldVars, metricVars>>

\* The same failures as in WaitFails, while the body is being read.
ReadFails(c) ==
    /\ pc[c] = "reading"
    /\ \E data \in {"part", "none"} :
         \E r \in Decodings(args[c].tool, reply[c], data) : Return(c, r)
    /\ UNCHANGED <<args, reply, startCred, sentCred, followed, turned, worldVars, metricVars>>

\* As if the timeout were the transport's ResponseHeaderTimeout.
BugDeadlineForHeadOnly(c) == Target(c) \in BoundedNames /\ WaitFails(c)

\* http.Client.Timeout covers the request and the reading of the body.
Deadline(c) == Target(c) \in BoundedNames /\ (WaitFails(c) \/ ReadFails(c))

\* The wrapper of addTool counts the call and the answer goes to the agent.
Record(c) ==
    /\ pc[c] = "returned"
    /\ pc' = [pc EXCEPT ![c] = "answered"]
    /\ CountCall(c)
    /\ UNCHANGED <<args, res, reply, startCred, sentCred, followed, turned, worldVars,
                   dsRequests, writesBlocked>>

-----------------------------------------------------------------------------

(************************** backends and files *****************************)

SilencesOn(d) == {s \in silences : s.ds = d}

\* POST /api/v2/silences makes a new silence.  Its ID is fresh: the call that
\* made it and which of its round trips it was stand for the ID here.
ApplyCreate(c) ==
    /\ args[c].tool = "alertmanager_silence_create" /\ c \notin turned
    /\ silences' = silences \cup
         {[id |-> <<c, followed[c]>>, ds |-> Target(c), body |-> args[c].body, active |-> TRUE]}

\* DELETE /api/v2/silence/{id} expires an active silence.
ApplyDelete(c) ==
    /\ args[c].tool = "alertmanager_silence_delete" /\ c \notin turned
    /\ \E s \in SilencesOn(Target(c)) :
         /\ s.id = args[c].id
         /\ s.active
         /\ silences' = (silences \ {s}) \cup {[s EXCEPT !.active = FALSE]}

\* A GET changes nothing, one that had been a POST or a DELETE neither.
ApplyRead(c) ==
    /\ args[c].tool \notin WriteTools \/ c \in turned
    /\ UNCHANGED silences

\* The requests that a redirect may rewrite: 301, 302 and 303 leave a GET a GET,
\* 307 and 308 leave every request what it is.
Posts(c) == args[c].tool \in LogsTools \cup WriteTools /\ c \notin turned

Successes ==
    {[status |-> "2xx", words |-> {}, fits |-> TRUE, redirect |-> "none"]}
    \cup [status : {"2xx"}, words : ErrorWords, fits : {FALSE}, redirect : {"none"}]
Errors ==
    [status : ErrorStatuses, words : ErrorWords, fits : {FALSE}, redirect : {"none"}]
Redirections(c) ==
    [status : {"3xx"}, words : {{}}, fits : {FALSE},
     redirect : IF Posts(c) THEN RedirectsSent ELSE RedirectsSent \cap {"repeats"}]

Reply(c, replies) == \E r \in replies : reply' = [reply EXCEPT ![c] = r]

\* The backend carries out a request; a gateway in front of it may yet make an
\* error or a redirect of its reply.
Apply(c) ==
    /\ c \in wire
    /\ wire' = wire \ {c}
    /\ ApplyCreate(c) \/ ApplyDelete(c) \/ ApplyRead(c)
    /\ Reply(c, Successes \cup Errors \cup Redirections(c))
    /\ UNCHANGED <<pc, args, res, startCred, sentCred, followed, turned, credVersion, metricVars>>

\* The backend rejects a request, or a gateway redirects it, and changes nothing.
\* A 3xx without a Location, or one that is no redirect, is an error like others.
Reject(c) ==
    /\ c \in wire
    /\ wire' = wire \ {c}
    /\ Reply(c, Errors \cup Redirections(c))
    /\ UNCHANGED <<pc, args, res, startCred, sentCred, followed, turned, credVersion, silences,
                   metricVars>>

\* The secret operator writes a new credential into the file.
Rotate(d) ==
    /\ credVersion[d] < MaxRotations
    /\ credVersion' = [credVersion EXCEPT ![d] = @ + 1]
    /\ UNCHANGED <<callVars, wire, silences, metricVars>>

-----------------------------------------------------------------------------

SilencesOfOthers ==
    {[id |-> o, ds |-> OthersOn[o], body |-> "other", active |-> TRUE] : o \in Others}

Init ==
    /\ pc = [c \in Calls |-> "idle"]
    /\ args = [c \in Calls |-> Unasked]
    /\ res = [c \in Calls |-> NoResult]
    /\ reply = [c \in Calls |-> NoReply]
    /\ followed = [c \in Calls |-> 0]
    /\ turned = {}
    /\ wire = {}
    /\ startCred = [c \in Calls |-> 0]
    /\ sentCred = [c \in Calls |-> 0]
    /\ credVersion = [d \in Names |-> 0]
    /\ silences = SilencesOfOthers
    /\ toolCalls = [r \in Results |-> 0]
    /\ series = {}
    /\ dsRequests = [code \in Codes |-> 0]
    /\ writesBlocked = [why \in WriteBlocks |-> 0]

CallStep(c) ==
    \/ \E a \in Args : Guard(c, a)
    \/ Send(c)
    \/ SendFails(c)
    \/ ReceiveHead(c)
    \/ Follow(c)
    \/ GiveUp(c)
    \/ WaitFails(c)
    \/ ReadBody(c)
    \/ ReadFails(c)
    \/ Record(c)

\* Every call has been answered and no request is left on the wire.
Finished ==
    /\ \A c \in Calls : pc[c] = "answered"
    /\ UNCHANGED vars

Next ==
    \/ \E c \in Calls : CallStep(c) \/ Apply(c) \/ Reject(c)
    \/ \E d \in FileCredNames : Rotate(d)
    \/ Finished

Spec == Init /\ [][Next]_vars

\* The scheduler runs every runnable goroutine, and the timers of the HTTP
\* clients that have a timeout go off.  Nothing is assumed of the network, of
\* the backends or of the agents.
Fairness == \A c \in Calls : /\ WF_vars(Send(c) \/ SendFails(c))
                             /\ WF_vars(Deadline(c))
                             /\ WF_vars(Record(c))

FairSpec == Spec /\ Fairness

-----------------------------------------------------------------------------

(****************************** properties *********************************)

Silences == [id : Minted \cup Others, ds : Names, body : Bodies \cup {"other"},
             active : BOOLEAN]
Replies  ==
    {r \in [status : Statuses \cup {"none"}, words : SUBSET Words, fits : BOOLEAN,
            redirect : Redirects \cup {"none"}] :
        (r.fits => r.status = "2xx") /\ (r.redirect # "none" => r.status = "3xx")}
Reasons  == Refusals \cup {"none", "transport", "credential", "redirect", "status", "body"}
Returns  == [ok : BOOLEAN, why : Reasons, words : SUBSET Words, data : BodyParts]
States   == {"idle", "roundtrip", "waiting", "reading", "returned", "answered"}

\* Every variable keeps its type.
TypeOK ==
    /\ pc \in [Calls -> States]
    /\ args \in [Calls -> Args \cup {Unasked}]
    /\ res \in [Calls -> Returns]
    /\ reply \in [Calls -> Replies]
    /\ followed \in [Calls -> 0 .. MaxFollowed]
    /\ turned \subseteq Calls
    /\ wire \subseteq Calls
    /\ startCred \in [Calls -> 0 .. MaxRotations]
    /\ sentCred \in [Calls -> 0 .. MaxRotations]
    /\ credVersion \in [Names -> 0 .. MaxRotations]
    /\ silences \subseteq Silences
    /\ toolCalls \in [Results -> Nat]
    /\ series \subseteq (AskedNames \ {NoName}) \cup {DefaultName}
    /\ dsRequests \in [Codes -> Nat]
    /\ writesBlocked \in [WriteBlocks -> Nat]

\* README "Read-only guard": no step whatsoever changes the silences of a
\* datasource that is read-only or not an Alertmanager, or of any datasource
\* of a server that is read-only.
ReadOnlyUntouched ==
    [][\A d \in Names :
         WriteBlock(d) # "none" \/ ~ IsAlertmanager(d) =>
             SilencesOn(d)' = SilencesOn(d)]_vars

\* The silence that call c describes exists; the one that it names is expired.
InEffect(c) ==
    /\ args[c].tool = "alertmanager_silence_create" =>
           \E s \in SilencesOn(Target(c)) :
               s.id \in {c} \X (0 .. MaxFollowed) /\ s.body = args[c].body
    /\ args[c].tool = "alertmanager_silence_delete" =>
           /\ \E s \in SilencesOn(Target(c)) : s.id = args[c].id
           /\ \A s \in SilencesOn(Target(c)) : s.id = args[c].id => ~ s.active

AnsweredOk(c) == pc[c] = "answered" /\ res[c].ok

\* An agent that was told "created silence" or "deleted silence" can rely on it,
\* unless a redirect had turned the order into a GET: the silence it described
\* exists on the datasource it meant, or the one it named there is expired,
\* whatever else failed between the server and the backend.
AnswerTrue == \A c \in Calls : AnsweredOk(c) /\ c \notin turned => InEffect(c)

\* client.go:118 of package alertmanager, "DeleteSilence expires (deletes) a
\* silence by ID", and :107, "creates (or updates) a silence": whoever is told so
\* has it.  (Not so: redirected with a 302 the call is a GET, and its 2xx does.)
ToldIsDone == \A c \in Calls : AnsweredOk(c) => InEffect(c)

Count(P) == Cardinality({c \in Calls : P[c]})

\* omcp_tool_calls_total counts every answered call once, under its result.
CallsCounted ==
    \A r \in Results :
        toolCalls[r] = Count([c \in Calls |-> pc[c] = "answered" /\ Classify(res[c]) = r])

\* omcp_datasource_requests_total counts every round trip once, when it ends: one
\* for each redirect followed, and the last one of every call that got past its
\* guards under the status of the reply if its head arrived (whatever became of
\* the body), under "error" if not.
RequestsCounted ==
    LET Ended(c) == pc[c] \in {"reading", "returned", "answered"}
                       /\ res[c].why \notin Refusals
        NoHead(c) == res[c].why \in {"credential", "transport"}
        Hops == {h \in Calls \X (1 .. MaxFollowed) : h[2] <= followed[h[1]]}
    IN  \A code \in Codes :
            dsRequests[code] =
                Count([c \in Calls |-> Ended(c) /\
                         code = (IF NoHead(c) THEN "error" ELSE reply[c].status)])
                + (IF code = "3xx" THEN Cardinality(Hops) ELSE 0)

\* The two counters of blocked mutations agree: a call has the result "blocked"
\* exactly when the read-only guard has counted it in omcp_writes_blocked_total.
BlockedCountsAgree ==
    writesBlocked["global_readonly"] + writesBlocked["datasource_readonly"] =
        Count([c \in Calls |-> pc[c] \in {"returned", "answered"}
                                   /\ Classify(res[c]) = "blocked"])

\* docs/architecture.md, "re-reads file-backed credentials on every request": a
\* request never carries a credential older than the one that was in the file
\* when its call began.
FreshCredential ==
    \A c \in Calls :
        pc[c] \in {"waiting", "reading"} \/ c \in wire => sentCred[c] >= startCred[c]

\* client.go:107 of package alertmanager, "creates (or updates) a silence and
\* returns its ID": an agent told "created silence" is told the ID.  (Not so: when
\* the body is lost after a 2xx head, the ID in the answer is empty.)
SilenceIdReturned ==
    \A c \in Calls :
        AnsweredOk(c) /\ args[c].tool = "alertmanager_silence_create" => res[c].data = "whole"

\* A call to a datasource with a timeout is answered, however slow or silent its
\* backend is and however many other calls hang on backends without a timeout.
BoundedCallsAnswered ==
    \A c \in Calls :
        (pc[c] # "idle" /\ Target(c) \in BoundedNames) ~> pc[c] = "answered"

(* Why answers are true: the inductive invariant behind the theorems. *)

\* Only what passed the guards has been sent, and only what has been sent is on
\* the wire or has a reply, never both.
OnlyPassedSent ==
    \A c \in Calls :
        /\ pc[c] # "idle" => args[c] \in Args
        /\ pc[c] \in {"roundtrip", "waiting", "reading"} \/ c \in wire \/ Replied(c) =>
               pc[c] # "idle" /\ Refusal(args[c]) = "none"
        /\ c \in wire \/ Replied(c) => pc[c] # "roundtrip"
        /\ ~ (c \in wire /\ Replied(c))

\* A POST has made no silence until it is taken off the wire.
Unsent(c, n) ==
    \/ n > followed[c]
    \/ n = followed[c] /\ (pc[c] \in {"idle", "roundtrip"} \/ c \in wire)

UnsentUnmade ==
    \A c \in Calls, n \in 0 .. MaxFollowed :
        Unsent(c, n) => \A s \in silences : s.id # <<c, n>>

OneSilencePerId == \A s, t \in silences : s.id = t.id => s = t

RepliesTrue == \A c \in Calls : reply[c].status = "2xx" /\ c \notin turned => InEffect(c)

AnswersBacked ==
    \A c \in Calls :
        res[c].ok => pc[c] \in {"returned", "answered"} /\ reply[c].status = "2xx"

\* Holds in every reachable state: an order that is still a POST or DELETE is
\* given a "2xx" only when it is in effect, it stays so, and no other reply makes
\* an answer.
PipelineInv ==
    /\ TypeOK
    /\ OnlyPassedSent
    /\ UnsentUnmade
    /\ OneSilencePerId
    /\ RepliesTrue
    /\ AnswersBacked

\* The pipeline implements the service of module SilenceService.
KindOf(tool) ==
    CASE tool = "alertmanager_silence_create" -> "create"
      [] tool = "alertmanager_silence_delete" -> "delete"
      [] OTHER -> "read"

OrderOf(a) == [kind |-> KindOf(a.tool), ds |-> Resolve(a.name), body |-> a.body, id |-> a.id]

PhaseOf(c) ==
    CASE pc[c] = "idle" -> "idle"
      [] pc[c] = "answered" -> IF res[c].ok THEN "done" ELSE "failed"
      [] OTHER -> "open"

OrdersPlaced == {OrderOf(a) : a \in Args \cup {Unasked}}
Unprotected  == {d \in Names : IsAlertmanager(d) /\ WriteBlock(d) = "none"}

Service == INSTANCE SilenceService WITH
    Clients   <- Calls,
    Repeats   <- MaxFollowed,
    Orders    <- OrdersPlaced,
    Writable  <- Unprotected,
    Initially <- SilencesOfOthers,
    order     <- [c \in Calls |-> OrderOf(args[c])],
    phase     <- [c \in Calls |-> PhaseOf(c)]

\* Orders take effect only where writing is allowed, at most once and once more
\* for each redirect that repeats them, and "done" means done of all that were not
\* turned away; late effects after a failed answer are all else to expect.
ImplementsService == Service!Spec

=============================================================================
