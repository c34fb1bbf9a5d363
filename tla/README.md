# A TLA+ model of observability-mcp-server

`observability-mcp` is an MCP server in Go: agents call its tools over HTTP, and it asks
metrics, logs and alerting backends on their behalf. This directory holds TLA+ modules of
its behaviour, TLC configurations that check them on small instances, and TLAPS proofs of
what holds on every instance. Every definition is translated from the source (paths below
are relative to the repository); `PROJECT.json` maps each definition to its lines.

## The system

| part | code | state | operations |
|---|---|---|---|
| configuration | `internal/config/config.go` | the `Config`, built once | file, `OMCP_*` overrides, defaults, validation, warnings |
| datasource registry | `internal/datasources/{registry,datasource}.go` | names, order, default; never changed after `Build` | `Get`, `All`, `Ping` |
| outbound HTTP client | `internal/datasources/{httpclient,credentials}.go`, `RoundTrip` of `internal/metrics/metrics.go` | none of its own; reads credential files | one request: count, credential, timeout |
| tool handlers | `internal/mcpserver/tools_*.go`, `params.go`, `instrument.go` | none of their own | 24 tools: checks, one request (`datasources_list`: one per datasource), an answer, a record |
| backend clients | `internal/{promapi,logsql,alertmanager}/client.go` | none | request, status, body, decoding |
| formatting | `internal/mcpserver/format.go` | none | text with row caps |
| metrics | `internal/metrics/metrics.go` | process-wide counters and the `omcp_datasource_up` gauge | `RecordTool`, `RecordAuth`, `RecordWriteBlocked`, `SetDatasourceUp`, outbound counts |
| agent authentication | `internal/auth/*.go` | token file names, the provider's keys | chain of the static and the OIDC verifier inside the SDK's `RequireBearerToken` |
| process | `main.go` | two listeners, a probe goroutine | start-up, `/healthz`, `/readyz`, probe every 30 s, shutdown on a signal |
| backends, files, SDK | outside | silences; credentials and token files | change at any time |

How they interact. `main.run` builds everything once. From then on each tool call is a
goroutine of its own: the SDK calls the wrapper made by `addTool`, which calls the handler,
which looks its datasource up, asks the guards, makes one request through the datasource's
`http.Client` and returns a text; the wrapper then classifies that text and counts. Requests
to `/mcp` go through the authentication middleware first. Calls share no memory except
counters. They meet outside the process: in the Alertmanagers' silences, in credential and
token files that an operator rewrites (external secrets, projected volumes), and in backends
that answer late or never.

What is hard:

* *A call's fate is uncertain.* A silence may be created or deleted long after the call was
  answered with an error; agents retry.
* *Redirects.* The clients follow them, which sends a POST again or makes a GET of it.
* *Partial failure.* A reply may break off at any byte. The three clients treat this in
  three ways (`promapi` first reads, then decodes; `logsql` looks at the status first;
  `alertmanager` drops the error of the read).
* *The read-only guard* has two switches, and has to stand in front of every mutation for
  the datasource that a name, or its absence, resolves to.
* *Metrics that must agree* are counted at three layers, one of them from words found in an
  error text.
* *Files change while they are read*: credentials per request, tokens one file after the
  other.
* *Liveness*: a timeout of zero or less is accepted and means none.
* *Life cycle*: a probe, two listeners and a signal race at shutdown.
* *Three limits in a row* (asked for, decoded, printed), on bodies that may break off, never
  end or hold lines that do not decode.
* *Checks in four places* (`Validate`, `datasources.Build`, `newStaticVerifier`,
  `auth.Build`) that all of the above takes for granted.

What makes each part correct: the registry and guards let nothing reach a backend that must
not (`ReadOnlyUntouched`); a handler's answer is true but for a redirect (`AnswerTrue`; not so
`ToldIsDone`) and comes
(`BoundedCallsAnswered`); the counters count what happened (`CallsCounted`,
`RequestsCounted`, `BlockedCountsAgree`, `VerifiedCounted`); credentials are fresh
(`FreshCredential`); authentication is sound (`ServedSound`), not lossy under rotation
(`StableSecretAllowed`), and as good as a decision in one instant (`ImplementsAuth`);
readiness and the gauge say what is so (`ReadinessGrounded`, `GaugeFollows`), pings and the
process end (`PingsEnd`, `SignalledExits`), a shutdown says truly what it cut off
(`CleanExit`, `CutOnlyLate`), and from outside there is no more to see than that
(`ImplementsProcess`); a configuration that passes its
checks becomes the server it describes or fails for one of few reasons (`LateFailures`,
`BuiltAsConfigured`), in the
open (`InsecureIsSaid`) and with its protections (`ProtectionKept`); an answer never hides
that part of a body is missing (`CutIsTold`), does not wait for more than it needs
(`QueryEnds`), and is an answer where the model of tool calls says that it is one
(`DecodesAsStated`). `PROJECT.json` lists the hazards, each with its line, the properties
that guard against it, or why there is none.

## Modules

| module | models |
|---|---|
| `Registry` | the datasources after start-up, as constants, and the guards of `params.go` as operators over them |
| `ClientDecode` | what each backend client may make of a reply: status, error words, and a body that it can decode or not, read in whole, in part or not at all |
| `ToolCalls` | tool calls: handlers, outbound client, counters, network, backends, credential files |
| `SilenceService` | the abstract specification of what the tools promise |
| `AgentAuth` | requests to `/mcp` through the authentication middleware |
| `AuthService` | the abstract specification of what authentication promises |
| `Lifecycle` | the process: start-up, two listeners, probe and gauge, `/readyz`, `datasources_list`, shutdown |
| `ProcessService` | the abstract specification of what the process shows outside |
| `Config` | from the file and the environment to a registry and a chain of verifiers |
| `Bodies` | one body, from its first byte to the printed rows, through the decoders of the three clients |
| `ToolCallsProofs`, `CountingProofs`, `AgentAuthProofs`, `AuthServiceProofs`, `LifecycleProofs`, `ConfigProofs`, `BodiesProofs` | theorems |
| `MCToolCalls`, `MCAgentAuth`, `MCConfig` | values of constants for TLC |

`ToolCalls` is composed of `Registry` and `ClientDecode` and implements `SilenceService`;
`AgentAuth` implements `AuthService`, and `Lifecycle` implements `ProcessService`. `Config`
instantiates `Registry` and shows that what it builds satisfies `RegistryAssumption`.
`Bodies` is the detail of `ToolCalls`' `ReadBody` and `ReadFails` after a 2xx: it
instantiates `ClientDecode`, which says in one step what those make of a body, and
`DecodesAsStated` is that every way through `Bodies` ends in an answer, or in an error, that
`ClientDecode` has for as much as was received. `Config` is
the detail of `Lifecycle`'s `Prepare`, which succeeds or fails; no refinement is stated for
this pair.

### ToolCalls

A handler runs all its checks before its one request, so a call goes

    idle -Guard-> roundtrip -Send-> waiting -ReceiveHead-> reading -ReadBody-> returned -Record-> answered

`Guard` is the handler up to `http.Client.Do`: `Refusal` gives the first check that refuses,
in the handlers' order (unknown datasource, wrong type, read-only, no matchers, bad times),
and a refusal returns at once, counting a blocked write where `assertWritable` does. `Send`
is `authTransport.RoundTrip`, which reads the credential file for this request. `SendFails`,
`WaitFails` and `ReadFails` are the failures on the way: an unreadable credential, no
connection, a broken connection, the client's timeout, the agent's cancellation.
`CountRequest` sits where the instrumented `RoundTrip` returns: when the head has come or
cannot come any more. `Decodings` is what the client may make of the reply. `Record` is the
wrapper: classification, label, counter.

A request that has left is on the `wire` until the backend carries it out (`Apply`) or
rejects it (`Reject`), whether or not its call still waits. `Apply` makes or expires a
silence, and a gateway may yet turn the reply into an error or a redirect. Retries are
further calls with the same arguments. The backend is external: it mints a fresh ID per
POST, for which the call and the number of its round trip stand, and expires only silences
that are active.

Redirects. `buildHTTPClient` sets no `CheckRedirect` (`httpclient.go:52`), so `net/http`
follows up to nine of them. `Follow` is one: it goes back to `roundtrip`, where the
credential is read and the request sent again. A 307 or 308 "repeats" the request, body
included (each of them has a `bytes.Reader`, a `strings.Reader` or none, so it can be sent
again). A 301, 302 or 303 leaves a GET what it is and "rewrites" a POST or DELETE into a GET
without a body: the call is then in `turned`, what it sends changes nothing, and a 2xx to it
says nothing of what it was for. `GiveUp` is a redirect that is not followed, for there were
too many or its `Location` does not parse; a 3xx that is no redirect to `net/http` (no
`Location`, a 304) is a status like others. Each round trip is counted by itself.

What is assumed of the other side, being external: a repeated request reaches the same
backend under another address, which may take what it has carried out for new; a GET changes
nothing; whoever answers 2xx to a POST or DELETE that is still one has carried it out; and
an envelope that says "success" comes with a 2xx. A gateway that answers 2xx by itself would
deceive any client.

Data is reduced to what properties tell apart: a query is nothing, a silence has an opaque
body, an error text is the set of words `classifyResult` looks for in it, times are good or
bad.

`SilenceService` says the same without a pipeline: an order is placed, may take effect at
any time after that (also after a failed answer), once and once more for each redirect that
repeats it, only where writing is allowed; it may be turned away, and has no effect from then
on; and it is answered "done" only if it is in effect or was turned away.
`ImplementsService` is the refinement, under the mapping `OrderOf`, `PhaseOf`.

### AgentAuth

A request goes new, inline, files, oidc, verified, done. The static verifier compares the
inline tokens (they never change: one step) and then reads each file in a step of its own,
in any order (Go's map order), while `Rotate` writes another secret into a file or makes it
unreadable. `VerifyOIDC` accepts genuine, unexpired JWTs with all required scopes and
groups, and may refuse any (the provider's keys may be out of reach). `Admit` is what the
SDK does after the verifier: required scopes, then expiry. `held` and `kept` are history
variables: what a request could have seen in the files since it came, and which files never
changed meanwhile.

`AuthService` knows neither verifiers nor the order of files: a request is accepted in one
instant at which its credential is good, or refused if it is not `Lasting` (good in one
place from the beginning to now); an accepted one is served unless it has expired by then or
lacks what is required of all. `ImplementsAuth` is the refinement, under `PhaseOf`. The
instant is the step that finds the secret; that a refusal has no such instant is what
`KeptUnread` and `StableSecretAllowed` carry through the loop.

### Lifecycle

`stage` is where `main.run` is:

    preparing -Prepare-> serving -Select-> closing_metrics -MetricsClosed-> closing -Closed-> exited

`Prepare` is everything before the listeners: it opens both and starts the probe, or fails.
`Select` is the `select` between the signal and the error of the main listener;
`MetricsClosed` and `Closed` are the two `Shutdown` calls, in order, under the one context
that `TimePasses` ends; `Exit` is the return of `run` into `main`. Shutdown closes the port
first and then waits for open requests, so the main port still takes requests while
`metricsSrv.Shutdown` waits.

Three kinds of process ping datasources: the probe (`ProbeStep`: one datasource, the gauge,
the next), `/readyz` (`Ready`) and `datasources_list` (`List`). A ping takes time, so a
datasource may `Turns` good, bad or silent while it is under way; `seen` holds every state
of the datasource since the ping began, and `PingReturns` lets the outcome rest on any of
them. `HasDeadline` is where the three differ: 5 s, 3 s, and for `datasources_list` nothing
but the datasource's own timeout. `since` is a history variable: the states of the default
since the request came. A ping of the probe that begins after the signal always fails; the
model also lets it succeed.

`ProcessService` is what is left for those who run the process and call it: requests come,
are answered, left or cut off; `/readyz` says 200 only if the default was good at some
moment meanwhile, and 503 only if it was not good throughout; nothing is cut off before the
time of the shutdown is over, unless the main listener broke; success means that the process
was told to stop and has nothing of its main server left. `ImplementsProcess` is the
refinement, under `Phase`: gauge, probe, pings, the metrics listener and the order of the
two shutdowns are hidden.

### Config

`stage` follows `main.run`:

    start -Load-> build -BuildDatasource*, DatasourcesBuilt-> auth -AddToken*, TokensAdded-> discover -Discover-> chain -Chain-> ready

`Load` is `config.Load` with the warnings, in the code's order: `Overridden` (`applyEnv`),
`Defaulted` (`applyDefaults`), `Valid` (`Validate`). A string is the class that the checks
put it in: a timeout is left out, positive, none (zero or less, which `Validate` lets pass
and `net/http` takes for no timeout) or junk; a switch in the environment may be junk too,
and is then ignored. `BuildDatasource` and `AddToken` take one entry at a time and write
maps keyed by name, as the code does, so that a repeated name would overwrite an entry. A
CA file, a token file and the discovery of the issuer may fail at any time. Inline
certificates (`caData`) are base64 of certificates or junk; `Validate` does not look at them
(`config.go:283` only forbids them beside `insecureSkipTLSVerify`), `loadCACertPool` does
(`credentials.go:25-37`), unless there is a CA file, which goes first. So `LateFailures`
has one reason, `"caData"`, that lies in the configuration: with junk there the server never
starts, although `Validate` has passed it. `R` is `Registry` over what was built.

### Bodies

The body grows by `Send` while the decoder takes it apart, until `Finish` or `Lose`. A line
is a line of NDJSON for `logsql` and an item of the one JSON document for the others, and of
its content only the kind counts: a record with a string or without, one too long for the
reader, blanks, or junk. `ScanLine` and `ScanEnd` are `decodeNDJSON`, which calls `Scan`
before it compares the limit and asks `sc.Err()` at the end; `DecodeDocument` is the
`json.Decoder` of hits and stats; `TakeItem` and `ItemsEnd` are what `promapi.get` and
`alertmanager.do` make of all that `io.ReadAll` gives them. `Printed` and `Noted` are
`format.go`: what is shown and when a note says that something is not. `LostUnread` is the
one way to an answer that hides a loss, an Alertmanager's reply that breaks off before its
first byte; `CutIsTold` names it as its exception, and `lost_id` is a run about it.
`Received` says how much of a body a client may have had, in the terms of `ClientDecode`:
"whole" at the end of the body, at the limit or at a line too long to read, "part" or "none"
where the body has not ended; and `Fits`, whether a client can decode that: no line too long
for a scanner (which skips junk), a first document that is one, items without junk, and for
`promapi` an envelope and a result type that it knows besides, which is left open.
`DecodesAsStated` compares only answer and error: the text of an error, and with it the words
that the classification looks for, is `ClientDecode`'s alone (`promapi` and `alertmanager`
quote what they read, `logsql` only after another status than 2xx).

## Runs

Every `cfg` gives values to constants and replaces nothing else.

| run | instance | shows |
|---|---|---|
| `calls` | 2 calls, `vm`, `am` (writable), `amro` (read-only), 3 tools, the default and the other names, one foreign silence, redirects of both kinds with one followed, 1 rotation | types, the inductive invariant, true answers, fresh credentials, untouched read-only silences, blocked counts, refinement |
| `kill_switch` | the same under the global switch, with `vl` for `vm` and without a timeout for it, 4 tools, replies of every status, errors that may say "forbidden" | nothing changes; the counters; bounded calls are answered |
| `retries` | 3 calls, creates and deletes on one Alertmanager, no redirects | true answers, the inductive invariant and refinement when a delete races a create that was given up |
| `auth` | 2 requests, 2 files, 1 inline token, 2 genuine JWTs and a forgery, 2 rotations | soundness, no loss under rotation, counts, refinement |
| `auth_static` | the same with static tokens alone | types, the inductive invariant |
| `lifecycle` | 2 datasources that fall silent and recover, the default (the second) without a timeout; a request of any kind; both ports may fail, a signal at any time | the inductive invariant, true readiness, clean exits, refinement, shutdown ends, gauge and pings are not held up |
| `config` | no, one or two datasources of 30 kinds, or one and any of 76 settings of authentication; 12 environments | the inductive invariant; what passes the checks is built, as configured, with its warnings and protections |
| `bodies` | bodies of up to 4 lines of 5 kinds, 7 decoders, limits of 1 and 2, lists cut at 1 item, with and without a timeout | the inductive invariant; nothing is hidden; answers and errors are those of `ClientDecode`; reading ends |
| `lost_id`, `words`, `redirected`, `auth_scopes` | smallest instances | violations: where the code does other than a comment or a document says (see `findings`) |

In `lifecycle` one request is enough for readiness and lists, because requests meet only at
shutdown, and there one of them is enough to hang; a scrape that hangs is a request of
another kind. Of the faults only `silent` is in the run, as a bad datasource differs from a
silent one only by answering sooner; `LifecycleProofs` covers both, and any number of
requests.

`redirected` is the case that `AnswerTrue` and `ImplementsService` have to leave out: a proxy
(an ingress that moves to https, a login page) answers a DELETE with a 301, 302 or 303, the
client asks the new address with a GET, and its 2xx makes the answer "deleted silence",
though nothing was deleted. A create has the same weakness where that 2xx is empty or a JSON
object.

More divergences are plain from the code and have no run: the dashboard says "deny = 401s"
(`deploy/helm/observability-mcp/dashboards/observability-mcp.json:169`), but the OIDC
verifier's errors do not wrap `ErrInvalidToken` (`oidc.go:54`), so counted denials are 500s,
and a request without a token is a 401 that is never counted (both are in `AgentAuth`); `datasourceLabel` says it returns
the resolved name (`instrument.go:25`) but labels with any name asked for, and
`alertmanager_silence_create` offers to "create (or update)" (`tools_alertmanager.go:21`)
but never sends an ID, so a repeated create makes a second silence. The signal cancels the
context of the probe (`main.go:163`), so a sweep that is under way marks healthy datasources
as down, and `omcp_datasource_up` is 0 for the rest of the process, where
`docs/metrics.md:15` calls it "Reachability (1/0)". And an agent with an open event stream
makes each shutdown last ten seconds and end with an error.

Of decoding and printing: `maxRows` "caps rendered rows" (`format.go:15`), but log records,
alert groups and receivers are printed without a cap, metadata caps names and not their
entries, and the headers of rule groups are not counted. A value list ends at 1000 values
with no note, a log limit above 1000 is lowered in silence, records without a string vanish
from lists, lines that do not decode are skipped. The scanner wants one line more than the
limit, and an error in that line fails a query that had all it asked for. `targets_list`
decodes active targets only, so `state=dropped` always shows none. A silence is printed with
`=` where its matcher has `isEqual: false` and no regular expression, and the duration of a
new one counts from `startsAt` where the tool says "from now" (`tools_alertmanager.go:130`).

Of the configuration: a switch such as `OMCP_READ_ONLY=yes` does not parse and is ignored;
`OMCP_AUTH_STATIC_TOKEN` turns the static verifier on, and with it the tokens of a file that
had it off, but not authentication; keys that are misspelt in YAML are ignored; `jwksUrl` is
there for issuers without discovery (`oidc.go:36`), but discovery is asked first and its
failure ends start-up.

Bounds. Two calls suffice for every pair of steps of two actors, among them a delete that
names the silence the other call is creating; three add a retry to that pair. One rotation
separates "before" from "after"; two of them move a secret between two files. Handlers hold
no state between calls, so more calls only repeat these patterns, and the proofs below do
not depend on the number. `Calls` and `Requests` are symmetric where only safety is checked.
Four lines leave room for a full list, the line looked at after it, one that is skipped and
a torn one; limits of one and two are below, at and above the cap of one row. Every check of
`Validate` looks at one datasource or at two names, so two datasources suffice, with two
spoilt settings at most. One redirect followed shows a repeated and a rewritten request,
with the second round trip as open to failure as the first; more of them repeat that. Which
names and tools meet which redirects and statuses is spread over the runs: `calls` has the
metrics client, both Alertmanagers and both redirects with one kind of error status, as the
clients ask only whether a status is 2xx; `kill_switch` has every status, as the counter
keeps them apart, and the logs client; `retries` leaves redirects to `calls` and has a third
call and a name that is not known. `MaxFollowed` (9 in `net/http`), `MaxRotations` and
`MaxLines` are the bounds in guards.

Deadlock is checked in every run but `bodies`: `Finished` (`Over` in `Config`) is the only
way to stop, and it wants every call answered (every request done, the process exited, the
server built or refused). That is weaker than liveness, as the environment can always act. A
body of `Bodies` may stay open for ever where no timeout applies, and after the answer
nothing is left to do: there the check is off, and `QueryEnds` says when reading must end.

Fairness (`kill_switch`). Weak fairness of `Send` or `SendFails` and of `Record` for each
call: the Go scheduler runs every runnable goroutine, and no handler takes a lock that
another holds over a request. Weak fairness of `Deadline`: `http.Client.Timeout`, if above
zero, covers the wait for the head and the reading of the body. Nothing is assumed of
backends, network or agents, and nothing of datasources without a timeout.

Fairness (`bodies`). Weak fairness of `Decode`, whose goroutine runs when a line is there,
and of `TimesOut`, the timer of a client that has one. Nothing is assumed of the backend: it
may fall silent or send for ever.

Fairness (`lifecycle`). Weak fairness of `MainStep` (the `select`, the two shutdowns and
their timer), of `ProbeStep` and the probe's ticker, of `Ready`, and of `List` where the
ping has a deadline. A ping step is enabled when its datasource has been good or a deadline
applies: an answer that comes is read, a deadline that applies goes off. Nothing is assumed
of clients, of an issuer that `Prepare` waits for, of datasources, nor of a ping with no
deadline. `GaugeFollows` speaks of a datasource that stays as it is; `SignalledExits` of
every signal that is caught, which is from `NotifyContext` on.

## Proofs

`ToolCallsProofs`, for all values of the constants that satisfy `RegistryAssumption` and
`CallsAssumption` (what `Validate` and `Build` guarantee; finitely many calls; names of
calls and foreign silences apart):

* `Invariance`: `PipelineInv` is inductive. That answers are true needs more than itself:
  what was sent passed the guards and is on the wire or has a reply, never both
  (`OnlyPassedSent`); a POST on the wire has made nothing yet (`UnsentUnmade`) and an ID
  names one silence (`OneSilencePerId`), so a delete is not undone by a late create;
  therefore a 2xx to an order that no redirect has turned into a GET is given only when the
  order is in effect, and that is stable (`RepliesTrue`); and an answer rests on a 2xx
  (`AnswersBacked`).
* `TypeCorrect`, `AnswersAreTrue`: from it.
* `GuardHolds`: only `Apply` touches silences, only of what is on the wire, and that passed
  the guards (`StepUntouched`).
* `ProtectedStaysIntact`: from the same lemma and `Init`, for all time: a protected
  datasource has exactly the silences that others had made on it before.
* `Implementation`: `Guard` maps to placing an order, `Apply` to taking effect, a `Follow`
  that rewrites to being turned away, `Record` to the answer, everything else to a stutter; a
  step is allowed by `PipelineInv`.

`CountingProofs`, over `PipelineInv` and under the same assumptions:

* `CallsAreCounted`, `RequestsAreCounted`: a counter is the size of a set of calls
  (`CallSets`, `RequestSets`), and the one step that adds to the set is the one that counts.
  That the second set never loses or moves a call needs that a call past its reply keeps
  that reply and has nothing to return before its end (`EndsGrounded`). The redirects
  followed are a second set, of pairs of a call and a hop.
* `BlockedCountsMatch`: the same for blocked writes, under `QuietWords`: no name holds a
  word that `classifyResult` looks for, and no outside error says "read-only". The run
  `words` is what happens without it.
* `CredentialsAreFresh`: `CredentialInv` carries the version from `Guard` to `Send`;
  versions only grow.

`AgentAuthProofs`, under `AuthAssumption`:

* `Invariance`: `AuthInv`. While a request is in flight `held` covers and `kept` agrees with
  the files' contents (`HistoryTrue`); a file in `kept` has not been passed over
  (`KeptUnread`); each acceptance has its ground and grants what the credential carries, and
  nothing is answered before (`AllowanceGrounded`).
* `TypeCorrect`, `ServiceIsSound`, `StableSecretsAreAllowed`: from it.
* `VerificationsAreCounted`: each outcome's counter is the size of the set of requests it
  decided (`Tallies`); accepting and refusing decide a request, once, and no other step
  does.

`AuthServiceProofs`, over `AuthInv`:

* `Implementation`: `Arrive` presents; `CheckInline`, `ReadFile` and `VerifyOIDC` accept at
  the instant the credential is found good (`AllowanceGrounded` and the present contents), or
  stutter; a refusal is allowed as the secret was neither inline nor kept in a file
  (`KeptUnread`, `StableSecretAllowed`); `Admit` serves or dismisses, by `granted` being what
  the credential carries; rotation and expiry map to themselves.
* `EitherAcceptsUnscoped`: the sentence of `docs/auth.md:111` that the run `auth_scopes`
  refutes is right where `RequiredScopes` is empty, for any number of requests.

`LifecycleProofs`, under `LifecycleAssumption` (some datasources, one of them the default;
some of them bounded; any set of requests):

* `Invariance`: `LifeInv`. `ReadinessGrounded` needs that an open `/readyz` pings the default
  and has seen exactly what it was since the request came (`RequestGrounded`: `seen` is
  `since`), and that both stay as they are after the answer. `CleanExit` needs that
  nothing is cut before the end. `CutOnlyLate` needs that the second shutdown begins only
  when no scrape is open or the time is up, and that the metrics port stays closed from then
  on (`StageGrounded`).
* `ReadinessIsGrounded`, `SuccessIsClean`, `CutsAreLate`: from it.
* `Implementation`: each way to `Exit` is an end of the service (`EndMaps`), with success only
  if all that is still open are scrapes, and those only when the time is up; signal, clock
  and main listener are its turns, of a process that runs (`StageGrounded`); `Ready` answers
  by `since`, which is what its ping has seen; probe, metrics listener, other datasources and
  the first shutdown are unseen (`Unseen`).

`ConfigProofs`, under `ConfigAssumption` (what files and environments can say at all), for
lists of any length:

* `SpecConfigInv`: `ConfigInv`. From `Load` on, the configuration in memory is the file's
  with overrides and defaults, and valid (`Loaded`); the registry and the token maps hold
  what comes of the entries before `next`, each from an entry of its name (`RegistryBuilt`,
  `TokensBuilt`), and the chain what was enabled (`VerifiersBuilt`). That a name has one
  entry is `NamesDiffer` in `Valid`.
* `SpecBuiltAsConfigured`, `SpecLateFailures`, `SpecInsecureIsSaid`,
  `SpecProtectionKept`: from it. The first contains `RegistryAssumption`.

`BodiesProofs`, under `BodiesAssumption`, for any limits:

* `SpecBodiesInv`: `BodiesInv`. What is kept are the records among the lines dealt with, in
  order (`FirstRecords`), no junk among them where all must decode (`PassedOver`); an answer
  has come at the limit, at the end of a whole body, or from a reply lost unread
  (`AnswerGrounded`), an error from junk, a line too long or a lost body (`ErrorGrounded`).
* `SpecCutIsTold`: from it; a list without a note has no more items than rows.
* `SpecDecodesAsStated`: from it, decoder by decoder: an answer has a reply that fits and
  was received in whole (an Alertmanager's also none of it), an error has one that does not
  fit or was not.

Only model-checked: liveness (`BoundedCallsAnswered`, `SignalledExits`, `GaugeFollows`,
`PingsEnd`, `QueryEnds`). Out of the prover's reach, and so TLC's for good: liveness under
fairness, `ENABLED`, and what a recursive definition computes for every input (induction
over data).

## Not modelled, and the plan

Every invariant and action property that a passing run checks is also proved. What is left
is small or not the program's own:

* the window of a silence (start, duration, end, cut to seconds;
  `tools_alertmanager.go:150-182`): one call's arithmetic, without state;
* the contents of records: result types of Prometheus, fields of alerts, which string stands
  for a record without a "value" (the order of a map), the order of what is printed;
* query parameters, which are passed through;
* the reading of YAML, listen addresses, the path prefix, log levels beyond good or bad, the
  parsing of claims;
* latency histograms, build information, logging;
* the SDK's sessions and JSON-RPC, `net/http` beyond its redirects and timeouts, TLS, the Helm chart and the end-to-end test.

Worth proving next: what the abstract services promise over time, from their own
specifications alone (of `SilenceService`: an order answered "done" stays in effect, and no
silence is lost or active again); that `Config` with a valid authentication satisfies
`AuthAssumption`, which here is by the shape of `ValidAuth`; and the refinement of `Prepare`
by `Config`.

With `auth.enabled` unset the middleware passes everything through, and there is nothing to
check. In `return out, c.do(..., &out)` Go leaves open whether `out` is read before the
call; the compiler reads it after, and so does the model.
