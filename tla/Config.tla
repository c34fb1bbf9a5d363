------------------------------- MODULE Config -------------------------------
(***************************************************************************)
(* From the configuration file to a server that can serve: config.Load     *)
(* with its overrides, defaults and checks, the warnings, datasources.Build *)
(* with the HTTP client of each datasource, and auth.Build with its        *)
(* verifiers, in the order of main.run.  What Registry and AgentAuth take  *)
(* for granted is established here.                                        *)
(*                                                                         *)
(* A string is the class that the checks put it in.  Files that are read   *)
(* while the parts are built, certificates and the discovery of the issuer *)
(* may fail at any time; the discovery may also never end.  The addresses, *)
(* the path prefix and what required scopes and groups say are left out.   *)
(***************************************************************************)
EXTENDS Naturals, Sequences

CONSTANTS
    Names,           \* names that files and environments give to datasources,
    Labels,          \* those of them that are DNS labels,
    NoName,          \* and the empty one
    TokenNames,      \* names that files give to static tokens
    EnvName,         \* "env", the name of the token of the environment
    NoTokenName,     \* the empty one
    FileConfigs,     \* what the file may say; one that is not given says nothing
    Environments     \* what the OMCP_* variables may say

Types == {"victoriametrics", "prometheus", "victorialogs", "alertmanager"}

\* Where secrets and certificates come from; valid settings name one place.
Places == {"inline", "file"}
OnePlace == {{"inline"}, {"file"}}

\* What the trust in a datasource rests on: a file, inline data that is base64 of
\* certificates, inline data that is not.
Authorities == {ca \in SUBSET {"file", "pem", "junk"} : ~ {"pem", "junk"} \subseteq ca}

Datasources ==
    [name : Names, type : Types \cup {"unknown"}, url : {"http", "https", "unusable"},
     timeout : {"", "positive", "none", "junk"}, insecure : BOOLEAN, ca : Authorities,
     basic : BOOLEAN, bearer : BOOLEAN, user : BOOLEAN, secret : SUBSET Places,
     readOnly : BOOLEAN]

Tokens == [name : TokenNames, from : SUBSET Places]

Auths ==
    [enabled : BOOLEAN, static : BOOLEAN, tokens : Seq(Tokens), oidc : BOOLEAN,
     issuer : {"", "https", "other"}, audience : {"", "uri", "other"},
     resource : {"", "uri", "other"}, metadata : BOOLEAN]

Configs ==
    [logLevel : {"", "known", "other"}, datasources : Seq(Datasources), default : Names,
     readOnly : BOOLEAN, auth : Auths]

\* A switch in the environment: one that strconv.ParseBool does not know is junk.
Switches == {"unset", "true", "false", "junk"}

Envs ==
    [logLevel : {"", "known", "other"}, default : Names, readOnly : Switches,
     auth : Switches, token : BOOLEAN, issuer : {"", "https", "other"},
     audience : {"", "uri", "other"}, resource : {"", "uri", "other"}]

ASSUME ConfigAssumption ==
    /\ Labels \subseteq Names
    /\ NoName \in Names \ Labels
    /\ {EnvName, NoTokenName} \subseteq TokenNames
    /\ EnvName # NoTokenName
    /\ FileConfigs \subseteq Configs
    /\ Environments \subseteq Envs

VARIABLES
    file, env,     \* what the file and the environment say
    cfg,           \* the Config in memory
    stage,         \* where main.run is
    why,           \* why it ended, or "none"
    next,          \* the datasource, then the token, whose turn it is
    registry,      \* Registry.datasources: what is built of each, by its name
    inline, files, \* the maps of the static verifier, by the names of the tokens
    verifiers,     \* the chain of auth.Build
    warned         \* the warnings logged

vars == <<file, env, cfg, stage, why, next, registry, inline, files, verifiers, warned>>

-----------------------------------------------------------------------------

(***************************** config.Load *********************************)

\* As if the error of ParseBool were not looked at.
BugJunkIsFalse(switch, value) == IF switch = "unset" THEN value ELSE switch = "true"

Switched(switch, value) == IF switch \in {"true", "false"} THEN switch = "true" ELSE value

Or(override, value, none) == IF override = none THEN value ELSE override

\* applyEnv, the part on agent authentication.  A token or an issuer turns its
\* verifier on, but not the authentication.
OverriddenAuth(a) ==
    [enabled  |-> Switched(env.auth, a.enabled),
     static   |-> IF env.token THEN TRUE ELSE a.static,
     tokens   |-> IF env.token
                  THEN Append(a.tokens, [name |-> EnvName, from |-> {"inline"}]) ELSE a.tokens,
     oidc     |-> IF env.issuer # "" THEN TRUE ELSE a.oidc,
     issuer   |-> Or(env.issuer, a.issuer, ""),
     audience |-> Or(env.audience, a.audience, ""),
     resource |-> Or(env.resource, a.resource, ""),
     metadata |-> a.metadata]

Overridden(c) ==
    [c EXCEPT !.logLevel = Or(env.logLevel, @, ""),
              !.default  = Or(env.default, @, NoName),
              !.readOnly = Switched(env.readOnly, @),
              !.auth     = OverriddenAuth(@)]

Timed(s) == [i \in DOMAIN s |-> [s[i] EXCEPT !.timeout = Or(@, "positive", "")]]

\* A single datasource is the default if none is named.
DefaultOf(c) ==
    IF c.default = NoName /\ Len(c.datasources) = 1 THEN c.datasources[1].name ELSE c.default

\* applyDefaults.
Defaulted(c) ==
    [c EXCEPT !.logLevel    = Or(@, "known", ""),
              !.datasources = Timed(@),
              !.default     = DefaultOf(c)]

\* As if any type would do.
BugAnyType(d) == TRUE

\* validTypes.
KnownType(d) == d.type \in Types

\* Inline certificates are not looked at.
ValidDatasource(d) ==
    /\ d.name \in Labels
    /\ KnownType(d)
    /\ d.url # "unusable"
    /\ d.timeout # "junk"
    /\ d.insecure => d.ca = {}
    /\ ~ (d.basic /\ d.bearer)
    /\ d.basic => d.user
    /\ d.basic \/ d.bearer => d.secret \in OnePlace

\* As if the names were not compared.
BugNamesRepeat(s) == TRUE

NamesDiffer(s) == \A i, j \in DOMAIN s : s[i].name = s[j].name => i = j

\* AuthOIDC.ResourceIdentifier.
Resource(a) == Or(a.resource, a.audience, "")

ValidAuth(a) ==
    a.enabled =>
        /\ a.static \/ a.oidc
        /\ a.static =>
              /\ a.tokens # <<>>
              /\ \A i \in DOMAIN a.tokens :
                    a.tokens[i].name # NoTokenName /\ a.tokens[i].from \in OnePlace
              /\ NamesDiffer(a.tokens)
        /\ a.oidc =>
              /\ a.issuer = "https"
              /\ a.audience # ""
              /\ a.metadata => Resource(a) = "uri"

NamesOf(c) == {c.datasources[i].name : i \in DOMAIN c.datasources}

\* As if only an empty default were refused.
BugDefaultUnchecked(c) == c.default # NoName

DefaultKnown(c) == c.default \in NamesOf(c)

\* Validate.  (No datasources at all: then there is no default either.)
Valid(c) ==
    /\ c.logLevel = "known"
    /\ \A i \in DOMAIN c.datasources : ValidDatasource(c.datasources[i])
    /\ NamesDiffer(c.datasources)
    /\ DefaultKnown(c)
    /\ ValidAuth(c.auth)

\* As if the warnings were written before the environment had a token.
BugFileTokensOnly(c) ==
    {<<"token", file.auth.tokens[i].name>> :
        i \in {i \in DOMAIN file.auth.tokens : "inline" \in file.auth.tokens[i].from}}

TokenWarnings(c) ==
    {<<"token", c.auth.tokens[i].name>> :
        i \in {i \in DOMAIN c.auth.tokens : c.auth.static /\ "inline" \in c.auth.tokens[i].from}}

\* Warnings, without the one that auth is enabled.
Warnings(c) ==
    {<<"insecure", c.datasources[i].name>> :
        i \in {i \in DOMAIN c.datasources : c.datasources[i].insecure}}
    \cup
    {<<"secret", c.datasources[i].name>> :
        i \in {i \in DOMAIN c.datasources :
                  /\ c.datasources[i].basic \/ c.datasources[i].bearer
                  /\ "inline" \in c.datasources[i].secret}}
    \cup TokenWarnings(c)

End(at, reason) == stage' = at /\ why' = reason

\* config.Load and the warnings, in one go: nothing else happens meanwhile.
Load ==
    /\ stage = "start"
    /\ \/ /\ End("refused", "file")
          /\ UNCHANGED <<cfg, warned>>
       \/ /\ cfg' = Defaulted(Overridden(file))
          /\ IF Valid(cfg')
             THEN stage' = "build" /\ warned' = Warnings(cfg') /\ UNCHANGED why
             ELSE End("refused", "invalid") /\ UNCHANGED warned
    /\ UNCHANGED <<file, env, next, registry, inline, files, verifiers>>

-----------------------------------------------------------------------------

(*************************** datasources.Build *****************************)

\* The trust of buildHTTPClient: certificates are not looked at, those of the
\* configured CA, or those of the system.
Roots(d) == IF d.insecure THEN "unverified" ELSE IF d.ca # {} THEN "own" ELSE "system"

\* valueOrFile: the file goes before the inline value.
SecretFrom(d) ==
    IF ~ (d.basic \/ d.bearer) THEN "none" ELSE IF "file" \in d.secret THEN "file" ELSE "inline"

\* newDatasource.  A timeout of zero or less is none for net/http.
Built(d) ==
    [type |-> d.type, readOnly |-> d.readOnly, bounded |-> d.timeout = "positive",
     roots |-> Roots(d), secret |-> SecretFrom(d)]

\* The file goes before inline data, which is then not read at all.
OnlyJunk(d) == ~ d.insecure /\ d.ca = {"junk"}

\* loadCACertPool may fail on the file and does fail on inline data that is junk.
BuildDatasource ==
    /\ stage = "build" /\ next <= Len(cfg.datasources)
    /\ LET d == cfg.datasources[next]
       IN  \/ /\ Roots(d) = "own"
              /\ \/ "file" \in d.ca /\ End("failed", "ca")
                 \/ OnlyJunk(d) /\ End("failed", "caData")
              /\ UNCHANGED <<next, registry>>
           \/ /\ ~ OnlyJunk(d)
              /\ IF d.timeout = "junk"
                 THEN End("failed", "timeout") /\ UNCHANGED <<next, registry>>
                 ELSE /\ registry' = [n \in DOMAIN registry \cup {d.name} |->
                                        IF n = d.name THEN Built(d) ELSE registry[n]]
                      /\ next' = next + 1
                      /\ UNCHANGED <<stage, why>>
    /\ UNCHANGED <<file, env, cfg, inline, files, verifiers, warned>>

\* The last check of Build.
DatasourcesBuilt ==
    /\ stage = "build" /\ next > Len(cfg.datasources)
    /\ IF cfg.default \in DOMAIN registry
       THEN stage' = "auth" /\ next' = 1 /\ UNCHANGED why
       ELSE End("failed", "default") /\ UNCHANGED next
    /\ UNCHANGED <<file, env, cfg, registry, inline, files, verifiers, warned>>

-----------------------------------------------------------------------------

(******************************* auth.Build ********************************)

\* Without auth.enabled everything passes.
AuthDisabled ==
    /\ stage = "auth" /\ ~ cfg.auth.enabled
    /\ stage' = "ready"
    /\ UNCHANGED <<file, env, cfg, why, next, registry, inline, files, verifiers, warned>>

\* newStaticVerifier: a token of a file is read once, to see that it can be.
AddToken ==
    /\ stage = "auth" /\ cfg.auth.enabled /\ cfg.auth.static
    /\ next <= Len(cfg.auth.tokens)
    /\ LET t == cfg.auth.tokens[next]
       IN  \/ /\ "file" \in t.from
              /\ End("failed", "token")
              /\ UNCHANGED <<next, inline, files>>
           \/ /\ files' = IF "file" \in t.from THEN files \cup {t.name} ELSE files
              /\ inline' = IF t.from = {"inline"} THEN inline \cup {t.name} ELSE inline
              /\ next' = next + 1
              /\ UNCHANGED <<stage, why>>
    /\ UNCHANGED <<file, env, cfg, registry, verifiers, warned>>

TokensAdded ==
    /\ stage = "auth" /\ cfg.auth.enabled
    /\ cfg.auth.static => next > Len(cfg.auth.tokens)
    /\ verifiers' = IF cfg.auth.static THEN {"static"} ELSE {}
    /\ stage' = IF cfg.auth.oidc THEN "discover" ELSE "chain"
    /\ UNCHANGED <<file, env, cfg, why, next, registry, inline, files, warned>>

\* newOIDCVerifier asks the issuer first, an explicit jwksUrl or not; then the
\* URL of the resource metadata is made.
Discover ==
    /\ stage = "discover"
    /\ \/ /\ End("failed", "issuer")
          /\ UNCHANGED verifiers
       \/ /\ verifiers' = verifiers \cup {"oidc"}
          /\ IF cfg.auth.metadata /\ Resource(cfg.auth) # "uri"
             THEN End("failed", "resource")
             ELSE stage' = "chain" /\ UNCHANGED why
    /\ UNCHANGED <<file, env, cfg, next, registry, inline, files, warned>>

Chain ==
    /\ stage = "chain"
    /\ IF verifiers = {} THEN End("failed", "verifier") ELSE stage' = "ready" /\ UNCHANGED why
    /\ UNCHANGED <<file, env, cfg, next, registry, inline, files, verifiers, warned>>

-----------------------------------------------------------------------------

Init ==
    /\ file \in FileConfigs /\ env \in Environments
    /\ cfg = file
    /\ stage = "start" /\ why = "none" /\ next = 1
    /\ registry = [n \in {} |-> {}]
    /\ inline = {} /\ files = {} /\ verifiers = {} /\ warned = {}

\* The server goes on, or the process has ended.
Over == stage \in {"refused", "failed", "ready"} /\ UNCHANGED vars

Next ==
    \/ Load \/ BuildDatasource \/ DatasourcesBuilt
    \/ AuthDisabled \/ AddToken \/ TokensAdded \/ Discover \/ Chain \/ Over

Spec == Init /\ [][Next]_vars

-----------------------------------------------------------------------------

(****************************** properties *********************************)

Stages == {"start", "refused", "build", "failed", "auth", "discover", "chain", "ready"}
Entries == [type : Types, readOnly : BOOLEAN, bounded : BOOLEAN,
            roots : {"unverified", "own", "system"}, secret : {"none", "inline", "file"}]

TypeOK ==
    /\ file \in FileConfigs /\ env \in Environments /\ cfg \in Configs
    /\ stage \in Stages
    /\ why \in {"none", "file", "invalid", "ca", "caData", "timeout", "default", "token",
                "issuer", "resource", "verifier"}
    /\ next \in Nat \ {0}
    /\ DOMAIN registry \subseteq Names /\ \A n \in DOMAIN registry : registry[n] \in Entries
    /\ inline \subseteq TokenNames /\ files \subseteq TokenNames
    /\ verifiers \subseteq {"static", "oidc"}

\* The registry as the other modules see it: the configured names, and for each
\* what the registry holds under it.
R == INSTANCE Registry WITH
        Names          <- NamesOf(cfg),
        DefaultName    <- cfg.default,
        TypeOf         <- [n \in DOMAIN registry |-> registry[n].type],
        ReadOnlyNames  <- {n \in DOMAIN registry : registry[n].readOnly},
        GlobalReadOnly <- cfg.readOnly,
        BoundedNames   <- {n \in DOMAIN registry : registry[n].bounded},
        FileCredNames  <- {n \in DOMAIN registry : registry[n].secret = "file"}

\* What is built is what was configured: the registry is as the tool handlers
\* take it to be, no datasource stands under the name of another, and an
\* authentication that is enabled has a verifier and every token in one map.
BuiltAsConfigured ==
    /\ stage \in {"auth", "discover", "chain", "ready"} =>
          /\ R!RegistryAssumption
          /\ \A i \in DOMAIN cfg.datasources :
                registry[cfg.datasources[i].name] = Built(cfg.datasources[i])
    /\ stage = "ready" /\ cfg.auth.enabled =>
          /\ verifiers # {}
          /\ verifiers = {v \in {"static", "oidc"} :
                              IF v = "static" THEN cfg.auth.static ELSE cfg.auth.oidc}
          /\ cfg.auth.static =>
                \A i \in DOMAIN cfg.auth.tokens :
                    LET t == cfg.auth.tokens[i]
                    IN  /\ t.name \in inline <=> t.from = {"inline"}
                        /\ t.name \in files <=> t.from = {"file"}

\* What Validate lets pass fails on its way to a server by what lies outside the
\* configuration, or by inline certificates, the one setting that Validate does not
\* look into; no other check that comes later can fail.  And a configuration with
\* such certificates never gets as far as the authentication.
LateFailures ==
    /\ why \in {"none", "file", "invalid", "ca", "caData", "token", "issuer"}
    /\ (\E i \in DOMAIN cfg.datasources : OnlyJunk(cfg.datasources[i])) =>
          stage \notin {"auth", "discover", "chain", "ready"}
    /\ why = "caData" => \E i \in DOMAIN cfg.datasources : OnlyJunk(cfg.datasources[i])

\* The inductive invariant.  The configuration in memory is that of the file, the
\* environment and the defaults, and it has passed the checks; what is built so
\* far is what comes of the datasources and tokens before the next one.
Loaded ==
    IF stage \in {"start", "refused"}
    THEN registry = [n \in {} |-> {}] /\ warned = {} /\ next = 1 /\ why # "caData"
    ELSE cfg = Defaulted(Overridden(file)) /\ Valid(cfg) /\ warned = Warnings(cfg)

RegistryBuilt ==
    /\ \A n \in DOMAIN registry : \E i \in DOMAIN cfg.datasources :
          n = cfg.datasources[i].name /\ registry[n] = Built(cfg.datasources[i])
    /\ \A i \in DOMAIN cfg.datasources :
          (stage = "build" /\ i < next) \/ stage \in {"auth", "discover", "chain", "ready"} =>
              cfg.datasources[i].name \in DOMAIN registry /\ ~ OnlyJunk(cfg.datasources[i])

TokensBuilt ==
    /\ stage \in {"start", "refused", "build"} => inline = {} /\ files = {}
    /\ inline # {} \/ files # {} => cfg.auth.enabled /\ cfg.auth.static
    /\ \A n \in inline : \E i \in DOMAIN cfg.auth.tokens :
          cfg.auth.tokens[i] = [name |-> n, from |-> {"inline"}]
    /\ \A n \in files : \E i \in DOMAIN cfg.auth.tokens :
          cfg.auth.tokens[i] = [name |-> n, from |-> {"file"}]
    /\ cfg.auth.enabled /\ cfg.auth.static =>
          \A i \in DOMAIN cfg.auth.tokens :
              (stage = "auth" /\ i < next) \/ stage \in {"discover", "chain", "ready"} =>
                  cfg.auth.tokens[i].name \in inline \cup files

VerifiersBuilt ==
    /\ stage \in {"start", "refused", "build", "auth"} => verifiers = {}
    /\ stage \in {"discover", "chain"} => cfg.auth.enabled
    /\ stage = "discover" => cfg.auth.oidc
    /\ "static" \in verifiers => cfg.auth.static
    /\ "oidc" \in verifiers => cfg.auth.oidc
    /\ stage \in {"discover", "chain", "ready"} /\ cfg.auth.enabled /\ cfg.auth.static =>
          "static" \in verifiers
    /\ stage \in {"chain", "ready"} /\ cfg.auth.enabled /\ cfg.auth.oidc => "oidc" \in verifiers

ConfigInv == TypeOK /\ Loaded /\ RegistryBuilt /\ TokensBuilt /\ VerifiersBuilt /\ LateFailures

\* Every datasource whose certificates are not looked at and every secret in the
\* clear that the server uses was warned of before anything was built.
InsecureIsSaid ==
    /\ \A n \in DOMAIN registry :
          /\ registry[n].roots = "unverified" => <<"insecure", n>> \in warned
          /\ registry[n].secret = "inline" => <<"secret", n>> \in warned
    /\ \A n \in inline : <<"token", n>> \in warned

\* A server writes, or lets everyone in, only where the environment says so in
\* words that are understood or else the file does: an override that cannot be
\* parsed takes no protection away.
ProtectionKept ==
    stage = "ready" =>
        /\ ~ cfg.readOnly => env.readOnly = "false" \/ (env.readOnly # "true" /\ ~ file.readOnly)
        /\ ~ cfg.auth.enabled => env.auth = "false" \/ (env.auth # "true" /\ ~ file.auth.enabled)

=============================================================================
