------------------------------ MODULE AgentAuth ------------------------------
(***************************************************************************)
(* Agent authentication: the middleware that auth.Build puts in front of   *)
(* /mcp when auth.enabled is set (else it lets everything pass).  Requests *)
(* are verified concurrently.  The static verifier reads the token files   *)
(* one after the other while the secret operator rewrites them; the OIDC   *)
(* verifier looks at a token that may expire meanwhile; the SDK's          *)
(* RequireBearerToken has the last word.                                   *)
(***************************************************************************)
EXTENDS FiniteSets, Naturals

CONSTANTS
    Requests,        \* the requests to /mcp
    Secrets,         \* values of static tokens
    Inline,          \* the static tokens given inline in the config
    Files,           \* the token files
    FirstContent,    \* what each file holds at start-up
    JWTs,            \* access tokens of the OIDC provider, and forgeries
    Genuine,         \* those with the right signature, issuer and audience
    ScopesOf,        \* the scopes each JWT carries,
    GroupsOf,        \* and the groups
    NoBearer,        \* a request without a bearer token
    StaticEnabled,   \* auth.static.enabled
    OIDCEnabled,     \* auth.oidc.enabled
    RequiredScopes,  \* auth.oidc.requiredScopes
    RequiredGroups,  \* auth.oidc.requiredGroups
    MaxRotations     \* bound: how often the files are rewritten, in all

Unreadable == "unreadable"

\* config.Validate, auth.Build and newStaticVerifier refuse to start otherwise.
ASSUME AuthAssumption ==
    /\ IsFiniteSet(Requests)
    /\ Inline \subseteq Secrets
    /\ FirstContent \in [Files -> Secrets]
    /\ Genuine \subseteq JWTs
    /\ Secrets \cap JWTs = {}
    /\ NoBearer \notin Secrets \cup JWTs
    /\ Unreadable \notin Secrets \cup JWTs \cup {NoBearer}
    /\ {StaticEnabled, OIDCEnabled} \subseteq BOOLEAN
    /\ StaticEnabled \/ OIDCEnabled
    /\ ~ OIDCEnabled => RequiredScopes = {} /\ RequiredGroups = {}
    /\ MaxRotations \in Nat

VARIABLES
    content,       \* what each token file holds now
    rotations,     \* how often the files have been rewritten
    expired,       \* the JWTs past their expiry
    pc,            \* where each request is
    cred,          \* the credential it presents
    todo,          \* the files that the static verifier has yet to read for it
    granted,       \* the scopes of the TokenInfo that the verifier returned
    allowedBy,     \* the verifier that accepted it
    status,        \* the HTTP status it is answered with
    authRequests,  \* omcp_auth_requests_total, by method and result
    held,          \* history: the secrets in some file at some time since it came
    kept           \* history: the files that have held its secret ever since

requestVars == <<pc, cred, todo, granted, allowedBy, status>>
historyVars == <<held, kept>>
vars == <<content, rotations, expired, requestVars, authRequests, historyVars>>

Credentials == Secrets \cup JWTs \cup {NoBearer}
Outcomes    == {"static_allow", "oidc_allow", "none_deny"}

-----------------------------------------------------------------------------

(******************************* the chain *********************************)

\* As if every verifier that refuses counted a denial.
BugDenyPerVerifier(outcome) ==
    authRequests' = [o \in Outcomes |->
        IF o = outcome \/ (o = "none_deny" /\ outcome = "oidc_allow")
        THEN authRequests[o] + 1 ELSE authRequests[o]]

\* RecordAuth.
CountAuth(outcome) == authRequests' = [authRequests EXCEPT ![outcome] = @ + 1]

\* The chain accepts: the first verifier to do so decides.
Accept(r, outcome, scopes) ==
    /\ CountAuth(outcome)
    /\ granted' = [granted EXCEPT ![r] = scopes]
    /\ allowedBy' = [allowedBy EXCEPT ![r] = outcome]
    /\ pc' = [pc EXCEPT ![r] = "verified"]
    /\ UNCHANGED <<cred, todo, status>>

\* As if neither verifier returned the SDK's ErrInvalidToken.
BugOwnErrors(verifier) == 500

\* The SDK answers 401 to ErrInvalidToken, the static verifier's error, and 500
\* to any other, such as the OIDC verifier's.
RefusalCode(verifier) == IF verifier = "static" THEN 401 ELSE 500

\* The chain refuses with the error of the last verifier.
Refuse(r, verifier) ==
    /\ CountAuth("none_deny")
    /\ status' = [status EXCEPT ![r] = RefusalCode(verifier)]
    /\ pc' = [pc EXCEPT ![r] = "done"]
    /\ UNCHANGED <<cred, todo, granted, allowedBy>>

-----------------------------------------------------------------------------

(******************************** requests *********************************)

\* A request arrives.  Without a bearer token the SDK answers 401 and asks no
\* verifier.
Arrive(r, x) ==
    /\ pc[r] = "new"
    /\ cred' = [cred EXCEPT ![r] = x]
    /\ held' = [held EXCEPT ![r] = {content[f] : f \in Files}]
    /\ kept' = [kept EXCEPT ![r] = {f \in Files : content[f] = x}]
    /\ \/ /\ x = NoBearer
          /\ status' = [status EXCEPT ![r] = 401]
          /\ pc' = [pc EXCEPT ![r] = "done"]
       \/ /\ x # NoBearer
          /\ pc' = [pc EXCEPT ![r] = IF StaticEnabled THEN "inline" ELSE "oidc"]
          /\ UNCHANGED status
    /\ UNCHANGED <<content, rotations, expired, todo, granted, allowedBy, authRequests>>

\* staticVerifier.verify: the inline tokens first, then the files.
CheckInline(r) ==
    /\ pc[r] = "inline"
    /\ \/ /\ cred[r] \in Inline
          /\ Accept(r, "static_allow", {})
       \/ /\ cred[r] \notin Inline
          /\ pc' = [pc EXCEPT ![r] = "files"]
          /\ todo' = [todo EXCEPT ![r] = Files]
          /\ UNCHANGED <<cred, granted, allowedBy, status, authRequests>>
    /\ UNCHANGED <<content, rotations, expired, historyVars>>

\* As if the files had been read once, at start-up.
BugFirstContent(f) == FirstContent[f]

\* os.ReadFile with the white space around the token trimmed.
ReadToken(f) == content[f]

\* As if an unreadable file made an end of it.
BugUnreadableEnds(r, f) == IF ReadToken(f) = Unreadable THEN {} ELSE todo[r] \ {f}

\* An unreadable file is skipped like one that holds another token.
Skip(r, f) == todo[r] \ {f}

\* The files are read in no particular order: they are the values of a map.
ReadFile(r, f) ==
    /\ pc[r] = "files"
    /\ f \in todo[r]
    /\ \/ /\ ReadToken(f) = cred[r]
          /\ Accept(r, "static_allow", {})
       \/ /\ ReadToken(f) # cred[r]
          /\ todo' = [todo EXCEPT ![r] = Skip(r, f)]
          /\ UNCHANGED <<pc, cred, granted, allowedBy, status, authRequests>>
    /\ UNCHANGED <<content, rotations, expired, historyVars>>

\* No file held the token: on to the next verifier, if there is one.
StaticMiss(r) ==
    /\ pc[r] = "files"
    /\ todo[r] = {}
    /\ \/ /\ OIDCEnabled
          /\ pc' = [pc EXCEPT ![r] = "oidc"]
          /\ UNCHANGED <<cred, todo, granted, allowedBy, status, authRequests>>
       \/ /\ ~ OIDCEnabled
          /\ Refuse(r, "static")
    /\ UNCHANGED <<content, rotations, expired, historyVars>>

\* The scopes of a credential; a static token has none.
Carries(x) == IF x \in JWTs THEN ScopesOf[x] ELSE {}

\* requireAll, for the scopes and for the groups.
HasAllRequired(j) ==
    /\ RequiredScopes \subseteq ScopesOf[j]
    /\ RequiredGroups \subseteq GroupsOf[j]

\* oidcVerifier.verify.  The provider's keys may be out of reach, so any token
\* can be refused.
VerifyOIDC(r) ==
    /\ pc[r] = "oidc"
    /\ \/ /\ cred[r] \in Genuine \ expired
          /\ HasAllRequired(cred[r])
          /\ Accept(r, "oidc_allow", ScopesOf[cred[r]])
       \/ Refuse(r, "oidc")
    /\ UNCHANGED <<content, rotations, expired, historyVars>>

\* As if only the verifier looked at the expiry.
BugExpiryOnce(r) == IF ~ RequiredScopes \subseteq granted[r] THEN 403 ELSE 200

\* RequireBearerToken, after the verifier: the scopes that the whole middleware
\* demands, then the expiry of the token.
Verdict(r) ==
    IF ~ RequiredScopes \subseteq granted[r] THEN 403
    ELSE IF cred[r] \in expired THEN 401
    ELSE 200

Admit(r) ==
    /\ pc[r] = "verified"
    /\ pc' = [pc EXCEPT ![r] = "done"]
    /\ status' = [status EXCEPT ![r] = Verdict(r)]
    /\ UNCHANGED <<content, rotations, expired, cred, todo, granted, allowedBy,
                   authRequests, historyVars>>

-----------------------------------------------------------------------------

(****************************** the surroundings ***************************)

InFlight(r) == pc[r] \notin {"new", "done"}

\* The secret operator puts another token into a file, or the file cannot be
\* read for a while.
Rotate(f, x) ==
    /\ rotations < MaxRotations
    /\ content[f] # x
    /\ rotations' = rotations + 1
    /\ content' = [content EXCEPT ![f] = x]
    /\ held' = [r \in Requests |-> IF InFlight(r) THEN held[r] \cup {x} ELSE held[r]]
    /\ kept' = [r \in Requests |-> IF InFlight(r) THEN kept[r] \ {f} ELSE kept[r]]
    /\ UNCHANGED <<expired, requestVars, authRequests>>

Expire(j) ==
    /\ j \notin expired
    /\ expired' = expired \cup {j}
    /\ UNCHANGED <<content, rotations, requestVars, authRequests, historyVars>>

Init ==
    /\ content = FirstContent
    /\ rotations = 0
    /\ expired = {}
    /\ pc = [r \in Requests |-> "new"]
    /\ cred = [r \in Requests |-> NoBearer]
    /\ todo = [r \in Requests |-> {}]
    /\ granted = [r \in Requests |-> {}]
    /\ allowedBy = [r \in Requests |-> "nobody"]
    /\ status = [r \in Requests |-> 0]
    /\ authRequests = [o \in Outcomes |-> 0]
    /\ held = [r \in Requests |-> {}]
    /\ kept = [r \in Requests |-> {}]

RequestStep(r) ==
    \/ \E x \in Credentials : Arrive(r, x)
    \/ CheckInline(r)
    \/ \E f \in Files : ReadFile(r, f)
    \/ StaticMiss(r)
    \/ VerifyOIDC(r)
    \/ Admit(r)

Finished == (\A r \in Requests : pc[r] = "done") /\ UNCHANGED vars

Next ==
    \/ \E r \in Requests : RequestStep(r)
    \/ \E f \in Files, x \in Secrets \cup {Unreadable} : Rotate(f, x)
    \/ \E j \in Genuine : Expire(j)
    \/ Finished

Spec == Init /\ [][Next]_vars

-----------------------------------------------------------------------------

(******************************* properties ********************************)

\* Every variable keeps its type; without OIDC no request is answered 500.
TypeOK ==
    /\ content \in [Files -> Secrets \cup {Unreadable}]
    /\ rotations \in 0 .. MaxRotations
    /\ expired \subseteq JWTs
    /\ pc \in [Requests -> {"new", "inline", "files", "oidc", "verified", "done"}]
    /\ cred \in [Requests -> Credentials]
    /\ todo \in [Requests -> SUBSET Files]
    /\ granted \in [Requests -> SUBSET UNION {ScopesOf[j] : j \in JWTs}]
    /\ allowedBy \in [Requests -> {"nobody", "static_allow", "oidc_allow"}]
    /\ status \in [Requests -> {0, 200, 401, 403} \cup (IF OIDCEnabled THEN {500} ELSE {})]
    /\ authRequests \in [Outcomes -> Nat]
    /\ held \in [Requests -> SUBSET (Secrets \cup {Unreadable})]
    /\ kept \in [Requests -> SUBSET Files]

\* A request is served only for a credential that was good at some moment while
\* it was being verified: a secret of the config, a secret that was in a token
\* file since the request came (never one rotated away before, docs/auth.md:19),
\* or a genuine JWT with every required scope and group.
ServedSound ==
    \A r \in Requests : status[r] = 200 =>
        \/ allowedBy[r] = "static_allow" /\ cred[r] \in Inline \cup held[r]
        \/ allowedBy[r] = "oidc_allow" /\ cred[r] \in Genuine /\ HasAllRequired(cred[r])

\* However the other files are rewritten or become unreadable meanwhile, a secret
\* of the config, or one that stays in one file until the answer, is never taken
\* for a wrong one.
StableSecretAllowed ==
    \A r \in Requests :
        StaticEnabled /\ pc[r] \in {"oidc", "verified", "done"} /\ cred[r] # NoBearer
            /\ (cred[r] \in Inline \/ kept[r] # {})
        => allowedBy[r] = "static_allow"

(* Why: the inductive invariant behind the theorems. *)

\* While a request is in flight, the history variables know what the files hold.
HistoryTrue ==
    \A r \in Requests : InFlight(r) =>
        /\ \A f \in Files : content[f] \in held[r]
        /\ \A f \in kept[r] : content[f] = cred[r]

\* A file that has held the secret throughout is not passed over, nor was an
\* inline token.
KeptUnread ==
    \A r \in Requests :
        pc[r] = "files" => kept[r] \subseteq todo[r] /\ cred[r] \notin Inline

\* Only the verifiers of the config are asked, and only about a token.
OnPath ==
    \A r \in Requests :
        /\ pc[r] \in {"inline", "files"} => StaticEnabled
        /\ pc[r] = "oidc" => OIDCEnabled
        /\ InFlight(r) => cred[r] # NoBearer

\* Acceptance has a ground and grants what the credential carries, and only the
\* accepted are served.
AllowanceGrounded ==
    \A r \in Requests :
        /\ allowedBy[r] = "static_allow" => cred[r] \in Inline \cup held[r]
        /\ allowedBy[r] = "oidc_allow" => cred[r] \in Genuine /\ HasAllRequired(cred[r])
        /\ status[r] = 200 => allowedBy[r] # "nobody"
        /\ pc[r] = "verified" =>
               allowedBy[r] # "nobody" /\ status[r] = 0 /\ granted[r] = Carries(cred[r])
        /\ pc[r] \in {"new", "inline", "files", "oidc"} =>
               allowedBy[r] = "nobody" /\ status[r] = 0

AuthInv ==
    /\ TypeOK
    /\ HistoryTrue
    /\ KeptUnread
    /\ OnPath
    /\ AllowanceGrounded
    /\ StableSecretAllowed

\* The middleware implements the service of module AuthService.
PhaseOf(r) ==
    CASE pc[r] = "new" -> "new"
      [] pc[r] = "verified" -> "accepted"
      [] pc[r] = "done" -> IF status[r] = 200 THEN "served" ELSE "refused"
      [] OTHER -> "open"

Service == INSTANCE AuthService WITH
    Contents   <- Secrets \cup {Unreadable},
    Static     <- StaticEnabled,
    Always     <- Inline,
    Passes     <- IF OIDCEnabled THEN {j \in Genuine : HasAllRequired(j)} ELSE {},
    Sufficient <- {x \in Credentials : RequiredScopes \subseteq Carries(x)},
    phase      <- [r \in Requests |-> PhaseOf(r)]

\* Reading one file after the other while they are rewritten never accepts what
\* was not good at one instant, nor refuses what was good in one place throughout.
ImplementsAuth == Service!Spec

\* Each request whose token was looked at is counted once, under its outcome.
VerifiedCounted ==
    /\ \A o \in Outcomes \ {"none_deny"} :
          authRequests[o] = Cardinality({r \in Requests : allowedBy[r] = o})
    /\ authRequests["none_deny"] =
          Cardinality({r \in Requests : /\ cred[r] # NoBearer
                                        /\ pc[r] = "done" /\ allowedBy[r] = "nobody"})

\* docs/auth.md:111, "A request is accepted if either verifier accepts it", unless
\* its token expires before the answer.  (So without required scopes; with them
\* the static tokens, which carry none, are refused by the middleware.)
EitherAccepts ==
    \A r \in Requests :
        pc[r] = "done" /\ allowedBy[r] # "nobody" /\ cred[r] \notin expired => status[r] = 200

=============================================================================
