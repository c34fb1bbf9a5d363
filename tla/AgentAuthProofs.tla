--------------------------- MODULE AgentAuthProofs ---------------------------
(***************************************************************************)
(* Theorems about agent authentication, for any number of requests, token  *)
(* files and rotations.                                                    *)
(***************************************************************************)
EXTENDS AgentAuth, FiniteSetTheorems, TLAPS

USE AuthAssumption

LEMMA InitHolds == Init => AuthInv
  <1> SUFFICES ASSUME Init PROVE AuthInv
    OBVIOUS
  <1>1. TypeOK
    BY DEF Init, TypeOK, Credentials
  <1>2. HistoryTrue /\ KeptUnread /\ OnPath
    BY DEF Init, HistoryTrue, KeptUnread, OnPath, InFlight
  <1>3. AllowanceGrounded /\ StableSecretAllowed
    BY DEF Init, AllowanceGrounded, StableSecretAllowed
  <1> QED BY <1>1, <1>2, <1>3 DEF AuthInv

LEMMA ArriveKeeps ==
    ASSUME AuthInv, NEW r \in Requests, NEW x \in Credentials, Arrive(r, x)
    PROVE  AuthInv'
  <1>1. /\ pc[r] = "new" /\ allowedBy[r] = "nobody"
        /\ cred' = [cred EXCEPT ![r] = x]
        /\ held' = [held EXCEPT ![r] = {content[f] : f \in Files}]
        /\ kept' = [kept EXCEPT ![r] = {f \in Files : content[f] = x}]
        /\ UNCHANGED <<content, rotations, expired, todo, granted, allowedBy, authRequests>>
        /\ content \in [Files -> Secrets \cup {Unreadable}] /\ status[r] = 0
    BY DEF Arrive, AuthInv, AllowanceGrounded, TypeOK
  <1>2. \/ /\ x = NoBearer
           /\ pc' = [pc EXCEPT ![r] = "done"]
           /\ status' = [status EXCEPT ![r] = 401]
        \/ /\ x # NoBearer
           /\ pc' = [pc EXCEPT ![r] = IF StaticEnabled THEN "inline" ELSE "oidc"]
           /\ UNCHANGED status
    BY DEF Arrive
  <1>3. TypeOK'
    BY <1>1, <1>2 DEF AuthInv, TypeOK
  <1>4. HistoryTrue'
    BY <1>1, <1>2 DEF AuthInv, TypeOK, HistoryTrue, InFlight
  <1>5. KeptUnread' /\ OnPath'
    BY <1>1, <1>2 DEF AuthInv, TypeOK, KeptUnread, OnPath, InFlight
  <1>6. AllowanceGrounded'
    BY <1>1, <1>2 DEF AuthInv, TypeOK, AllowanceGrounded
  <1>7. StableSecretAllowed'
    BY <1>1, <1>2 DEF AuthInv, TypeOK, StableSecretAllowed
  <1> QED BY <1>3, <1>4, <1>5, <1>6, <1>7 DEF AuthInv

\* A request is accepted on a ground that holds.
LEMMA AcceptKeeps ==
    ASSUME AuthInv, NEW r \in Requests, pc[r] \in {"inline", "files", "oidc"},
           NEW outcome \in {"static_allow", "oidc_allow"},
           NEW scopes \in SUBSET UNION {ScopesOf[j] : j \in JWTs},
           outcome = "static_allow" => StaticEnabled /\ cred[r] \in Inline \cup held[r],
           outcome = "oidc_allow" => /\ pc[r] = "oidc"
                                     /\ cred[r] \in Genuine /\ HasAllRequired(cred[r]),
           StaticEnabled /\ pc[r] = "oidc" => kept[r] = {} /\ cred[r] \notin Inline,
           scopes = Carries(cred[r]),
           Accept(r, outcome, scopes),
           UNCHANGED <<content, rotations, expired, historyVars>>
    PROVE  AuthInv'
  <1>1. /\ pc' = [pc EXCEPT ![r] = "verified"]
        /\ allowedBy' = [allowedBy EXCEPT ![r] = outcome]
        /\ granted' = [granted EXCEPT ![r] = scopes]
        /\ authRequests' = [authRequests EXCEPT ![outcome] = @ + 1]
        /\ UNCHANGED <<content, rotations, expired, cred, todo, status, held, kept>>
    BY DEF Accept, CountAuth, historyVars
  <1>2. TypeOK'
    BY <1>1 DEF AuthInv, TypeOK, Outcomes
  <1>3. HistoryTrue'
    BY <1>1 DEF AuthInv, TypeOK, HistoryTrue, InFlight
  <1>4. KeptUnread' /\ OnPath'
    BY <1>1 DEF AuthInv, TypeOK, KeptUnread, OnPath, InFlight
  <1>5. AllowanceGrounded'
    BY <1>1 DEF AuthInv, TypeOK, AllowanceGrounded
  <1>6. StableSecretAllowed'
    BY <1>1 DEF AuthInv, TypeOK, StableSecretAllowed
  <1> QED BY <1>2, <1>3, <1>4, <1>5, <1>6 DEF AuthInv

\* A request is refused once no file can have held its secret throughout.
LEMMA RefuseKeeps ==
    ASSUME AuthInv, NEW r \in Requests, pc[r] \in {"files", "oidc"},
           NEW verifier \in {"static", "oidc"}, verifier = "oidc" => OIDCEnabled,
           StaticEnabled => kept[r] = {} /\ cred[r] \notin Inline,
           Refuse(r, verifier),
           UNCHANGED <<content, rotations, expired, historyVars>>
    PROVE  AuthInv'
  <1>1. /\ pc' = [pc EXCEPT ![r] = "done"]
        /\ status' = [status EXCEPT ![r] = RefusalCode(verifier)]
        /\ RefusalCode(verifier) \in {401} \cup (IF OIDCEnabled THEN {500} ELSE {})
        /\ authRequests' = [authRequests EXCEPT !["none_deny"] = @ + 1]
        /\ UNCHANGED <<content, rotations, expired, cred, todo, granted, allowedBy, held, kept>>
    BY DEF Refuse, RefusalCode, CountAuth, historyVars
  <1>2. TypeOK'
    BY <1>1 DEF AuthInv, TypeOK, Outcomes
  <1>3. HistoryTrue' /\ KeptUnread' /\ OnPath'
    BY <1>1 DEF AuthInv, TypeOK, HistoryTrue, KeptUnread, OnPath, InFlight
  <1>4. AllowanceGrounded'
    BY <1>1 DEF AuthInv, TypeOK, AllowanceGrounded
  <1>5. StableSecretAllowed'
    BY <1>1 DEF AuthInv, TypeOK, StableSecretAllowed
  <1> QED BY <1>2, <1>3, <1>4, <1>5 DEF AuthInv

\* A request goes on to the next step of its verification.
LEMMA AdvanceKeeps ==
    ASSUME AuthInv, NEW r \in Requests, NEW st \in {"files", "oidc"},
           NEW rest \in SUBSET Files,
           pc[r] \in {"inline", "files"},
           pc' = [pc EXCEPT ![r] = st],
           todo' = [todo EXCEPT ![r] = rest],
           st = "files" => kept[r] \subseteq rest,
           st = "oidc" => OIDCEnabled /\ kept[r] = {},
           cred[r] \notin Inline,
           UNCHANGED <<content, rotations, expired, cred, granted, allowedBy,
                       status, authRequests, historyVars>>
    PROVE  AuthInv'
  <1>1. TypeOK'
    BY DEF AuthInv, TypeOK, historyVars
  <1>2. HistoryTrue'
    BY DEF AuthInv, TypeOK, HistoryTrue, InFlight, historyVars
  <1>3. KeptUnread'
    BY DEF AuthInv, TypeOK, KeptUnread, historyVars
  <1>4. OnPath'
    BY DEF AuthInv, TypeOK, OnPath, InFlight, historyVars
  <1>5. AllowanceGrounded' /\ StableSecretAllowed'
    BY DEF AuthInv, TypeOK, AllowanceGrounded, StableSecretAllowed, historyVars
  <1> QED BY <1>1, <1>2, <1>3, <1>4, <1>5 DEF AuthInv

LEMMA AdmitKeeps ==
    ASSUME AuthInv, NEW r \in Requests, Admit(r)
    PROVE  AuthInv'
  <1>1. Verdict(r) \in {200, 401, 403} /\ status' = [status EXCEPT ![r] = Verdict(r)]
    BY DEF Admit, Verdict
  <1>2. /\ pc[r] = "verified"
        /\ pc' = [pc EXCEPT ![r] = "done"]
        /\ UNCHANGED <<content, rotations, expired, cred, todo, granted, allowedBy,
                       authRequests, held, kept>>
    BY DEF Admit, historyVars
  <1>3. TypeOK'
    BY <1>1, <1>2 DEF AuthInv, TypeOK
  <1>4. HistoryTrue' /\ KeptUnread' /\ OnPath'
    BY <1>1, <1>2 DEF AuthInv, TypeOK, HistoryTrue, KeptUnread, OnPath, InFlight
  <1>5. AllowanceGrounded' /\ StableSecretAllowed'
    BY <1>1, <1>2 DEF AuthInv, TypeOK, AllowanceGrounded, StableSecretAllowed
  <1> QED BY <1>3, <1>4, <1>5 DEF AuthInv

LEMMA VerificationKeeps ==
    ASSUME AuthInv, NEW r \in Requests,
           \/ CheckInline(r) \/ StaticMiss(r) \/ VerifyOIDC(r)
           \/ \E f \in Files : ReadFile(r, f)
    PROVE  AuthInv'
  <1>0. /\ kept[r] \subseteq Files /\ todo[r] \subseteq Files
        /\ pc[r] = "files" => kept[r] \subseteq todo[r] /\ cred[r] \notin Inline
        /\ pc[r] \in {"inline", "files"} => StaticEnabled
        /\ pc[r] \in {"inline", "files"} => \A f \in Files : content[f] \in held[r]
        /\ pc[r] \in {"inline", "files"} => \A f \in kept[r] : content[f] = cred[r]
        /\ pc[r] = "oidc" =>
               OIDCEnabled /\ (StaticEnabled => kept[r] = {} /\ cred[r] \notin Inline)
    <2>1. pc[r] = "oidc" => /\ OIDCEnabled /\ cred[r] # NoBearer
                            /\ allowedBy[r] = "nobody"
      BY DEF AuthInv, OnPath, AllowanceGrounded, InFlight
    <2>2. pc[r] = "oidc" => (StaticEnabled => kept[r] = {} /\ cred[r] \notin Inline)
      BY <2>1 DEF AuthInv, StableSecretAllowed
    <2> QED BY <2>1, <2>2 DEF AuthInv, TypeOK, KeptUnread, OnPath, HistoryTrue, InFlight
  <1>1. CASE CheckInline(r)
    <2>1. CASE cred[r] \in Inline
      BY <1>0, <1>1, <2>1, AcceptKeeps DEF CheckInline, Carries
    <2>2. CASE cred[r] \notin Inline
      BY <1>0, <1>1, <2>2, AdvanceKeeps DEF CheckInline
    <2> QED BY <2>1, <2>2
  <1>2. ASSUME NEW f \in Files, ReadFile(r, f) PROVE AuthInv'
    <2>1. CASE content[f] = cred[r]
      <3>1. Carries(cred[r]) = {}
        BY <2>1 DEF Carries, AuthInv, TypeOK
      <3> QED BY <1>0, <1>2, <2>1, <3>1, AcceptKeeps DEF ReadFile, ReadToken
    <2>2. CASE content[f] # cred[r]
      <3>1. /\ pc[r] = "files" /\ pc' = [pc EXCEPT ![r] = "files"]
            /\ todo' = [todo EXCEPT ![r] = todo[r] \ {f}]
            /\ UNCHANGED <<content, rotations, expired, cred, granted, allowedBy,
                           status, authRequests, historyVars>>
        BY <1>2, <2>2 DEF ReadFile, ReadToken, Skip, AuthInv, TypeOK
      <3>2. kept[r] \subseteq todo[r] \ {f} /\ cred[r] \notin Inline
        BY <1>0, <2>2, <3>1
      <3>3. todo[r] \ {f} \in SUBSET Files
        BY <1>0
      <3> QED BY <3>1, <3>2, <3>3, AdvanceKeeps, ZenonT(60)
    <2> QED BY <2>1, <2>2
  <1>3. CASE StaticMiss(r)
    <2>1. CASE OIDCEnabled
      <3>1. /\ pc[r] = "files" /\ pc' = [pc EXCEPT ![r] = "oidc"]
            /\ todo' = [todo EXCEPT ![r] = {}] /\ kept[r] = {} /\ cred[r] \notin Inline
            /\ UNCHANGED <<content, rotations, expired, cred, granted, allowedBy,
                           status, authRequests, historyVars>>
        BY <1>0, <1>3, <2>1 DEF StaticMiss, AuthInv, TypeOK
      <3> QED BY <2>1, <3>1, AdvanceKeeps
    <2>2. CASE ~ OIDCEnabled
      BY <1>0, <1>3, <2>2, RefuseKeeps DEF StaticMiss
    <2> QED BY <2>1, <2>2
  <1>4. CASE VerifyOIDC(r)
    <2>1. pc[r] = "oidc"
      BY <1>4 DEF VerifyOIDC
    <2>2. OIDCEnabled /\ (StaticEnabled => kept[r] = {} /\ cred[r] \notin Inline)
      BY <1>0, <2>1
    <2>3. CASE Refuse(r, "oidc")
      BY <1>4, <2>1, <2>2, <2>3, RefuseKeeps DEF VerifyOIDC
    <2>4. CASE /\ cred[r] \in Genuine /\ HasAllRequired(cred[r])
               /\ Accept(r, "oidc_allow", ScopesOf[cred[r]])
      <3>1. /\ ScopesOf[cred[r]] \in SUBSET UNION {ScopesOf[j] : j \in JWTs}
            /\ ScopesOf[cred[r]] = Carries(cred[r])
        BY <2>4 DEF Carries
      <3> QED BY <1>4, <2>1, <2>2, <2>4, <3>1, AcceptKeeps DEF VerifyOIDC
    <2> QED BY <1>4, <2>3, <2>4 DEF VerifyOIDC
  <1> QED BY <1>1, <1>2, <1>3, <1>4

LEMMA RotateKeeps ==
    ASSUME AuthInv, NEW f \in Files, NEW x \in Secrets \cup {Unreadable}, Rotate(f, x)
    PROVE  AuthInv'
  <1>1. /\ content' = [content EXCEPT ![f] = x]
        /\ rotations' = rotations + 1 /\ rotations < MaxRotations
        /\ held' = [r \in Requests |-> IF InFlight(r) THEN held[r] \cup {x} ELSE held[r]]
        /\ kept' = [r \in Requests |-> IF InFlight(r) THEN kept[r] \ {f} ELSE kept[r]]
        /\ UNCHANGED <<expired, pc, cred, todo, granted, allowedBy, status, authRequests>>
    BY DEF Rotate, requestVars
  <1>2. TypeOK'
    <2>1. rotations' \in 0 .. MaxRotations
      BY <1>1 DEF AuthInv, TypeOK
    <2> QED BY <1>1, <2>1 DEF AuthInv, TypeOK
  <1>3. HistoryTrue'
    BY <1>1 DEF AuthInv, TypeOK, HistoryTrue, InFlight
  <1>4. KeptUnread' /\ OnPath'
    BY <1>1 DEF AuthInv, TypeOK, KeptUnread, OnPath, InFlight
  <1>5. AllowanceGrounded'
    BY <1>1 DEF AuthInv, TypeOK, AllowanceGrounded
  <1>6. StableSecretAllowed'
    BY <1>1 DEF AuthInv, TypeOK, StableSecretAllowed
  <1> QED BY <1>2, <1>3, <1>4, <1>5, <1>6 DEF AuthInv

LEMMA OtherKeeps ==
    ASSUME AuthInv, (\E j \in Genuine : Expire(j)) \/ UNCHANGED vars
    PROVE  AuthInv'
  <1>1. /\ expired' \subseteq JWTs
        /\ UNCHANGED <<content, rotations, pc, cred, todo, granted, allowedBy, status,
                       authRequests, held, kept>>
    BY DEF AuthInv, TypeOK, Expire, vars, requestVars, historyVars
  <1>2. TypeOK'
    BY <1>1 DEF AuthInv, TypeOK
  <1>3. HistoryTrue' /\ KeptUnread' /\ OnPath'
    BY <1>1 DEF AuthInv, HistoryTrue, KeptUnread, OnPath, InFlight
  <1>4. AllowanceGrounded' /\ StableSecretAllowed'
    BY <1>1 DEF AuthInv, AllowanceGrounded, StableSecretAllowed
  <1> QED BY <1>2, <1>3, <1>4 DEF AuthInv

\* The inductive invariant of the middleware.
THEOREM Invariance == Spec => []AuthInv
  <1>1. ASSUME AuthInv, [Next]_vars PROVE AuthInv'
    BY <1>1, ArriveKeeps, VerificationKeeps, AdmitKeeps, RotateKeeps, OtherKeeps
       DEF Next, RequestStep, Finished
  <1> QED BY <1>1, InitHolds, PTL DEF Spec

\* Every variable keeps its type.
THEOREM TypeCorrect == Spec => []TypeOK
  <1>1. AuthInv => TypeOK
    BY DEF AuthInv
  <1> QED BY <1>1, Invariance, PTL

\* Nobody is served for a credential that was not good during its verification.
THEOREM ServiceIsSound == Spec => []ServedSound
  <1>1. AuthInv => ServedSound
    BY DEF AuthInv, TypeOK, AllowanceGrounded, ServedSound
  <1> QED BY <1>1, Invariance, PTL

\* No rotation of other files makes a secret that stays be taken for a wrong one.
THEOREM StableSecretsAreAllowed == Spec => []StableSecretAllowed
  <1>1. AuthInv => StableSecretAllowed
    BY DEF AuthInv
  <1> QED BY <1>1, Invariance, PTL

-----------------------------------------------------------------------------

\* The requests behind each series of omcp_auth_requests_total.
Decided(r, o) ==
    IF o = "none_deny" THEN cred[r] # NoBearer /\ pc[r] = "done" /\ allowedBy[r] = "nobody"
    ELSE allowedBy[r] = o
DecidedAs(o)  == {r \in Requests : Decided(r, o)}
Tallies       == \A o \in Outcomes : authRequests[o] = Cardinality(DecidedAs(o))

\* One request more is decided, and counted.
LEMMA OneDecided ==
    ASSUME AuthInv, Tallies, NEW r \in Requests, NEW outcome \in Outcomes, CountAuth(outcome),
           \A o \in Outcomes : ~ Decided(r, o), \A o \in Outcomes : Decided(r, o)' <=> o = outcome,
           \A q \in Requests \ {r} : \A o \in Outcomes : Decided(q, o)' <=> Decided(q, o)
    PROVE  Tallies'
  <1>1. authRequests \in [Outcomes -> Nat]
    BY DEF AuthInv, TypeOK
  <1>2. DecidedAs(outcome)' = DecidedAs(outcome) \cup {r} /\ r \notin DecidedAs(outcome)
    BY DEF DecidedAs
  <1>3. \A o \in Outcomes \ {outcome} : DecidedAs(o)' = DecidedAs(o)
    BY DEF DecidedAs
  <1>4. Cardinality(DecidedAs(outcome)') = Cardinality(DecidedAs(outcome)) + 1
    <2>1. IsFiniteSet(DecidedAs(outcome))
      BY FS_Subset DEF DecidedAs
    <2> QED BY <1>2, <2>1, FS_AddElement
  <1>5. ASSUME NEW o \in Outcomes PROVE authRequests'[o] = Cardinality(DecidedAs(o)')
    <2>1. CASE o = outcome
      BY <1>1, <1>4, <2>1 DEF CountAuth, Tallies
    <2>2. CASE o # outcome
      BY <1>1, <1>3, <2>2 DEF CountAuth, Tallies
    <2> QED BY <2>1, <2>2
  <1> QED BY <1>5 DEF Tallies

\* Accepting and refusing decide a request; no other step does.
LEMMA TalliesStep == AuthInv /\ Tallies /\ [Next]_vars => Tallies'
  <1> SUFFICES ASSUME AuthInv, Tallies, [Next]_vars PROVE Tallies'
    OBVIOUS
  <1>0. /\ pc \in [Requests -> {"new", "inline", "files", "oidc", "verified", "done"}]
        /\ cred \in [Requests -> Credentials]
        /\ allowedBy \in [Requests -> {"nobody", "static_allow", "oidc_allow"}]
    BY DEF AuthInv, TypeOK
  <1>1. ASSUME NEW r \in Requests, pc[r] \in {"inline", "files", "oidc"}
        PROVE  allowedBy[r] = "nobody" /\ cred[r] # NoBearer
    BY <1>1 DEF AuthInv, AllowanceGrounded, OnPath, InFlight
  <1>2. ASSUME NEW r \in Requests, pc[r] \in {"inline", "files", "oidc"},
               NEW outcome \in {"static_allow", "oidc_allow"}, NEW scopes,
               Accept(r, outcome, scopes)
        PROVE  Tallies'
    <2>1. /\ outcome \in Outcomes /\ CountAuth(outcome) /\ cred' = cred
          /\ pc'[r] = "verified" /\ allowedBy'[r] = outcome
          /\ \A q \in Requests \ {r} : pc'[q] = pc[q] /\ allowedBy'[q] = allowedBy[q]
      BY <1>0, <1>2 DEF Accept, Outcomes
    <2>2. \A o \in Outcomes : ~ Decided(r, o)
      BY <1>1, <1>2 DEF Decided, Outcomes
    <2>3. \A o \in Outcomes : Decided(r, o)' <=> o = outcome
      BY <2>1 DEF Decided, Outcomes
    <2>4. \A q \in Requests \ {r} : \A o \in Outcomes : Decided(q, o)' <=> Decided(q, o)
      BY <2>1 DEF Decided
    <2> QED BY <2>1, <2>2, <2>3, <2>4, OneDecided
  <1>3. ASSUME NEW r \in Requests, pc[r] \in {"files", "oidc"}, NEW verifier, Refuse(r, verifier)
        PROVE  Tallies'
    <2>1. /\ "none_deny" \in Outcomes /\ CountAuth("none_deny")
          /\ UNCHANGED <<cred, allowedBy>> /\ pc'[r] = "done"
          /\ \A q \in Requests \ {r} : pc'[q] = pc[q]
      BY <1>0, <1>3 DEF Refuse, Outcomes
    <2>2. allowedBy[r] = "nobody" /\ cred[r] # NoBearer
      BY <1>1, <1>3
    <2>3. \A o \in Outcomes : ~ Decided(r, o)
      BY <1>3, <2>2 DEF Decided, Outcomes
    <2>4. \A o \in Outcomes : Decided(r, o)' <=> o = "none_deny"
      BY <2>1, <2>2 DEF Decided, Outcomes
    <2>5. \A q \in Requests \ {r} : \A o \in Outcomes : Decided(q, o)' <=> Decided(q, o)
      BY <2>1 DEF Decided
    <2> QED BY <2>1, <2>3, <2>4, <2>5, OneDecided
  <1>4. ASSUME UNCHANGED <<authRequests, allowedBy>>,
               \A r \in Requests : /\ cred'[r] # NoBearer /\ pc'[r] = "done" /\ allowedBy[r] = "nobody"
                                         <=> cred[r] # NoBearer /\ pc[r] = "done" /\ allowedBy[r] = "nobody"
        PROVE  Tallies'
    <2>1. \A o \in Outcomes : DecidedAs(o)' = DecidedAs(o)
      BY <1>4 DEF DecidedAs, Decided
    <2> QED BY <1>4, <2>1 DEF Tallies
  <1>5. ASSUME NEW r \in Requests, NEW x \in Credentials, Arrive(r, x) PROVE Tallies'
    <2>1. /\ UNCHANGED <<authRequests, allowedBy>> /\ pc[r] = "new" /\ cred'[r] = x
          /\ pc'[r] = "done" => x = NoBearer
          /\ \A q \in Requests \ {r} : pc'[q] = pc[q] /\ cred'[q] = cred[q]
      BY <1>0, <1>5 DEF Arrive
    <2> QED BY <1>4, <2>1
  <1>6. ASSUME NEW r \in Requests, Admit(r) PROVE Tallies'
    <2>1. /\ UNCHANGED <<authRequests, allowedBy, cred>> /\ pc[r] = "verified"
          /\ \A q \in Requests \ {r} : pc'[q] = pc[q]
      BY <1>0, <1>6 DEF Admit
    <2>2. allowedBy[r] # "nobody"
      BY <2>1 DEF AuthInv, AllowanceGrounded
    <2> QED BY <1>4, <2>1, <2>2
  <1>7. ASSUME NEW r \in Requests, NEW where \in {"files", "oidc"}, pc[r] \in {"inline", "files"},
               \/ pc' = [pc EXCEPT ![r] = where]
               \/ pc' = pc,
               UNCHANGED <<cred, allowedBy, authRequests>>
        PROVE  Tallies'
    <2>1. \A q \in Requests : pc'[q] = "done" <=> pc[q] = "done"
      BY <1>0, <1>7
    <2> QED BY <1>4, <1>7, <2>1
  <1>8. ASSUME NEW r \in Requests,
               CheckInline(r) \/ (\E f \in Files : ReadFile(r, f)) \/ StaticMiss(r) \/ VerifyOIDC(r)
        PROVE  Tallies'
    <2>1. CASE CheckInline(r)
      BY <1>2, <1>7, <2>1 DEF CheckInline
    <2>2. CASE \E f \in Files : ReadFile(r, f)
      BY <1>2, <1>7, <2>2 DEF ReadFile
    <2>3. CASE StaticMiss(r)
      BY <1>3, <1>7, <2>3 DEF StaticMiss
    <2>4. CASE VerifyOIDC(r)
      BY <1>2, <1>3, <2>4 DEF VerifyOIDC
    <2> QED BY <1>8, <2>1, <2>2, <2>3, <2>4
  <1>9. ASSUME UNCHANGED <<pc, cred, allowedBy, authRequests>> PROVE Tallies'
    BY <1>4, <1>9
  <1>10. ASSUME \/ \E f \in Files, x \in Secrets \cup {Unreadable} : Rotate(f, x)
                \/ \E j \in Genuine : Expire(j)
                \/ Finished \/ UNCHANGED vars
         PROVE  Tallies'
    BY <1>9, <1>10 DEF Rotate, Expire, Finished, vars, requestVars
  <1> QED BY <1>5, <1>6, <1>8, <1>10 DEF Next, RequestStep

\* omcp_auth_requests_total counts each request whose token was looked at once,
\* under the verifier that accepted it or as a denial if none did.
THEOREM VerificationsAreCounted == Spec => []VerifiedCounted
  <1>1. Init => Tallies
    <2> SUFFICES ASSUME Init PROVE Tallies
      OBVIOUS
    <2>1. \A o \in Outcomes : DecidedAs(o) = {} /\ authRequests[o] = 0
      BY DEF Init, DecidedAs, Decided, Outcomes
    <2> QED BY <2>1, FS_EmptySet DEF Tallies
  <1>2. Tallies => VerifiedCounted
    <2> SUFFICES ASSUME Tallies PROVE VerifiedCounted
      OBVIOUS
    <2>1. \A o \in Outcomes \ {"none_deny"} :
             DecidedAs(o) = {r \in Requests : allowedBy[r] = o}
      BY DEF DecidedAs, Decided
    <2>2. DecidedAs("none_deny") =
             {r \in Requests : /\ cred[r] # NoBearer
                               /\ pc[r] = "done" /\ allowedBy[r] = "nobody"}
      BY DEF DecidedAs, Decided
    <2> QED BY <2>1, <2>2 DEF Tallies, VerifiedCounted, Outcomes
  <1> QED BY <1>1, <1>2, TalliesStep, Invariance, PTL DEF Spec

=============================================================================
