-------------------------- MODULE AuthServiceProofs --------------------------
(***************************************************************************)
(* Agent authentication implements AuthService, for any number of          *)
(* requests, token files and rotations; and what follows without required  *)
(* scopes.                                                                 *)
(***************************************************************************)
EXTENDS AgentAuthProofs

USE AuthAssumption

Phases == [r \in Requests |-> PhaseOf(r)]

\* A step of one request moves the phase of that one.
LEMMA PhaseMoves ==
    ASSUME NEW r \in Requests, NEW to, PhaseOf(r)' = to,
           \A q \in Requests \ {r} : pc'[q] = pc[q] /\ status'[q] = status[q]
    PROVE  Phases' = [Phases EXCEPT ![r] = to]
  <1>1. \A q \in Requests \ {r} : PhaseOf(q)' = PhaseOf(q)
    BY DEF PhaseOf
  <1> QED BY <1>1 DEF Phases

LEMMA InitMaps == Init => Service!Init
  BY DEF Init, Service!Init, PhaseOf

LEMMA ArriveMaps ==
    ASSUME AuthInv, NEW r \in Requests, NEW x \in Credentials, Arrive(r, x)
    PROVE  Service!Next
  <1>1. /\ pc \in [Requests -> {"new", "inline", "files", "oidc", "verified", "done"}]
        /\ status \in [Requests -> {0, 200, 401, 403} \cup (IF OIDCEnabled THEN {500} ELSE {})]
    BY DEF AuthInv, TypeOK
  <1>2. Phases[r] = "new"
    BY DEF Arrive, Phases, PhaseOf
  <1>3. PhaseOf(r)' = IF x = NoBearer THEN "refused" ELSE "open"
    BY <1>1 DEF Arrive, PhaseOf
  <1>4. \A q \in Requests \ {r} : pc'[q] = pc[q] /\ status'[q] = status[q]
    BY <1>1 DEF Arrive
  <1>5. Phases' = [Phases EXCEPT ![r] = IF x = NoBearer THEN "refused" ELSE "open"]
    BY <1>3, <1>4, PhaseMoves
  <1>6. Service!Present(r, x)
    BY <1>2, <1>5 DEF Service!Present, Service!Move, Phases, Arrive
  <1> QED BY <1>6 DEF Service!Next

\* A verifier accepts in the instant in which the credential is good.
LEMMA AcceptMaps ==
    ASSUME AuthInv, NEW r \in Requests, NEW outcome, NEW scopes,
           pc[r] \in {"inline", "files", "oidc"}, Accept(r, outcome, scopes),
           Service!Good(cred[r]), UNCHANGED <<content, rotations, expired, historyVars>>
    PROVE  Service!Next
  <1>1. pc \in [Requests -> {"new", "inline", "files", "oidc", "verified", "done"}]
    BY DEF AuthInv, TypeOK
  <1>2. Phases[r] = "open" /\ PhaseOf(r)' = "accepted"
    BY <1>1 DEF Phases, PhaseOf, Accept
  <1>3. \A q \in Requests \ {r} : pc'[q] = pc[q] /\ status'[q] = status[q]
    BY <1>1 DEF Accept
  <1>4. Phases' = [Phases EXCEPT ![r] = "accepted"]
    BY <1>2, <1>3, PhaseMoves
  <1>5. Service!Accept(r)
    BY <1>2, <1>4 DEF Service!Accept, Service!Move, Phases, Accept, historyVars
  <1> QED BY <1>5 DEF Service!Next

\* The last verifier refuses what was not good in one place throughout.
LEMMA RefuseMaps ==
    ASSUME AuthInv, NEW r \in Requests, NEW verifier \in {"static", "oidc"},
           pc[r] \in {"files", "oidc"}, Refuse(r, verifier),
           StaticEnabled => kept[r] = {} /\ cred[r] \notin Inline,
           UNCHANGED <<content, rotations, expired, historyVars>>
    PROVE  Service!Next
  <1>1. /\ pc \in [Requests -> {"new", "inline", "files", "oidc", "verified", "done"}]
        /\ status \in [Requests -> {0, 200, 401, 403} \cup (IF OIDCEnabled THEN {500} ELSE {})]
    BY DEF AuthInv, TypeOK
  <1>2. Phases[r] = "open" /\ PhaseOf(r)' = "refused"
    BY <1>1 DEF Phases, PhaseOf, Refuse, RefusalCode
  <1>3. \A q \in Requests \ {r} : pc'[q] = pc[q] /\ status'[q] = status[q]
    BY <1>1 DEF Refuse
  <1>4. Phases' = [Phases EXCEPT ![r] = "refused"]
    BY <1>2, <1>3, PhaseMoves
  <1>5. Service!Refuse(r)
    BY <1>2, <1>4 DEF Service!Refuse, Service!Lasting, Service!Move, Phases, Refuse, historyVars
  <1> QED BY <1>5 DEF Service!Next

\* From one step of the verification to the next nothing happens for the service.
LEMMA AdvanceMaps ==
    ASSUME AuthInv, NEW r \in Requests, pc[r] \in {"inline", "files"}, NEW to,
           to \in {"files", "oidc"}, pc' = [pc EXCEPT ![r] = to],
           UNCHANGED <<content, expired, cred, kept, status>>
    PROVE  UNCHANGED Service!vars
  <1>1. pc \in [Requests -> {"new", "inline", "files", "oidc", "verified", "done"}]
    BY DEF AuthInv, TypeOK
  <1>2. \A q \in Requests : PhaseOf(q)' = PhaseOf(q)
    BY <1>1 DEF PhaseOf
  <1> QED BY <1>2 DEF Service!vars

\* What is known of a request that is being verified.
LEMMA Verified ==
    ASSUME AuthInv, NEW r \in Requests
    PROVE  /\ cred[r] \in Credentials
           /\ pc[r] \in {"inline", "files"} => StaticEnabled
           /\ pc[r] = "files" => cred[r] \notin Inline
           /\ pc[r] = "files" /\ todo[r] = {} => kept[r] = {}
           /\ pc[r] = "oidc" => OIDCEnabled
           /\ pc[r] = "oidc" => (StaticEnabled => kept[r] = {} /\ cred[r] \notin Inline)
  <1>1. pc[r] = "oidc" => cred[r] # NoBearer /\ allowedBy[r] = "nobody"
    BY DEF AuthInv, OnPath, AllowanceGrounded, InFlight
  <1>2. pc[r] = "oidc" => (StaticEnabled => kept[r] = {} /\ cred[r] \notin Inline)
    BY <1>1 DEF AuthInv, StableSecretAllowed
  <1> QED BY <1>2 DEF AuthInv, TypeOK, OnPath, KeptUnread

LEMMA VerificationMaps ==
    ASSUME AuthInv, NEW r \in Requests,
           \/ CheckInline(r) \/ StaticMiss(r) \/ VerifyOIDC(r)
           \/ \E f \in Files : ReadFile(r, f)
    PROVE  Service!Next \/ UNCHANGED Service!vars
  <1>1. CASE CheckInline(r)
    <2>1. CASE cred[r] \in Inline
      <3>1. pc[r] = "inline" /\ Accept(r, "static_allow", {})
        BY <1>1, <2>1 DEF CheckInline
      <3>2. Service!Good(cred[r])
        BY <2>1, <3>1, Verified DEF Service!Good
      <3> QED BY <1>1, <3>1, <3>2, AcceptMaps DEF CheckInline
    <2>2. CASE cred[r] \notin Inline
      BY <1>1, <2>2, AdvanceMaps DEF CheckInline, historyVars
    <2> QED BY <2>1, <2>2
  <1>2. ASSUME NEW f \in Files, ReadFile(r, f)
        PROVE  Service!Next \/ UNCHANGED Service!vars
    <2>1. CASE content[f] = cred[r]
      <3>1. pc[r] = "files" /\ Accept(r, "static_allow", {})
        BY <1>2, <2>1 DEF ReadFile, ReadToken
      <3>2. Service!Good(cred[r])
        BY <2>1, <3>1, Verified DEF Service!Good
      <3> QED BY <1>2, <3>1, <3>2, AcceptMaps DEF ReadFile
    <2>2. CASE content[f] # cred[r]
      BY <1>2, <2>2 DEF ReadFile, ReadToken, historyVars, Service!vars, PhaseOf
    <2> QED BY <2>1, <2>2
  <1>3. CASE StaticMiss(r)
    <2>1. CASE OIDCEnabled
      BY <1>3, <2>1, AdvanceMaps DEF StaticMiss, historyVars
    <2>2. CASE ~ OIDCEnabled
      BY <1>3, <2>2, Verified, RefuseMaps DEF StaticMiss
    <2> QED BY <2>1, <2>2
  <1>4. CASE VerifyOIDC(r)
    <2>1. pc[r] = "oidc" /\ UNCHANGED <<content, rotations, expired, historyVars>>
      BY <1>4 DEF VerifyOIDC
    <2>2. OIDCEnabled /\ (StaticEnabled => kept[r] = {} /\ cred[r] \notin Inline)
      BY <2>1, Verified
    <2>3. CASE Refuse(r, "oidc")
      BY <2>1, <2>2, <2>3, RefuseMaps
    <2>4. CASE /\ cred[r] \in Genuine \ expired /\ HasAllRequired(cred[r])
               /\ Accept(r, "oidc_allow", ScopesOf[cred[r]])
      <3>1. Service!Good(cred[r])
        BY <2>2, <2>4 DEF Service!Good
      <3> QED BY <2>1, <2>4, <3>1, AcceptMaps
    <2> QED BY <1>4, <2>3, <2>4 DEF VerifyOIDC
  <1> QED BY <1>1, <1>2, <1>3, <1>4

\* The middleware's verdict is the service's: what was granted is what the
\* credential carries.
LEMMA AdmitMaps ==
    ASSUME AuthInv, NEW r \in Requests, Admit(r)
    PROVE  Service!Next
  <1> DEFINE Sufficient == {x \in Credentials : RequiredScopes \subseteq Carries(x)}
  <1>1. /\ pc \in [Requests -> {"new", "inline", "files", "oidc", "verified", "done"}]
        /\ status \in [Requests -> {0, 200, 401, 403} \cup (IF OIDCEnabled THEN {500} ELSE {})]
        /\ cred[r] \in Credentials /\ granted[r] = Carries(cred[r]) /\ pc[r] = "verified"
    BY DEF Admit, AuthInv, TypeOK, AllowanceGrounded
  <1>2. Phases[r] = "accepted"
    BY <1>1 DEF Phases, PhaseOf
  <1>3. \A q \in Requests \ {r} : pc'[q] = pc[q] /\ status'[q] = status[q]
    BY <1>1 DEF Admit
  <1>4. PhaseOf(r)' = IF Verdict(r) = 200 THEN "served" ELSE "refused"
    BY <1>1 DEF Admit, PhaseOf
  <1>5. Verdict(r) = 200 <=> cred[r] \in Sufficient \ expired
    BY <1>1 DEF Verdict
  <1>6. UNCHANGED <<content, expired, cred, kept>>
    BY DEF Admit, historyVars
  <1>7. CASE Verdict(r) = 200
    <2>1. Phases' = [Phases EXCEPT ![r] = "served"]
      BY <1>3, <1>4, <1>7, PhaseMoves
    <2>2. Service!Serve(r)
      BY <1>2, <1>5, <1>6, <1>7, <2>1 DEF Service!Serve, Service!Move, Phases
    <2> QED BY <2>2 DEF Service!Next
  <1>8. CASE Verdict(r) # 200
    <2>1. Phases' = [Phases EXCEPT ![r] = "refused"]
      BY <1>3, <1>4, <1>8, PhaseMoves
    <2>2. Service!Dismiss(r)
      BY <1>2, <1>5, <1>6, <1>8, <2>1 DEF Service!Dismiss, Service!Move, Phases
    <2> QED BY <2>2 DEF Service!Next
  <1> QED BY <1>7, <1>8

LEMMA OutsideMaps ==
    ASSUME AuthInv,
           \/ \E f \in Files, x \in Secrets \cup {Unreadable} : Rotate(f, x)
           \/ \E j \in Genuine : Expire(j)
           \/ UNCHANGED vars
    PROVE  Service!Next \/ UNCHANGED Service!vars
  <1>1. UNCHANGED <<pc, status, cred>> /\ Phases' = Phases
    BY DEF Rotate, Expire, vars, requestVars, Phases, PhaseOf
  <1>2. ASSUME NEW f \in Files, NEW x \in Secrets \cup {Unreadable}, Rotate(f, x)
        PROVE  Service!Rewrite(f, x)
    <2>1. \A r \in Requests : InFlight(r) <=> PhaseOf(r) \in {"open", "accepted"}
      BY DEF AuthInv, TypeOK, InFlight, PhaseOf
    <2> QED BY <1>1, <1>2, <2>1 DEF Rotate, Service!Rewrite, Phases
  <1>3. ASSUME NEW j \in Genuine, Expire(j) PROVE Service!Expire(j) /\ j \in Credentials
    BY <1>1, <1>3 DEF Expire, Service!Expire, Phases, historyVars, Credentials
  <1>4. CASE UNCHANGED vars
    BY <1>1, <1>4 DEF vars, historyVars, Service!vars, Phases
  <1> QED BY <1>2, <1>3, <1>4 DEF Service!Next

\* Reading one file after the other while they are rewritten comes to the same as
\* deciding each request in one instant.
THEOREM Implementation == Spec => ImplementsAuth
  <1>1. ASSUME AuthInv, [Next]_vars PROVE [Service!Next]_(Service!vars)
    BY <1>1, ArriveMaps, VerificationMaps, AdmitMaps, OutsideMaps
       DEF Next, RequestStep, Finished
  <1> QED BY <1>1, InitMaps, Invariance, PTL DEF Spec, ImplementsAuth, Service!Spec

-----------------------------------------------------------------------------

\* A step touches one request at most, and no JWT is young again.
LEMMA OneRequestMoves ==
    ASSUME AuthInv, [Next]_vars, NEW q \in Requests
    PROVE  /\ RequestStep(q) \/ UNCHANGED <<pc[q], cred[q], allowedBy[q], status[q]>>
           /\ expired \subseteq expired'
  <1>1. /\ pc \in [Requests -> {"new", "inline", "files", "oidc", "verified", "done"}]
        /\ cred \in [Requests -> Credentials]
        /\ allowedBy \in [Requests -> {"nobody", "static_allow", "oidc_allow"}]
        /\ status \in [Requests -> {0, 200, 401, 403} \cup (IF OIDCEnabled THEN {500} ELSE {})]
    BY DEF AuthInv, TypeOK
  <1>2. ASSUME NEW r \in Requests, RequestStep(r), r # q
        PROVE  UNCHANGED <<pc[q], cred[q], allowedBy[q], status[q], expired>>
    <2>1. CASE (\E x \in Credentials : Arrive(r, x)) \/ Admit(r)
      BY <1>1, <1>2, <2>1 DEF Arrive, Admit
    <2>2. CASE CheckInline(r) \/ \E f \in Files : ReadFile(r, f)
      BY <1>1, <1>2, <2>2 DEF CheckInline, ReadFile, Accept
    <2>3. CASE StaticMiss(r) \/ VerifyOIDC(r)
      BY <1>1, <1>2, <2>3 DEF StaticMiss, VerifyOIDC, Accept, Refuse
    <2> QED BY <1>2, <2>1, <2>2, <2>3 DEF RequestStep
  <1>3. RequestStep(q) => UNCHANGED expired
    BY DEF RequestStep, Arrive, Admit, CheckInline, ReadFile, StaticMiss, VerifyOIDC
  <1>4. ASSUME \/ \E f \in Files, x \in Secrets \cup {Unreadable} : Rotate(f, x)
               \/ \E j \in Genuine : Expire(j)
               \/ UNCHANGED vars
        PROVE  UNCHANGED <<pc, cred, allowedBy, status>> /\ expired \subseteq expired'
    BY <1>4 DEF Rotate, Expire, vars, requestVars
  <1> QED BY <1>2, <1>3, <1>4 DEF Next, Finished

\* docs/auth.md:111 is right where no scopes are required: whom either verifier
\* accepts is served, unless its token expires before the answer.
THEOREM EitherAcceptsUnscoped ==
    ASSUME RequiredScopes = {}
    PROVE  Spec => []EitherAccepts
  <1>1. Init => EitherAccepts
    BY DEF Init, EitherAccepts
  <1>2. ASSUME AuthInv, EitherAccepts, [Next]_vars PROVE EitherAccepts'
    <2>0. /\ pc \in [Requests -> {"new", "inline", "files", "oidc", "verified", "done"}]
          /\ allowedBy \in [Requests -> {"nobody", "static_allow", "oidc_allow"}]
          /\ status \in [Requests -> {0, 200, 401, 403} \cup (IF OIDCEnabled THEN {500} ELSE {})]
      BY <1>2 DEF AuthInv, TypeOK
    <2> SUFFICES ASSUME NEW q \in Requests, pc'[q] = "done", allowedBy'[q] # "nobody",
                        cred'[q] \notin expired'
                 PROVE  status'[q] = 200
      BY DEF EitherAccepts
    <2>1. /\ RequestStep(q) \/ UNCHANGED <<pc[q], cred[q], allowedBy[q], status[q]>>
          /\ expired \subseteq expired'
      BY <1>2, OneRequestMoves
    <2>2. CASE UNCHANGED <<pc[q], cred[q], allowedBy[q], status[q]>>
      BY <1>2, <2>1, <2>2 DEF EitherAccepts
    <2>3. CASE Admit(q)
      BY <2>0, <2>3 DEF Admit, Verdict
    <2>4. CASE RequestStep(q) /\ ~ Admit(q)
      <3>1. pc[q] \in {"new", "inline", "files", "oidc"} /\ allowedBy[q] = "nobody"
        BY <1>2, <2>4 DEF RequestStep, Arrive, CheckInline, ReadFile, StaticMiss, VerifyOIDC,
                          AuthInv, AllowanceGrounded
      <3>2. allowedBy'[q] = "nobody" \/ pc'[q] = "verified"
        BY <2>0, <2>4, <3>1 DEF RequestStep, Arrive, CheckInline, ReadFile, StaticMiss,
                                VerifyOIDC, Accept, Refuse
      <3> QED BY <3>2
    <2> QED BY <2>1, <2>2, <2>3, <2>4
  <1> QED BY <1>1, <1>2, Invariance, PTL DEF Spec

=============================================================================
