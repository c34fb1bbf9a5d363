---------------------------- MODULE ConfigProofs ----------------------------
(***************************************************************************)
(* Theorems about start-up, for every file, environment and set of names.  *)
(***************************************************************************)
EXTENDS Config, SequenceTheorems, TLAPS

USE ConfigAssumption DEF Types, Places, OnePlace

LEMMA FunctionIsSeq ==
    ASSUME NEW S, NEW n \in Nat, NEW f \in [1 .. n -> S] PROVE f \in Seq(S)
  OBVIOUS

LEMMA DatasourceDefaulted ==
    ASSUME NEW d \in Datasources
    PROVE  [d EXCEPT !.timeout = Or(@, "positive", "")] \in Datasources
  BY DEF Datasources, Or

LEMMA AuthOverridden ==
    ASSUME NEW a \in Auths, env \in Envs PROVE OverriddenAuth(a) \in Auths
  <1>1. [name |-> EnvName, from |-> {"inline"}] \in Tokens
    BY DEF Tokens
  <1>2. /\ a.enabled \in BOOLEAN /\ a.static \in BOOLEAN /\ a.tokens \in Seq(Tokens)
        /\ a.oidc \in BOOLEAN /\ a.issuer \in {"", "https", "other"}
        /\ a.audience \in {"", "uri", "other"} /\ a.resource \in {"", "uri", "other"}
    BY DEF Auths
  <1>3. (IF env.token THEN Append(a.tokens, [name |-> EnvName, from |-> {"inline"}]) ELSE a.tokens)
            \in Seq(Tokens)
    BY <1>1, <1>2, AppendProperties
  <1>4. /\ Switched(env.auth, a.enabled) \in BOOLEAN
        /\ (IF env.token THEN TRUE ELSE a.static) \in BOOLEAN
        /\ (IF env.issuer # "" THEN TRUE ELSE a.oidc) \in BOOLEAN
    BY <1>2 DEF Switched, Envs
  <1>5. /\ Or(env.issuer, a.issuer, "") \in {"", "https", "other"}
        /\ Or(env.audience, a.audience, "") \in {"", "uri", "other"}
        /\ Or(env.resource, a.resource, "") \in {"", "uri", "other"}
    BY <1>2 DEF Or, Envs
  <1>6. a.metadata \in BOOLEAN
    BY DEF Auths
  <1> QED BY <1>3, <1>4, <1>5, <1>6, ZenonT(60) DEF OverriddenAuth, Auths

LEMMA ConfigOverridden ==
    ASSUME NEW c \in Configs, env \in Envs PROVE Overridden(c) \in Configs
  <1>1. /\ Or(env.logLevel, c.logLevel, "") \in {"", "known", "other"}
        /\ Or(env.default, c.default, NoName) \in Names
        /\ Switched(env.readOnly, c.readOnly) \in BOOLEAN
        /\ OverriddenAuth(c.auth) \in Auths
    BY AuthOverridden DEF Configs, Envs, Or, Switched
  <1> QED BY <1>1 DEF Overridden, Configs

LEMMA ConfigDefaulted == ASSUME NEW c \in Configs PROVE Defaulted(c) \in Configs
  <1>1. c.datasources \in Seq(Datasources) /\ c.default \in Names
        /\ c.logLevel \in {"", "known", "other"}
    BY DEF Configs
  <1>2. Or(c.logLevel, "known", "") \in {"", "known", "other"}
    BY <1>1 DEF Or
  <1>3. Timed(c.datasources) \in Seq(Datasources)
    <2>1. ASSUME NEW i \in DOMAIN c.datasources
          PROVE  [c.datasources[i] EXCEPT !.timeout = Or(@, "positive", "")] \in Datasources
      <3>1. c.datasources[i] \in Datasources
        BY <1>1, LenProperties, ElementOfSeq
      <3> QED BY <3>1, DatasourceDefaulted
    <2>2. DOMAIN c.datasources = 1 .. Len(c.datasources) /\ Len(c.datasources) \in Nat
      BY <1>1, LenProperties
    <2> QED BY <2>1, <2>2, FunctionIsSeq DEF Timed
  <1>4. DefaultOf(c) \in Names
    <2>1. ASSUME Len(c.datasources) = 1 PROVE c.datasources[1].name \in Names
      <3>1. 1 \in 1 .. Len(c.datasources)
        BY <2>1
      <3>2. c.datasources[1] \in Datasources
        BY <1>1, <3>1, ElementOfSeq
      <3> QED BY <3>2 DEF Datasources
    <2> QED BY <1>1, <2>1 DEF DefaultOf
  <1> QED BY <1>2, <1>3, <1>4 DEF Defaulted, Configs

\* What Load makes of the switches: later steps never touch them.
LEMMA SwitchesLoaded ==
    ASSUME NEW c \in Configs, env \in Envs
    PROVE  /\ Defaulted(Overridden(c)).readOnly = Switched(env.readOnly, c.readOnly)
           /\ Defaulted(Overridden(c)).auth.enabled = Switched(env.auth, c.auth.enabled)
  BY DEF Defaulted, Overridden, OverriddenAuth, Configs, Auths

LEMMA InitHolds == Init => ConfigInv
  <1> SUFFICES ASSUME Init PROVE ConfigInv
    OBVIOUS
  <1>1. TypeOK
    BY DEF Init, TypeOK, Stages
  <1> QED BY <1>1 DEF Init, ConfigInv, Loaded, RegistryBuilt, TokensBuilt, VerifiersBuilt, LateFailures

\* A load that succeeds or not.
LEMMA LoadHolds == ASSUME ConfigInv, Load PROVE ConfigInv'
  <1>1. TypeOK /\ stage = "start" /\ file \in Configs /\ env \in Envs
    BY DEF ConfigInv, TypeOK, Load
  <1>2. Defaulted(Overridden(file)) \in Configs
    BY <1>1, ConfigOverridden, ConfigDefaulted
  <1>3. TypeOK'
    BY <1>1, <1>2 DEF Load, End, TypeOK, Stages
  <1>4. Loaded'
    <2>1. Defaulted(Overridden(file))' = Defaulted(Overridden(file))
      BY DEF Load, Defaulted, Overridden, OverriddenAuth
    <2>2. CASE stage' = "refused"
      BY <1>1, <2>2 DEF ConfigInv, Loaded, Load, End
    <2>3. CASE stage' = "build"
      BY <1>1, <2>1, <2>3 DEF Loaded, Load, End
    <2> QED BY <2>2, <2>3 DEF Load, End
  <1>5. /\ registry' = [n \in {} |-> {}] /\ next' = 1
        /\ inline' = {} /\ files' = {} /\ verifiers' = {}
        /\ stage' \in {"refused", "build"} /\ LateFailures'
    BY <1>1 DEF ConfigInv, Loaded, TokensBuilt, VerifiersBuilt, LateFailures, Load, End
  <1>6. RegistryBuilt'
    <2>1. Valid(cfg') /\ cfg' \in Configs => \A i \in DOMAIN cfg'.datasources : ~ i < 1
      <3> SUFFICES ASSUME cfg' \in Configs, NEW i \in DOMAIN cfg'.datasources PROVE ~ i < 1
        OBVIOUS
      <3>1. cfg'.datasources \in Seq(Datasources)
        BY DEF Configs
      <3>2. i \in 1 .. Len(cfg'.datasources) /\ Len(cfg'.datasources) \in Nat
        BY <3>1, LenProperties
      <3> QED BY <3>2
    <2>2. stage' = "build" => Valid(cfg')
      BY DEF Load, End
    <2> QED BY <1>3, <1>5, <2>1, <2>2 DEF RegistryBuilt, TypeOK
  <1>7. TokensBuilt' /\ VerifiersBuilt'
    BY <1>5 DEF TokensBuilt, VerifiersBuilt
  <1> QED BY <1>3, <1>4, <1>5, <1>6, <1>7 DEF ConfigInv

\* A step that leaves the configuration alone leaves what was loaded.
LEMMA LoadedStays ==
    ASSUME Loaded, UNCHANGED <<file, env, cfg, warned>>,
           stage \notin {"start", "refused"}, stage' \notin {"start", "refused"}
    PROVE  Loaded' /\ Valid(cfg)
  <1>1. Defaulted(Overridden(file))' = Defaulted(Overridden(file))
    BY DEF Defaulted, Overridden, OverriddenAuth
  <1> QED BY <1>1 DEF Loaded

LEMMA BuiltIsEntry ==
    ASSUME NEW d \in Datasources, ValidDatasource(d) PROVE Built(d) \in Entries /\ d.name \in Names
  BY DEF Datasources, ValidDatasource, KnownType, Built, Entries, Roots, SecretFrom

LEMMA BuildHolds == ASSUME ConfigInv, BuildDatasource PROVE ConfigInv'
  <1>1. TypeOK /\ Loaded /\ RegistryBuilt /\ TokensBuilt /\ VerifiersBuilt /\ LateFailures
    BY DEF ConfigInv
  <1>2. /\ stage = "build" /\ next \in Nat \ {0} /\ next <= Len(cfg.datasources)
        /\ UNCHANGED <<file, env, cfg, inline, files, verifiers, warned>>
        /\ stage' \in {"build", "failed"}
    BY <1>1 DEF BuildDatasource, TypeOK, End
  <1>3. Loaded' /\ Valid(cfg)
    BY <1>1, <1>2, LoadedStays
  <1>4. cfg.datasources \in Seq(Datasources)
    BY <1>1 DEF TypeOK, Configs
  <1>5. /\ DOMAIN cfg.datasources = 1 .. Len(cfg.datasources) /\ Len(cfg.datasources) \in Nat
        /\ next \in DOMAIN cfg.datasources
    BY <1>2, <1>4, LenProperties
  <1> DEFINE d == cfg.datasources[next]
  <1>6. d \in Datasources /\ ValidDatasource(d)
    BY <1>3, <1>4, <1>5, ElementOfSeq DEF Valid
  <1>7. d.timeout # "junk" /\ Built(d) \in Entries /\ d.name \in Names
    BY <1>6, BuiltIsEntry DEF ValidDatasource
  <1>8. TokensBuilt' /\ VerifiersBuilt'
    BY <1>1, <1>2 DEF TokensBuilt, VerifiersBuilt
  <1>9. CASE /\ stage' = "failed" /\ UNCHANGED <<next, registry>>
             /\ why' = "ca" \/ (why' = "caData" /\ OnlyJunk(d))
    <2>1. TypeOK' /\ RegistryBuilt'
      BY <1>1, <1>2, <1>9 DEF TypeOK, Stages, RegistryBuilt
    <2>2. LateFailures'
      BY <1>2, <1>5, <1>9 DEF LateFailures
    <2> QED BY <1>3, <1>8, <2>1, <2>2 DEF ConfigInv
  <1>10. CASE /\ ~ OnlyJunk(d)
              /\ registry' = [n \in DOMAIN registry \cup {d.name} |->
                                IF n = d.name THEN Built(d) ELSE registry[n]]
              /\ next' = next + 1 /\ UNCHANGED <<stage, why>>
    <2>1. TypeOK' /\ LateFailures'
      BY <1>1, <1>2, <1>7, <1>10 DEF TypeOK, LateFailures
    <2>2. ASSUME NEW n \in DOMAIN registry'
          PROVE  \E i \in DOMAIN cfg'.datasources :
                    n = cfg'.datasources[i].name /\ registry'[n] = Built(cfg'.datasources[i])
      <3>1. CASE n = d.name
        BY <1>2, <1>5, <1>10, <3>1
      <3>2. CASE n # d.name
        <4>1. n \in DOMAIN registry /\ registry'[n] = registry[n]
          BY <1>10, <2>2, <3>2
        <4> QED BY <1>1, <1>2, <4>1 DEF RegistryBuilt
      <3> QED BY <3>1, <3>2
    <2>3. ASSUME NEW i \in DOMAIN cfg'.datasources, i < next'
          PROVE  cfg'.datasources[i].name \in DOMAIN registry' /\ ~ OnlyJunk(cfg'.datasources[i])
      <3>1. i \in DOMAIN cfg.datasources /\ i \in Nat /\ (i < next \/ i = next)
        BY <1>2, <1>5, <1>10, <2>3
      <3>2. i < next => cfg.datasources[i].name \in DOMAIN registry /\ ~ OnlyJunk(cfg.datasources[i])
        BY <1>1, <1>2, <3>1 DEF RegistryBuilt
      <3> QED BY <1>2, <1>10, <3>1, <3>2
    <2>4. RegistryBuilt'
      BY <1>2, <1>10, <2>2, <2>3 DEF RegistryBuilt
    <2> QED BY <1>3, <1>8, <2>1, <2>4 DEF ConfigInv
  <1> QED BY <1>7, <1>9, <1>10 DEF BuildDatasource, End

LEMMA DatasourcesHold == ASSUME ConfigInv, DatasourcesBuilt PROVE ConfigInv'
  <1>1. TypeOK /\ Loaded /\ RegistryBuilt /\ TokensBuilt /\ VerifiersBuilt /\ LateFailures
    BY DEF ConfigInv
  <1>2. /\ stage = "build" /\ next \in Nat \ {0} /\ next > Len(cfg.datasources)
        /\ UNCHANGED <<file, env, cfg, registry, inline, files, verifiers, warned>>
        /\ stage' \in {"auth", "failed"}
    BY <1>1 DEF DatasourcesBuilt, TypeOK, End
  <1>3. Loaded' /\ Valid(cfg)
    BY <1>1, <1>2, LoadedStays
  <1>4. cfg.datasources \in Seq(Datasources)
    BY <1>1 DEF TypeOK, Configs
  <1>5. DOMAIN cfg.datasources = 1 .. Len(cfg.datasources) /\ Len(cfg.datasources) \in Nat
    BY <1>4, LenProperties
  <1>6. \A i \in DOMAIN cfg.datasources : cfg.datasources[i].name \in DOMAIN registry
    BY <1>1, <1>2, <1>5 DEF RegistryBuilt
  <1>7. cfg.default \in DOMAIN registry
    BY <1>3, <1>6 DEF Valid, DefaultKnown, NamesOf
  <1>8. stage' = "auth" /\ next' = 1 /\ UNCHANGED why
    BY <1>7 DEF DatasourcesBuilt
  <1>9. TypeOK' /\ RegistryBuilt' /\ LateFailures' /\ VerifiersBuilt'
    BY <1>1, <1>2, <1>6, <1>8 DEF TypeOK, Stages, RegistryBuilt, LateFailures, VerifiersBuilt
  <1>10. TokensBuilt'
    <2>1. cfg.auth.tokens \in Seq(Tokens)
      BY <1>1 DEF TypeOK, Configs, Auths
    <2>2. \A i \in DOMAIN cfg.auth.tokens : i \in Nat /\ ~ i < 1
      BY <2>1, LenProperties
    <2>3. inline = {} /\ files = {}
      BY <1>1, <1>2 DEF TokensBuilt
    <2> QED BY <1>2, <1>8, <2>2, <2>3 DEF TokensBuilt
  <1> QED BY <1>3, <1>9, <1>10 DEF ConfigInv

\* The steps of auth.Build leave the registry alone.
LEMMA RegistryStays ==
    ASSUME RegistryBuilt, UNCHANGED <<cfg, registry>>,
           stage \in {"auth", "discover", "chain"}, stage' \in {"auth", "discover", "chain", "ready", "failed"}
    PROVE  RegistryBuilt'
  BY DEF RegistryBuilt

LEMMA AuthDisabledHolds == ASSUME ConfigInv, AuthDisabled PROVE ConfigInv'
  <1>1. TypeOK /\ Loaded /\ RegistryBuilt /\ TokensBuilt /\ VerifiersBuilt /\ LateFailures
    BY DEF ConfigInv
  <1>2. Loaded' /\ RegistryBuilt'
    BY <1>1, LoadedStays, RegistryStays DEF AuthDisabled
  <1>3. TypeOK' /\ TokensBuilt' /\ VerifiersBuilt' /\ LateFailures'
    BY <1>1 DEF AuthDisabled, TypeOK, Stages, TokensBuilt, VerifiersBuilt, LateFailures
  <1> QED BY <1>2, <1>3 DEF ConfigInv

LEMMA AddTokenHolds == ASSUME ConfigInv, AddToken PROVE ConfigInv'
  <1>1. TypeOK /\ Loaded /\ RegistryBuilt /\ TokensBuilt /\ VerifiersBuilt /\ LateFailures
    BY DEF ConfigInv
  <1>2. /\ stage = "auth" /\ cfg.auth.enabled /\ cfg.auth.static /\ next \in Nat \ {0}
        /\ next <= Len(cfg.auth.tokens)
        /\ UNCHANGED <<file, env, cfg, registry, verifiers, warned>>
        /\ stage' \in {"auth", "failed"}
    BY <1>1 DEF AddToken, TypeOK, End
  <1>3. Loaded' /\ Valid(cfg) /\ RegistryBuilt'
    BY <1>1, <1>2, LoadedStays, RegistryStays
  <1>4. cfg.auth.tokens \in Seq(Tokens)
    BY <1>1 DEF TypeOK, Configs, Auths
  <1>5. /\ DOMAIN cfg.auth.tokens = 1 .. Len(cfg.auth.tokens) /\ Len(cfg.auth.tokens) \in Nat
        /\ next \in DOMAIN cfg.auth.tokens
    BY <1>2, <1>4, LenProperties
  <1> DEFINE t == cfg.auth.tokens[next]
  <1>6. t \in Tokens /\ t.from \in OnePlace
    BY <1>2, <1>3, <1>4, <1>5, ElementOfSeq DEF Valid, ValidAuth
  <1>7. VerifiersBuilt'
    BY <1>1, <1>2 DEF VerifiersBuilt
  <1>8. CASE stage' = "failed" /\ why' = "token" /\ UNCHANGED <<next, inline, files>>
    <2>1. TypeOK' /\ TokensBuilt' /\ LateFailures'
      BY <1>1, <1>2, <1>8 DEF TypeOK, Stages, TokensBuilt, LateFailures
    <2> QED BY <1>3, <1>7, <2>1 DEF ConfigInv
  <1>9. CASE /\ files' = IF "file" \in t.from THEN files \cup {t.name} ELSE files
             /\ inline' = IF t.from = {"inline"} THEN inline \cup {t.name} ELSE inline
             /\ next' = next + 1 /\ UNCHANGED <<stage, why>>
    <2>1. t.name \in TokenNames /\ t = [name |-> t.name, from |-> t.from]
      BY <1>6 DEF Tokens
    <2>2. \/ t.from = {"inline"} /\ inline' = inline \cup {t.name} /\ files' = files
          \/ t.from = {"file"} /\ inline' = inline /\ files' = files \cup {t.name}
      BY <1>6, <1>9
    <2> HIDE DEF t
    <2>3. TypeOK' /\ LateFailures'
      BY <1>1, <1>2, <1>9, <2>1, <2>2 DEF TypeOK, LateFailures
    <2>4. ASSUME NEW n \in inline'
          PROVE  \E i \in DOMAIN cfg'.auth.tokens : cfg'.auth.tokens[i] = [name |-> n, from |-> {"inline"}]
      BY <1>1, <1>2, <1>5, <2>1, <2>2, <2>4 DEF TokensBuilt, t
    <2>5. ASSUME NEW n \in files'
          PROVE  \E i \in DOMAIN cfg'.auth.tokens : cfg'.auth.tokens[i] = [name |-> n, from |-> {"file"}]
      BY <1>1, <1>2, <1>5, <2>1, <2>2, <2>5 DEF TokensBuilt, t
    <2>6. ASSUME NEW i \in DOMAIN cfg'.auth.tokens, i < next'
          PROVE  cfg'.auth.tokens[i].name \in inline' \cup files'
      <3>1. i \in DOMAIN cfg.auth.tokens /\ (i < next \/ i = next)
        BY <1>2, <1>5, <1>9, <2>6
      <3>2. i < next => cfg.auth.tokens[i].name \in inline \cup files
        BY <1>1, <1>2, <3>1 DEF TokensBuilt
      <3>3. i = next => cfg.auth.tokens[i].name = t.name
        BY DEF t
      <3> QED BY <1>2, <2>2, <3>1, <3>2, <3>3
    <2>7. TokensBuilt'
      BY <1>2, <1>9, <2>4, <2>5, <2>6 DEF TokensBuilt
    <2> QED BY <1>3, <1>7, <2>3, <2>7 DEF ConfigInv
  <1> QED BY <1>8, <1>9 DEF AddToken, End

LEMMA TokensHold == ASSUME ConfigInv, TokensAdded PROVE ConfigInv'
  <1>1. TypeOK /\ Loaded /\ RegistryBuilt /\ TokensBuilt /\ VerifiersBuilt /\ LateFailures
    BY DEF ConfigInv
  <1>2. /\ stage = "auth" /\ cfg.auth.enabled /\ stage' \in {"discover", "chain"}
        /\ UNCHANGED <<file, env, cfg, why, next, registry, inline, files, warned>>
    BY DEF TokensAdded
  <1>3. Loaded' /\ RegistryBuilt'
    BY <1>1, <1>2, LoadedStays, RegistryStays
  <1>4. TypeOK' /\ LateFailures' /\ VerifiersBuilt'
    BY <1>1, <1>2 DEF TokensAdded, TypeOK, Stages, LateFailures, VerifiersBuilt
  <1>5. TokensBuilt'
    <2>1. cfg.auth.tokens \in Seq(Tokens) /\ next \in Nat
      BY <1>1 DEF TypeOK, Configs, Auths
    <2>2. DOMAIN cfg.auth.tokens = 1 .. Len(cfg.auth.tokens) /\ Len(cfg.auth.tokens) \in Nat
      BY <2>1, LenProperties
    <2>3. cfg.auth.static => \A i \in DOMAIN cfg.auth.tokens : i < next
      BY <2>1, <2>2 DEF TokensAdded
    <2> QED BY <1>1, <1>2, <2>3 DEF TokensBuilt
  <1> QED BY <1>3, <1>4, <1>5 DEF ConfigInv

LEMMA DiscoverHolds == ASSUME ConfigInv, Discover PROVE ConfigInv'
  <1>1. TypeOK /\ Loaded /\ RegistryBuilt /\ TokensBuilt /\ VerifiersBuilt /\ LateFailures
    BY DEF ConfigInv
  <1>2. /\ stage = "discover" /\ stage' \in {"chain", "failed"}
        /\ UNCHANGED <<file, env, cfg, next, registry, inline, files, warned>>
    BY DEF Discover, End
  <1>3. Loaded' /\ Valid(cfg) /\ RegistryBuilt'
    BY <1>1, <1>2, LoadedStays, RegistryStays
  <1>4. cfg.auth.enabled /\ cfg.auth.oidc
    BY <1>1, <1>2 DEF VerifiersBuilt
  <1>5. cfg.auth.metadata => Resource(cfg.auth) = "uri"
    BY <1>3, <1>4 DEF Valid, ValidAuth
  <1>6. \/ why' = "issuer" /\ stage' = "failed" /\ UNCHANGED verifiers
        \/ stage' = "chain" /\ verifiers' = verifiers \cup {"oidc"} /\ UNCHANGED why
    <2>1. ~ (cfg.auth.metadata /\ Resource(cfg.auth) # "uri")
      BY <1>5
    <2>2. \/ End("failed", "issuer") /\ UNCHANGED verifiers
          \/ verifiers' = verifiers \cup {"oidc"} /\ stage' = "chain" /\ UNCHANGED why
      BY <2>1 DEF Discover
    <2> QED BY <2>2 DEF End
  <1>7. TypeOK' /\ LateFailures' /\ VerifiersBuilt'
    BY <1>1, <1>2, <1>4, <1>6 DEF TypeOK, Stages, LateFailures, VerifiersBuilt
  <1>8. TokensBuilt'
    BY <1>1, <1>2 DEF TokensBuilt
  <1> QED BY <1>3, <1>7, <1>8 DEF ConfigInv

LEMMA ChainHolds == ASSUME ConfigInv, Chain PROVE ConfigInv'
  <1>1. TypeOK /\ Loaded /\ RegistryBuilt /\ TokensBuilt /\ VerifiersBuilt /\ LateFailures
    BY DEF ConfigInv
  <1>2. /\ stage = "chain" /\ stage' \in {"ready", "failed"}
        /\ UNCHANGED <<file, env, cfg, next, registry, inline, files, verifiers, warned>>
    BY DEF Chain, End
  <1>3. Loaded' /\ Valid(cfg) /\ RegistryBuilt'
    BY <1>1, <1>2, LoadedStays, RegistryStays
  <1>4. verifiers # {}
    BY <1>1, <1>2, <1>3 DEF VerifiersBuilt, Valid, ValidAuth
  <1>5. stage' = "ready" /\ UNCHANGED why
    BY <1>4 DEF Chain
  <1>6. TypeOK' /\ LateFailures' /\ VerifiersBuilt' /\ TokensBuilt'
    BY <1>1, <1>2, <1>5 DEF TypeOK, Stages, LateFailures, VerifiersBuilt, TokensBuilt
  <1> QED BY <1>3, <1>6 DEF ConfigInv

LEMMA StepHolds == ConfigInv /\ [Next]_vars => ConfigInv'
  <1>1. ASSUME ConfigInv, UNCHANGED vars PROVE ConfigInv'
    BY <1>1 DEF vars, ConfigInv, TypeOK, Loaded, RegistryBuilt, TokensBuilt, VerifiersBuilt,
             LateFailures, Defaulted, Overridden, OverriddenAuth
  <1> QED BY <1>1, LoadHolds, BuildHolds, DatasourcesHold, AuthDisabledHolds, AddTokenHolds,
             TokensHold, DiscoverHolds, ChainHolds DEF Next, Over

\* What is built at every step is what comes of the file, the environment and
\* the defaults.
THEOREM SpecConfigInv == Spec => []ConfigInv
  BY InitHolds, StepHolds, PTL DEF Spec

\* A configuration that Validate lets pass fails later by what lies outside it, or
\* by inline certificates that are none, and with these it always fails.
THEOREM SpecLateFailures == Spec => []LateFailures
  <1>1. ConfigInv => LateFailures
    BY DEF ConfigInv
  <1> QED BY <1>1, SpecConfigInv, PTL

LEMMA InvBuilt == ConfigInv => BuiltAsConfigured
  <1> SUFFICES ASSUME ConfigInv PROVE BuiltAsConfigured
    OBVIOUS
  <1>1. TypeOK /\ Loaded /\ RegistryBuilt /\ TokensBuilt /\ VerifiersBuilt
    BY DEF ConfigInv
  <1>2. ASSUME stage \in {"auth", "discover", "chain", "ready"}
        PROVE  /\ R!RegistryAssumption
               /\ \A i \in DOMAIN cfg.datasources :
                     registry[cfg.datasources[i].name] = Built(cfg.datasources[i])
    <2>1. Valid(cfg)
      BY <1>1, <1>2 DEF Loaded
    <2>2. DOMAIN registry = NamesOf(cfg)
      BY <1>1, <1>2 DEF RegistryBuilt, NamesOf
    <2>3. ASSUME NEW i \in DOMAIN cfg.datasources
          PROVE  registry[cfg.datasources[i].name] = Built(cfg.datasources[i])
      <3>1. cfg.datasources[i].name \in DOMAIN registry
        BY <1>1, <1>2 DEF RegistryBuilt
      <3>2. PICK j \in DOMAIN cfg.datasources :
              /\ cfg.datasources[i].name = cfg.datasources[j].name
              /\ registry[cfg.datasources[i].name] = Built(cfg.datasources[j])
        BY <1>1, <3>1 DEF RegistryBuilt
      <3>3. i = j
        BY <2>1, <3>2 DEF Valid, NamesDiffer
      <3> QED BY <3>2, <3>3
    <2>4. NoName \notin NamesOf(cfg) /\ cfg.default \in NamesOf(cfg)
      BY <2>1 DEF Valid, ValidDatasource, DefaultKnown, NamesOf
    <2>5. \A n \in NamesOf(cfg) : registry[n].type \in Types
      BY <1>1, <2>2 DEF TypeOK, Entries
    <2>6. cfg.readOnly \in BOOLEAN
      BY <1>1 DEF TypeOK, Configs
    <2>7. R!RegistryAssumption
      BY <2>2, <2>4, <2>5, <2>6 DEF R!RegistryAssumption, R!Types, R!MetricsTypes
    <2> QED BY <2>3, <2>7
  <1>3. ASSUME stage = "ready", cfg.auth.enabled
        PROVE  /\ verifiers # {}
               /\ verifiers = {v \in {"static", "oidc"} :
                                  IF v = "static" THEN cfg.auth.static ELSE cfg.auth.oidc}
    <2>1. Valid(cfg)
      BY <1>1, <1>3 DEF Loaded
    <2>2. verifiers \subseteq {"static", "oidc"}
      BY <1>1 DEF TypeOK
    <2>3. /\ "static" \in verifiers <=> cfg.auth.static
          /\ "oidc" \in verifiers <=> cfg.auth.oidc
      BY <1>1, <1>3 DEF VerifiersBuilt
    <2> QED BY <1>3, <2>1, <2>2, <2>3 DEF Valid, ValidAuth
  <1>4. ASSUME stage = "ready", cfg.auth.enabled, cfg.auth.static, NEW i \in DOMAIN cfg.auth.tokens
        PROVE  LET t == cfg.auth.tokens[i]
               IN  /\ t.name \in inline <=> t.from = {"inline"}
                   /\ t.name \in files <=> t.from = {"file"}
    <2> DEFINE t == cfg.auth.tokens[i]
    <2>1. NamesDiffer(cfg.auth.tokens) /\ t.from \in OnePlace
      BY <1>1, <1>4 DEF Loaded, Valid, ValidAuth
    <2>2. t.name \in inline \cup files
      BY <1>1, <1>4 DEF TokensBuilt
    <2>3. t.name \in inline => t.from = {"inline"}
      <3> SUFFICES ASSUME t.name \in inline PROVE t.from = {"inline"}
        OBVIOUS
      <3>1. PICK j \in DOMAIN cfg.auth.tokens : cfg.auth.tokens[j] = [name |-> t.name, from |-> {"inline"}]
        BY <1>1 DEF TokensBuilt
      <3>2. cfg.auth.tokens[j].name = t.name /\ cfg.auth.tokens[j].from = {"inline"}
        BY <3>1
      <3>3. i = j
        BY <2>1, <3>2 DEF NamesDiffer
      <3> QED BY <3>2, <3>3
    <2>4. t.name \in files => t.from = {"file"}
      <3> SUFFICES ASSUME t.name \in files PROVE t.from = {"file"}
        OBVIOUS
      <3>1. PICK j \in DOMAIN cfg.auth.tokens : cfg.auth.tokens[j] = [name |-> t.name, from |-> {"file"}]
        BY <1>1 DEF TokensBuilt
      <3>2. cfg.auth.tokens[j].name = t.name /\ cfg.auth.tokens[j].from = {"file"}
        BY <3>1
      <3>3. i = j
        BY <2>1, <3>2 DEF NamesDiffer
      <3> QED BY <3>2, <3>3
    <2>5. {"inline"} # {"file"}
      OBVIOUS
    <2> QED BY <2>2, <2>3, <2>4, <2>5
  <1> QED BY <1>2, <1>3, <1>4 DEF BuiltAsConfigured

\* The registry and the verifiers are those of the configuration, and the
\* registry is one that the other modules may assume.
THEOREM SpecBuiltAsConfigured == Spec => []BuiltAsConfigured
  BY InvBuilt, SpecConfigInv, PTL

\* A connection that is not verified or a secret in the clear is never used
\* without a warning.
THEOREM SpecInsecureIsSaid == Spec => []InsecureIsSaid
  <1>1. ASSUME ConfigInv PROVE InsecureIsSaid
    <2>1. Loaded /\ RegistryBuilt /\ TokensBuilt
      BY <1>1 DEF ConfigInv
    <2>2. ASSUME NEW n \in DOMAIN registry
          PROVE  /\ registry[n].roots = "unverified" => <<"insecure", n>> \in warned
                 /\ registry[n].secret = "inline" => <<"secret", n>> \in warned
      <3>1. PICK i \in DOMAIN cfg.datasources :
               n = cfg.datasources[i].name /\ registry[n] = Built(cfg.datasources[i])
        BY <2>1 DEF RegistryBuilt
      <3>2. warned = Warnings(cfg) /\ Valid(cfg)
        BY <2>1, <2>2 DEF Loaded
      <3> DEFINE d == cfg.datasources[i]
      <3>3. ValidDatasource(d)
        BY <3>2 DEF Valid
      <3>4. registry[n].roots = "unverified" => d.insecure
        BY <3>1 DEF Built, Roots
      <3>5. registry[n].secret = "inline" => (d.basic \/ d.bearer) /\ "inline" \in d.secret
        <4> SUFFICES ASSUME registry[n].secret = "inline"
                     PROVE  (d.basic \/ d.bearer) /\ "inline" \in d.secret
          OBVIOUS
        <4>1. SecretFrom(d) = "inline"
          BY <3>1 DEF Built
        <4>2. (d.basic \/ d.bearer) /\ "file" \notin d.secret
          BY <4>1 DEF SecretFrom
        <4> QED BY <3>3, <4>2 DEF ValidDatasource
      <3> QED BY <3>1, <3>2, <3>4, <3>5 DEF Warnings
    <2>3. ASSUME NEW n \in inline PROVE <<"token", n>> \in warned
      <3>1. PICK i \in DOMAIN cfg.auth.tokens : cfg.auth.tokens[i] = [name |-> n, from |-> {"inline"}]
        BY <2>1 DEF TokensBuilt
      <3>2. cfg.auth.tokens[i].name = n /\ "inline" \in cfg.auth.tokens[i].from
        BY <3>1
      <3>3. cfg.auth.static /\ warned = Warnings(cfg)
        BY <2>1, <2>3 DEF TokensBuilt, Loaded
      <3> QED BY <3>2, <3>3 DEF Warnings, TokenWarnings
    <2> QED BY <2>2, <2>3 DEF InsecureIsSaid
  <1> QED BY <1>1, SpecConfigInv, PTL

\* No override that cannot be parsed takes the read-only switch or the
\* authentication of the file away.
THEOREM SpecProtectionKept == Spec => []ProtectionKept
  <1>1. ASSUME ConfigInv PROVE ProtectionKept
    <2> SUFFICES ASSUME stage = "ready" PROVE ProtectionKept
      BY DEF ProtectionKept
    <2>1. file \in Configs /\ env \in Envs /\ cfg = Defaulted(Overridden(file))
      BY <1>1 DEF ConfigInv, TypeOK, Loaded
    <2>2. /\ cfg.readOnly = Switched(env.readOnly, file.readOnly)
          /\ cfg.auth.enabled = Switched(env.auth, file.auth.enabled)
      BY <2>1, SwitchesLoaded
    <2>3. env.readOnly \in Switches /\ env.auth \in Switches
      BY <2>1 DEF Envs
    <2> QED BY <2>2, <2>3 DEF Switched, Switches, ProtectionKept
  <1> QED BY <1>1, SpecConfigInv, PTL

=============================================================================
