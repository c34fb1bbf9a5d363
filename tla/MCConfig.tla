------------------------------ MODULE MCConfig ------------------------------
\* Values of the constants of Config for TLC.
EXTENDS Config

MCDatasource ==
    [name |-> "vm", type |-> "prometheus", url |-> "http", timeout |-> "", insecure |-> FALSE,
     ca |-> {}, basic |-> FALSE, bearer |-> FALSE, user |-> FALSE, secret |-> {},
     readOnly |-> FALSE]

\* One that is right in every respect, and variants with one setting or flaw.
MCDatasources ==
    LET d == MCDatasource
    IN  {[d EXCEPT !.name = n] : n \in {"vm", "am", "Not_a_label"}}
        \cup {[d EXCEPT !.type = t] : t \in {"alertmanager", "unknown"}}
        \cup {[d EXCEPT !.url = "unusable"]}
        \cup {[d EXCEPT !.timeout = t] : t \in {"none", "junk"}}
        \cup {[d EXCEPT !.name = "am", !.insecure = b, !.ca = c] :
                 b \in BOOLEAN, c \in {{}, {"file"}, {"pem"}, {"junk"}, {"file", "junk"}}}
        \cup {[d EXCEPT !.basic = TRUE, !.user = u, !.secret = s] :
                 u \in BOOLEAN, s \in SUBSET Places}
        \cup {[d EXCEPT !.name = "am", !.basic = b, !.bearer = TRUE, !.user = TRUE, !.secret = s] :
                 b \in BOOLEAN, s \in OnePlace}
        \cup {[d EXCEPT !.readOnly = TRUE]}

MCNoAuth ==
    [enabled |-> FALSE, static |-> FALSE, tokens |-> <<>>, oidc |-> FALSE, issuer |-> "",
     audience |-> "", resource |-> "", metadata |-> TRUE]

MCConfigOf(datasources, default, readOnly, auth) ==
    [logLevel |-> "", datasources |-> datasources, default |-> default, readOnly |-> readOnly,
     auth |-> auth]

\* Up to two datasources of any kind, the default given or left out.
MCDatasourceConfigs ==
    {MCConfigOf(s, n, FALSE, MCNoAuth) :
        s \in {<<>>} \cup {<<d>> : d \in MCDatasources}
                     \cup {<<d, e>> : d \in MCDatasources, e \in MCDatasources},
        n \in {"", "vm"}}

\* Static tokens: none, one of a file, an inline one, both, both of one name,
\* one that clashes with the environment's and one without a value.
MCTokens ==
    LET T(n, s) == [name |-> n, from |-> s]
    IN  {<<>>, <<T("ops", {"file"})>>, <<T("ops", {"inline"})>>,
         <<T("ops", {"file"}), T("ci", {"inline"})>>, <<T("ops", {"file"}), T("ops", {"inline"})>>,
         <<T("env", {"inline"})>>, <<T("ci", {})>>}

MCAuths ==
    {[MCNoAuth EXCEPT !.enabled = e, !.static = s, !.tokens = t] :
        e \in BOOLEAN, s \in BOOLEAN, t \in MCTokens}
    \cup {[MCNoAuth EXCEPT !.enabled = TRUE, !.static = s, !.tokens = <<[name |-> "ops", from |-> {"file"}]>>,
                           !.oidc = TRUE, !.issuer = i, !.audience = a, !.resource = r, !.metadata = m] :
        s \in BOOLEAN, i \in {"", "https"}, a \in {"", "uri", "other"}, r \in {"", "uri"}, m \in BOOLEAN}

\* One good datasource and agent authentication of any kind.
MCAuthConfigs == {MCConfigOf(<<MCDatasource>>, "", r, a) : r \in BOOLEAN, a \in MCAuths}

MCFileConfigs == MCDatasourceConfigs \cup MCAuthConfigs

MCNoEnv ==
    [logLevel |-> "", default |-> "", readOnly |-> "unset", auth |-> "unset", token |-> FALSE,
     issuer |-> "", audience |-> "", resource |-> ""]

\* Nothing, one override of each kind, the switches with the token or the
\* issuer, and two names for the default.
MCEnvironments ==
    {[MCNoEnv EXCEPT !.logLevel = "other"]}
    \cup {[MCNoEnv EXCEPT !.default = n] : n \in {"", "am"}}
    \cup {[MCNoEnv EXCEPT !.readOnly = s, !.auth = s] : s \in Switches}
    \cup {[MCNoEnv EXCEPT !.auth = s, !.token = TRUE] : s \in Switches}
    \cup {[MCNoEnv EXCEPT !.auth = "true", !.issuer = "https", !.audience = a, !.resource = "uri"] :
             a \in {"", "other"}}

=============================================================================
