------------------------------ MODULE Registry ------------------------------
(***************************************************************************)
(* The configured datasources as every other part of the server sees them  *)
(* after start-up: internal/datasources (Registry, Datasource) and the     *)
(* guards of internal/mcpserver/params.go.  The registry is built once and *)
(* never changed afterwards, so it is made of constants here.              *)
(***************************************************************************)

CONSTANTS
    Names,           \* names of the configured datasources
    NoName,          \* the datasource argument left out of a request ("")
    DefaultName,     \* cfg.DefaultDatasource
    TypeOf,          \* the type of each datasource
    ReadOnlyNames,   \* the datasources configured with readOnly: true
    GlobalReadOnly,  \* cfg.ReadOnly, the global kill-switch
    BoundedNames,    \* the datasources whose HTTP client has a timeout above zero
    FileCredNames    \* the datasources whose credential is read from a file

MetricsTypes == {"victoriametrics", "prometheus"}
Types        == MetricsTypes \cup {"victorialogs", "alertmanager"}

\* config.Validate and datasources.Build refuse to start otherwise.
ASSUME RegistryAssumption ==
    /\ NoName \notin Names
    /\ DefaultName \in Names
    /\ TypeOf \in [Names -> Types]
    /\ ReadOnlyNames \subseteq Names
    /\ GlobalReadOnly \in BOOLEAN
    /\ BoundedNames \subseteq Names
    /\ FileCredNames \subseteq Names

-----------------------------------------------------------------------------

\* Registry.Get: an omitted name stands for the default datasource.
Resolve(name) == IF name = NoName THEN DefaultName ELSE name
Known(name)   == Resolve(name) \in Names

IsMetrics(d)      == TypeOf[d] \in MetricsTypes
IsLogs(d)         == TypeOf[d] = "victorialogs"
IsAlertmanager(d) == TypeOf[d] = "alertmanager"

\* assertWritable: the reason for which a mutation of d is blocked, or "none".
\* The global switch is looked at first, so it names the reason when both hold.
WriteBlock(d) ==
    IF GlobalReadOnly THEN "global_readonly"
    ELSE IF d \in ReadOnlyNames THEN "datasource_readonly"
    ELSE "none"

WriteBlocks == {"global_readonly", "datasource_readonly"}

=============================================================================
