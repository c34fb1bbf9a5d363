\* The kill-switch, the counters and fairness: "vl" has no timeout and may never
\* answer, errors may say "forbidden", names do not tell.
SPECIFICATION FairSpec
CONSTANTS
    Names = {"vl", "am", "amro"}
    NoName = ""
    DefaultName = "am"
    TypeOf <- MCLogsAM
    ReadOnlyNames = {"amro"}
    GlobalReadOnly = TRUE
    BoundedNames = {"am", "amro"}
    FileCredNames = {}
    Calls = {c1, c2}
    AskedTools = {"logs_query", "alertmanager_alerts", "alertmanager_silence_create", "alertmanager_silence_delete"}
    AskedNames = {"", "vl", "amro"}
    Bodies = {"b"}
    Others = {s1}
    OthersOn <- MCOthersOn
    NoSilence = s0
    WordsIn <- MCPlainNames
    ErrorWords <- MCForbidden
    ErrorStatuses = {"3xx", "4xx", "5xx"}
    RedirectsSent = {"rewrites", "repeats"}
    MaxFollowed = 1
    MaxRotations = 0
INVARIANTS
    CallsCounted
    RequestsCounted
    BlockedCountsAgree
PROPERTIES
    ReadOnlyUntouched
    BoundedCallsAnswered
