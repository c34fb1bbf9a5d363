\* A datasource whose name contains a word that classifyResult looks for.
SPECIFICATION Spec
CONSTANTS
    Names = {"vm-readonly"}
    NoName = ""
    DefaultName = "vm-readonly"
    TypeOf <- MCTellingType
    ReadOnlyNames = {}
    GlobalReadOnly = FALSE
    BoundedNames = {"vm-readonly"}
    FileCredNames = {}
    Calls = {c1, c2}
    AskedTools = {"logs_query"}
    AskedNames = {"", "ghost"}
    Bodies = {"b"}
    Others = {}
    OthersOn <- MCNoOthers
    NoSilence = s0
    WordsIn <- MCTellingNames
    ErrorWords <- MCNoWords
    ErrorStatuses = {"4xx"}
    RedirectsSent = {}
    MaxFollowed = 0
    MaxRotations = 0
INVARIANT BlockedCountsAgree
