\* Two calls at a time, every kind of tool, refusal and failure.
SPECIFICATION Spec
CONSTANTS
    Names = {"vm", "am", "amro"}
    NoName = ""
    DefaultName = "am"
    TypeOf <- MCTypeOf
    ReadOnlyNames = {"amro"}
    GlobalReadOnly = FALSE
    BoundedNames = {"vm", "am", "amro"}
    FileCredNames = {"vm"}
    Calls = {c1, c2}
    AskedTools = {"metrics_query", "alertmanager_silence_create", "alertmanager_silence_delete"}
    AskedNames = {"", "vm", "amro"}
    Bodies = {"b"}
    Others = {s1}
    OthersOn <- MCOthersOn
    NoSilence = s0
    WordsIn <- MCPlainNames
    ErrorWords <- MCNoWords
    ErrorStatuses = {"4xx"}
    RedirectsSent = {"rewrites", "repeats"}
    MaxFollowed = 1
    MaxRotations = 1
SYMMETRY CallSymmetry
INVARIANTS
    TypeOK
    PipelineInv
    AnswerTrue
    FreshCredential
    BlockedCountsAgree
PROPERTIES
    ReadOnlyUntouched
    ImplementsService
