\* Three calls on one Alertmanager: creates, their retries, deletes of either.
SPECIFICATION Spec
CONSTANTS
    Names = {"am"}
    NoName = ""
    DefaultName = "am"
    TypeOf <- MCOneAM
    ReadOnlyNames = {}
    GlobalReadOnly = FALSE
    BoundedNames = {"am"}
    FileCredNames = {}
    Calls = {c1, c2, c3}
    AskedTools = {"alertmanager_silence_create", "alertmanager_silence_delete"}
    AskedNames = {"", "ghost"}
    Bodies = {"b"}
    Others = {}
    OthersOn <- MCNoOthers
    NoSilence = s0
    WordsIn <- MCPlainNames
    ErrorWords <- MCNoWords
    ErrorStatuses = {"4xx"}
    RedirectsSent = {}
    MaxFollowed = 0
    MaxRotations = 0
SYMMETRY CallSymmetry
INVARIANTS AnswerTrue PipelineInv
PROPERTY ImplementsService
