\* A reply to a create whose body is lost.
SPECIFICATION Spec
CONSTANTS
    Names = {"am"}
    NoName = ""
    DefaultName = "am"
    TypeOf <- MCOneAM
    ReadOnlyNames = {}
    GlobalReadOnly = FALSE
    BoundedNames = {"am"}
    FileCredNames = {}
    Calls = {c1, c2}
    AskedTools = {"alertmanager_silence_create"}
    AskedNames = {"", "ghost"}
    Bodies = {"b"}
    Others = {}
    OthersOn <- MCNoOthers
    NoSilence = s0
    WordsIn <- MCPlainNames
    ErrorWords <- MCNoWords
    ErrorStatuses = {"4xx"}
    RedirectsSent = {}
    MaxFollowed = 0
    MaxRotations = 0
INVARIANT SilenceIdReturned
