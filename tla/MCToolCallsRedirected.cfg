\* Deletes through a proxy that redirects them.
SPECIFICATION Spec
CONSTANTS
    Names = {"am"}
    NoName = ""
    DefaultName = "am"
    TypeOf <- MCOneAM
    ReadOnlyNames = {}
    GlobalReadOnly = FALSE
    BoundedNames = {"am"}
    FileCredNames = {}
    Calls = {c1, c2}
    AskedTools = {"alertmanager_silence_delete"}
    AskedNames = {""}
    Bodies = {"b"}
    Others = {s1}
    OthersOn <- MCOthersOnAM
    NoSilence = s0
    WordsIn <- MCPlainNames
    ErrorWords <- MCNoWords
    ErrorStatuses = {"4xx"}
    RedirectsSent = {"rewrites", "repeats"}
    MaxFollowed = 1
    MaxRotations = 0
INVARIANT ToldIsDone
