\* The same with a required scope.
SPECIFICATION Spec
CONSTANTS
    Requests = {r1}
    Secrets = {"t1", "t2", "t3"}
    Inline = {"t3"}
    Files = {"f1", "f2"}
    FirstContent <- MCFirst
    JWTs = {"jwt", "poor", "forged"}
    Genuine = {"jwt", "poor"}
    ScopesOf <- MCScopes
    GroupsOf <- MCGroups
    NoBearer = "-"
    StaticEnabled = TRUE
    OIDCEnabled = TRUE
    RequiredScopes = {"mcp"}
    RequiredGroups = {}
    MaxRotations = 0
SYMMETRY RequestSymmetry
INVARIANTS
    EitherAccepts
