\* Static tokens only, one request of each kind, two rewritten files.
SPECIFICATION Spec
CONSTANTS
    Requests = {r1, r2}
    Secrets = {"t1", "t2", "t3"}
    Inline = {"t3"}
    Files = {"f1", "f2"}
    FirstContent <- MCFirst
    JWTs = {"forged"}
    Genuine = {}
    ScopesOf <- MCScopes
    GroupsOf <- MCGroups
    NoBearer = "-"
    StaticEnabled = TRUE
    OIDCEnabled = FALSE
    RequiredScopes = {}
    RequiredGroups = {}
    MaxRotations = 2
SYMMETRY RequestSymmetry
INVARIANTS
    TypeOK
    AuthInv
