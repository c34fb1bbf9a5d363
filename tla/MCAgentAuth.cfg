\* Static tokens and OIDC together, two requests, two rewritten files.
SPECIFICATION Spec
CONSTANTS
    Requests = {r1, r2}
    Secrets = {"t1", "t2", "t3"}
    Inline = {"t3"}
    Files = {"f1", "f2"}
    FirstContent <- MCFirst
    JWTs = {"jwt", "poor", "forged"}
    Genuine = {"jwt", "poor"}
    ScopesOf <- MCScopes
    GroupsOf <- MCGroups
    NoBearer = "-"
    StaticEnabled = TRUE
    OIDCEnabled = TRUE
    RequiredScopes = {}
    RequiredGroups = {"ops", "dev"}
    MaxRotations = 2
SYMMETRY RequestSymmetry
INVARIANTS
    ServedSound
    StableSecretAllowed
    VerifiedCounted
PROPERTY ImplementsAuth
