\* Up to two datasources or any agent authentication, under every override.
SPECIFICATION Spec
CONSTANTS
    Names = {"", "vm", "am", "Not_a_label"}
    Labels = {"vm", "am"}
    NoName = ""
    TokenNames = {"", "ops", "ci", "env"}
    EnvName = "env"
    NoTokenName = ""
    FileConfigs <- MCFileConfigs
    Environments <- MCEnvironments
INVARIANTS
    ConfigInv
    BuiltAsConfigured
    LateFailures
    InsecureIsSaid
    ProtectionKept
