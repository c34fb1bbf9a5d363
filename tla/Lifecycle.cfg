\* Two datasources, the second one the default and without a timeout.
SPECIFICATION FairSpec
CONSTANTS
    N = 2
    Default = 2
    Bounded = {1}
    Requests = {r1}
    Faults = {"silent"}
    MetricsOn = TRUE
INVARIANTS
    LifeInv
    ReadinessGrounded
    CleanExit
PROPERTIES
    CutOnlyLate
    ImplementsProcess
    SignalledExits
    GaugeFollows
    PingsEnd
