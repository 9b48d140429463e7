\* Two deliveries of two attempts each; no human closes the PR.
CONSTANTS
    p1 = p1
    p2 = p2
    LogId = LogId
    Patches <- MCPatches
    None = None
    Base = Base
    MaxRetries = 2
    MaxDeliveries = 2
    HumanMayClose = FALSE
SPECIFICATION Spec
SYMMETRY PatchSymmetry
INVARIANTS
    TypeOK
    ShippedWasVerified
    RetryFollowsFailure
    GaveUpMeansExhausted
    NoSilentEnd
    AtMostOnePR
PROPERTIES
    PushIsLatestVerdict
    NodesAreBounded
    ImplementsRepair
CHECK_DEADLOCK FALSE
