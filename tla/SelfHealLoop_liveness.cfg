\* One patch, two deliveries of two attempts, a human who may close the PR.
CONSTANTS
    p1 = p1
    p2 = p2
    LogId = LogId
    Patches <- MCOnePatch
    None = None
    Base = Base
    MaxRetries = 2
    MaxDeliveries = 2
    HumanMayClose = TRUE
SPECIFICATION FairSpec
PROPERTIES
    EventuallySettled
    VerifiedIsAnswered
    ImplementsGatedRepair
CHECK_DEADLOCK FALSE
