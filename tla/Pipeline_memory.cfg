\* Two reports of one crash, two runs of two attempts, a seed, one fault.
CONSTANTS
    r1 = r1
    r2 = r2
    r3 = r3
    k1 = k1
    k2 = k2
    s1 = s1
    s2 = s2
    Requests <- MCRequests2
    Keys <- MCKeys
    KeyOf <- MCKeyOf2
    Seeds <- MCOneSeed
    None = None
    MaxActive = 2
    MaxAttempts = 2
    Faults = {"publish", "api", "worker", "backend"}
    MaxFaults = 1
SPECIFICATION FairSpec
INVARIANTS
    OnePullPerCrash
    ReferencesHold
    ResolvedIsRemembered
PROPERTIES
    EveryReportIsSettled
CHECK_DEADLOCK FALSE
