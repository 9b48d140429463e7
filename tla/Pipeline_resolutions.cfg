\* The claim of get_similar_resolutions.
CONSTANTS
    r1 = r1
    r2 = r2
    r3 = r3
    k1 = k1
    k2 = k2
    s1 = s1
    s2 = s2
    Requests <- MCRequests2
    Keys <- MCKeys
    KeyOf <- MCKeyOf2
    Seeds <- MCOneSeed
    None = None
    MaxActive = 2
    MaxAttempts = 2
    Faults = {}
    MaxFaults = 0
SPECIFICATION Spec
INVARIANTS
    ResolutionsNameTheirPR
CHECK_DEADLOCK FALSE
