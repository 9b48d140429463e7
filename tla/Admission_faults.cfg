\* Three requests for one slot, every kind of fault, two that skew the counter.
CONSTANTS
    r1 = r1
    r2 = r2
    r3 = r3
    r4 = r4
    Requests <- MCRequests3
    Keys <- MCKeys
    KeyOf <- MCKeyOf
    ReportOf <- MCReportOf
    Messages <- MCMessages
    None = None
    MaxActive = 1
    Faults = {"redis", "publish", "api", "worker", "backend", "expiry", "slow"}
    MaxFaults = 2
SPECIFICATION Spec
INVARIANTS
    TypeOK
    OneExtraPerFault
    LastingKeysNameAPipeline
CHECK_DEADLOCK FALSE
