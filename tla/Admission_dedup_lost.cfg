\* The claim on identical crashes, with a failing backend.
CONSTANTS
    r1 = r1
    r2 = r2
    r3 = r3
    r4 = r4
    Requests <- MCRequests3
    Keys <- MCKeys
    KeyOf <- MCKeyOf
    ReportOf <- MCReportOf
    Messages <- MCMessages
    None = None
    MaxActive = 2
    Faults = {"backend"}
    MaxFaults = 0
SPECIFICATION Spec
INVARIANTS
    DedupedHasPipeline
CHECK_DEADLOCK FALSE
