\* Four requests for two slots; storing and enqueueing may fail.
CONSTANTS
    r1 = r1
    r2 = r2
    r3 = r3
    r4 = r4
    Requests <- MCRequests4
    Keys <- MCKeys
    KeyOf <- MCKeyOf
    ReportOf <- MCReportOf
    Messages <- MCMessages
    None = None
    MaxActive = 2
    Faults = {"backend"}
    MaxFaults = 0
SPECIFICATION FairSpec
INVARIANTS
    SlotsAreConserved
    CapIsRespected
    KeysTellCrashesApart
    DedupIsByCrash
PROPERTIES
    ImplementsIntake
    EveryRequestAnswered
    SlotsComeBack
CHECK_DEADLOCK FALSE
