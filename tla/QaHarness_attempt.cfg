\* One attempt with every kind of mishap; the server may hang.
CONSTANTS
    Coverages <- MCCoverages
SPECIFICATION FairSpec
INVARIANTS
    TypeOK
    LeaksHaveACause
    GateMeansProven
PROPERTIES
    QaNodeEnds
CHECK_DEADLOCK FALSE
