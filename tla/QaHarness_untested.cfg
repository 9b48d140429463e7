\* The README's claim on proving the fix.
CONSTANTS
    Coverages <- MCCoverages
SPECIFICATION Spec
INVARIANTS
    PassedMeansPatched
CHECK_DEADLOCK FALSE
