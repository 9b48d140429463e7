\* Two executions of one incident, with humans who edit twice, merge and close.
CONSTANTS
    r1 = r1
    r2 = r2
    original = original
    patch1 = patch1
    patch2 = patch2
    human = human
    Runs <- MCRuns
    Texts <- MCTexts
    Original = original
    PatchOf <- MCPatchOf
    Absent = Absent
    None = None
    MaxEdits = 2
SPECIFICATION Spec
INVARIANTS
    TypeOK
    UndisturbedRunSucceeds
    ProposesItsOwnPatch
PROPERTIES
    ReturnedPullShowsPatch
    ReportIsReused
CHECK_DEADLOCK FALSE
