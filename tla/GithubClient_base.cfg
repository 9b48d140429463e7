\* The claim of put_file's comment, for one run and a human who edits once.
CONSTANTS
    r1 = r1
    r2 = r2
    original = original
    patch1 = patch1
    patch2 = patch2
    human = human
    Runs <- MCOneRun
    Texts <- MCTexts
    Original = original
    PatchOf <- MCPatchOfOne
    Absent = Absent
    None = None
    MaxEdits = 1
SPECIFICATION Spec
INVARIANTS
    BaseIsPinned
CHECK_DEADLOCK FALSE
