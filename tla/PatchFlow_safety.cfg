\* Two attempts; files of length 0 and 1; two changes of the default branch.
CONSTANTS
    Paths <- MCPaths
    Picks <- MCPicks
    EditSets <- MCEditSets
    UnseenSets <- MCUnseenSets
    DeleteSets <- MCDeleteSets
    Conftests <- MCConftests
    Fixture <- MCFixture
    Lengths = {0, 1}
    MaxLength = 2
    MaxGrowth = 1
    MaxAttempts = 2
    MaxEdits = 2
    None = None
SPECIFICATION Spec
INVARIANTS
    TypeOK
    PushedIsTested
    TestedInScope
PROPERTIES
    NeverGuesses
    RetryKeepsFile
CHECK_DEADLOCK FALSE
