\* Two handlers at once over the DynamoDB store.
SPECIFICATION Spec
CONSTANTS
    None = None
    ana = ana
    mia = mia
    w1 = w1
    w2 = w2
    UserIds = {ana, mia}
    ReopenReasons = {"appeal"}
    Cases = {"CASE-1"}
    Workers = {w1, w2}
    AuthContexts <- MCUsers
    Verdicts <- MCVerdicts
    Submissions <- MCSubmissions
    MaxSaves = 4
SYMMETRY WorkerSymmetry
INVARIANTS
    TypeOK
    VersionsHaveBasis
    CompletionsAdjudicated
PROPERTIES
    DecisionsTrailed
    ReviewsTrailed
CHECK_DEADLOCK FALSE
