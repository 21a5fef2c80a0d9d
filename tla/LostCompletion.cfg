\* Two handlers at once: a completed case is assigned again.
SPECIFICATION Spec
CONSTANTS
    None = None
    ana = ana
    max = max
    mia = mia
    w1 = w1
    w2 = w2
    UserIds = {ana, max, mia}
    ReopenReasons = {"appeal"}
    Cases = {"CASE-1"}
    Workers = {w1, w2}
    AuthContexts <- MCTwoReviewers
    Verdicts <- MCVerdicts
    Submissions <- MCSubmissions
    MaxEvents = 4
PROPERTIES
    CompletedUntilReopened
CHECK_DEADLOCK FALSE
