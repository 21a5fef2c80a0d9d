\* One handler at a time.
SPECIFICATION Spec
CONSTANTS
    None = None
    ana = ana
    max = max
    mia = mia
    w1 = w1
    w2 = w2
    UserIds = {ana, max, mia}
    ReopenReasons = {"appeal", "new_evidence"}
    Cases = {"CASE-1", "CASE-2"}
    Workers = {w1}
    AuthContexts <- MCUsers
    Verdicts <- MCVerdicts
    Submissions <- MCSubmissions
    MaxEvents = 8
INVARIANTS
    TypeOK
    ReviewMatchesDecision
    ReportsReconcile
PROPERTIES
    FollowsLifecycle
VIEW RowsView
CHECK_DEADLOCK FALSE
