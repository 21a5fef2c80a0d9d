\* A session of two turns with up to two tools each, on one case, and an analyst.
SPECIFICATION AgentSpec
CONSTANTS
    None = None
    bot = bot
    mia = mia
    w1 = w1
    w2 = w2
    UserIds = {bot, mia}
    ReopenReasons = {"appeal"}
    Cases = {"CASE-1"}
    Workers = {w1}
    AuthContexts <- MCUsers
    Verdicts <- MCVerdicts
    Submissions <- MCSubmissions
    MaxEvents = 2
    Agent <- MCAgent
    MaxTurns = 2
    MaxTools = 2
INVARIANTS
    AgentTypeOK
    HistoryAccountedFor
    GateFollowsTrace
    BandFromEngine
PROPERTIES
    SessionEnds
CHECK_DEADLOCK FALSE
