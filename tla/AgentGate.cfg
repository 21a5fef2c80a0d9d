\* A session on two cases: the agent assigns one of high risk.
SPECIFICATION AgentSpec
CONSTANTS
    None = None
    bot = bot
    mia = mia
    w1 = w1
    w2 = w2
    UserIds = {bot, mia}
    ReopenReasons = {"appeal"}
    Cases = {"CASE-1", "CASE-2"}
    Workers = {w1}
    AuthContexts = {}
    Verdicts <- MCVerdicts
    Submissions <- MCSubmissions
    MaxEvents = 3
    Agent <- MCAgent
    MaxTurns = 2
    MaxTools = 2
INVARIANTS
    AgentGate
CHECK_DEADLOCK FALSE
