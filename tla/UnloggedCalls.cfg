\* A session alone, on one case: the model cannot be reached after its first tools.
SPECIFICATION AgentSpec
CONSTANTS
    None = None
    bot = bot
    mia = mia
    w1 = w1
    w2 = w2
    UserIds = {bot}
    ReopenReasons = {"appeal"}
    Cases = {"CASE-1"}
    Workers = {w1}
    AuthContexts = {}
    Verdicts <- MCVerdicts
    Submissions <- MCSubmissions
    MaxEvents = 2
    Agent <- MCAgent
    MaxTurns = 2
    MaxTools = 2
INVARIANTS
    CallsLogged
CHECK_DEADLOCK FALSE
