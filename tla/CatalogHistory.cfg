\* Two controls, two cases, rows of an older release, two changes of the files.
SPECIFICATION Spec
CONSTANTS
    None = None
    Broken = Broken
    spend = spend
    gifts = gifts
    Rank <- MCRank
    Controls = {spend, gifts}
    v09 = v09
    v10 = v10
    Versions = {v09, v10}
    Thresholds = {1, 2}
    Cases = {case1, case2}
    Shipped <- MCShipped
    Legacy <- MCLegacy
    MaxDeploys = 2
INVARIANTS
    TypeOK
    GoverningRuleKept
    StoredDecisionsStable
    
    DashboardComplete
SYMMETRY CaseSymmetry
CHECK_DEADLOCK FALSE
