SPECIFICATION AgentFairSpec
CONSTANTS
    Campaigns = {c1, c2}
    Workers = {w1, w2}
    Contacts = {a}
    MAX_SERPER_QUERIES = 2
    MONTHLY_SERPER_BUDGET = 2
    MAX_LEADS = 1
    WebFirst = 1
    WebQueries = 1
    EmailQueries = 1
    StaleTicks = 1
    MaxCrashes = 1
INVARIANTS MonthlyOvershoot ReadyIsBacked
PROPERTIES EveryCampaignAnswered
