SPECIFICATION Spec
CONSTANTS
    Fold <- MCFold
    Covers <- MCCovers
    Clients <- MCClients
    Ips <- MCIps
    Names <- MCNames
    FirstRules <- UnderscoreRules
    LaterRules = {}
    MaxRestarts = 0
INVARIANTS
    PlainRuleCoversItsSubdomains
CHECK_DEADLOCK FALSE
