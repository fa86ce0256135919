SPECIFICATION Spec
CONSTANTS
    Fold <- MCFold
    Covers <- MCCovers
    Clients <- MCClients
    Ips <- MCIps
    Names <- MCNames
    FirstRules <- FirstFiles
    LaterRules <- StartRules
    MaxRestarts = 2
INVARIANTS
    TypeOK
    RulesAsConfigured
    AllowedPrevails
    OthersRulesAreInert
    CaseBlind
    MostSpecificRoute
    ChainResolved
PROPERTIES
    StartSucceeds
\* init_db ends; the tables then stay as they are.
CHECK_DEADLOCK FALSE
