SPECIFICATION Spec
CONSTANTS
    Fold <- MCFold
    Covers <- MCCovers
    Requests <- MCRequests
    Configs <- MCConfigs
    RuleTables <- MCRuleTables
    Replies <- MCReplies
INVARIANTS
    EchoesQuestion
CHECK_DEADLOCK FALSE
