SPECIFICATION Spec
CONSTANTS
    Fold <- MCFold
    Covers <- MCCovers
    Requests <- MCRequests
    Configs <- MCConfigs
    RuleTables <- MCRuleTables
    Replies <- MCReplies
INVARIANTS
    BlockedIpsRemoved
CHECK_DEADLOCK FALSE
