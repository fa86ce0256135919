SPECIFICATION Spec
CONSTANTS
    Fold <- MCFold
    Covers <- MCCovers
    Requests <- MCRequests
    Configs <- MCConfigs
    RuleTables <- MCRuleTables
    Replies <- MCReplies
INVARIANTS
    TypeOK
    FailoverInOrder
    NamesStayHome
    ServedAddressesAllowed
    RefusedWhenEmptied
    PositiveAnswersNamed
    LogsTellAttempts
PROPERTIES
    RequestEnds
\* The handler ends with its request.
CHECK_DEADLOCK FALSE
