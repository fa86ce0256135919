SPECIFICATION ServerSpec
CONSTANTS
    MaxLogs = 2
    MaxRestarts = 1
    h1 = h1
    h2 = h2
    Handlers <- TwoHandlers
INVARIANTS
    ServerTypeOK
    AcceptingInside
    AllOrNothing
    AnsweredIsRecorded
PROPERTY LeavingEnds
\* The process may stop, or wait for ever for a writer that died.
CHECK_DEADLOCK FALSE
