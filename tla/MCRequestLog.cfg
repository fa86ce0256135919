SPECIFICATION Spec
CONSTANTS
    MaxLogs = 4
    MaxRestarts = 1
INVARIANTS
    TypeOK
    UnfinishedIsOutstanding
    PipelineInOrder
    NothingLost
    HandledAtExit
PROPERTIES
    StoresInOrder
    ExitCompletes
    LogsGetHandled
\* The system really stops: when the context manager has closed and no handler
\* is left, or when the writer died and queue.join() waits for ever.
CHECK_DEADLOCK FALSE
