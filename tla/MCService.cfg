SPECIFICATION Spec
CONSTANTS
    c1 = c1
    c2 = c2
    s1 = s1
    s2 = s2
    NoHost = NoHost
    Consoles <- Prompts
    Services <- ServiceProcs
    Sessions <- TwoSessions
    ServiceSession = 0
    Faults = TRUE
INVARIANTS
    TypeOK
    OneServesPerSession
PROPERTIES
    StopIsHeeded
    RunningServesOrStops
CONSTRAINT SecondPromptElsewhere
\* All processes may have ended, and no user is obliged to start another.
CHECK_DEADLOCK FALSE
