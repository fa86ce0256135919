SPECIFICATION Spec
CONSTANTS
    c1 = c1
    c2 = c2
    s1 = s1
    s2 = s2
    NoHost = NoHost
    Consoles <- OnePrompt
    Services <- ServiceProcs
    Sessions <- TwoSessions
    ServiceSession = 0
    Faults = FALSE
INVARIANT AtMostOneServes
CHECK_DEADLOCK FALSE
