SPECIFICATION Spec
CONSTANTS
    c1 = c1
    c2 = c2
    s1 = s1
    s2 = s2
    NoHost = NoHost
    Consoles <- Nobody
    Services <- ServiceProcs
    Sessions <- OneSession
    ServiceSession = 0
    Faults = FALSE
PROPERTY RestartServes
CHECK_DEADLOCK FALSE
