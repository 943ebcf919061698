SPECIFICATION FairSpec
CONSTANTS
    Servers = {s1}
    Requests = {r1, r2}
    MaxVersion = 3
    MaxTroubles = 3
    Nil = Nil
INVARIANTS NeverBehindEvents QuietIsCurrent FailureExplained
PROPERTIES LoadSettles
CHECK_DEADLOCK FALSE
