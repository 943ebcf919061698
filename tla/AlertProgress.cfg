SPECIFICATION FairSpec
CONSTANTS
    s1 = s1
    s2 = s2
    Nil = Nil
    Servers = {s1, s2}
    Rules = {1}
    Settings <- OfflineOnly
    QueueCapacity = 1
    Hazards = {"delete"}
    MaxSeq <- Uneven
    MaxTime = 0
INVARIANTS OfflineRuleAgrees
PROPERTIES RefusedIsEvaluated
CHECK_DEADLOCK FALSE
