SPECIFICATION FairSpec
CONSTANTS
    Events = {e1, e2}
    Tests = {t1}
    Workers = {w1, w2}
    QueueCapacity = 1
    MaxAttempts = 2
    Hazards = {"cancel", "fault", "delete", "crash"}
    Nil = Nil
INVARIANTS RequestsInOrder RecordsAreRequests
PROPERTIES QueuedIsTried
CHECK_DEADLOCK FALSE
