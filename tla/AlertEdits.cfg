SPECIFICATION Spec
CONSTANTS
    s1 = s1
    s2 = s2
    Nil = Nil
    Servers = {s1}
    Rules = {1}
    Settings <- EditedSettings
    QueueCapacity = 1
    Hazards = {"edit", "delete", "fault", "crash"}
    MaxSeq <- Thrice
    MaxTime = 4
INVARIANTS RemindersSpaced MarkedWhileTimed
PROPERTIES FiresAfterHold ImplementsCycle
CHECK_DEADLOCK FALSE
