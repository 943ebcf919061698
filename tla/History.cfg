SPECIFICATION Spec
CONSTANTS
    Servers = {s1}
    MinuteTicks = 1
    RetentionMinutes = 2
    Ranges = {2}
    PageRows = 1
    MaxRows = 3
    MaxTime = 3
    MaxReports = 3
    Nil = Nil
INVARIANTS AnswerComplete WholeMinutes NoOrphans
PROPERTIES WindowKept DroppedWhenStored
