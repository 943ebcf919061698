SPECIFICATION Spec
CONSTANTS
    Values = {1, 2}
    Gap = Gap
    MinuteCounts = {1, 5, 7, 11}
    Widths = {0, 1, 9}
    MinPointBudget = 6
    MaxPointBudget = 10
    DefaultChartWidth = 5
    PointsPerPixel = 2
INVARIANTS BreaksExactly PeaksKept WithinBudget
CHECK_DEADLOCK FALSE
