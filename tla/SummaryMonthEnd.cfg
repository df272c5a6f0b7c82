CONSTANTS
    Hours = 3
    When = 1
    Days = 4
    MonthEnds = {1}
    MaxStarts = 2
SPECIFICATION Spec
CHECK_DEADLOCK FALSE
INVARIANTS
    NoDaySkipped
