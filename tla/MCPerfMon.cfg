SPECIFICATION Spec
CONSTANTS
    max_point = 2
    preset_times = 1
    MaxMeas = 4
    MaxDumps = 3
INVARIANTS RecordsArePairs WrittenOnce NoneLost
CHECK_DEADLOCK FALSE
