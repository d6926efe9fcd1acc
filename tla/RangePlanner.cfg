SPECIFICATION Spec
CONSTANTS
    MaxBlock = 6
    MaxRanges = 3
    Interval = 3
INVARIANTS
    LoopsMatchSets
    ScansMatchSets
    PlanIsSound
CHECK_DEADLOCK FALSE
