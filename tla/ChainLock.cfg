SPECIFICATION Spec
CONSTANTS
    Proposers = {p1, p2}
    LoopInterval = 2
    ErrorPause = 1
    MaxTime = 6
PROPERTY
    AdmittedAlone
CHECK_DEADLOCK FALSE
