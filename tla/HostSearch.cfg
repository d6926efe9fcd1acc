SPECIFICATION Spec
CONSTANTS
    MaxL1 = 4
    MaxL2 = 3
    MaxHeight = 2
    MaxWord = 7
    ScanWindow = 2
    Buffer = 1
    Delay = 3
    MaxErrors = 1
    None = None
INVARIANTS
    HostTypeOK
    OnlyGenesisWraps
    AnswerProvable
    AnswerHighest
    HeadIsFirst
    HeadReachesEnd
PROPERTIES
    FetchSucceeds
