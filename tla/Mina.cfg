SPECIFICATION FairSpec
CONSTANTS
    MaxBlock = 2
    MaxFiles = 2
    Misnamed = {odd}
    MaxFailures = 1
    MaxRestarts = 1
    Operators = {alice, bob}
    Others = {mallory}
    MaxForeign = 1
    Forged = {zero}
    Zero = zero
    Initial = initial
    DACommitments = {zero}
INVARIANTS
    ConversionTypeOK
PROPERTIES
    EveryFileConverted
    SettledInOrder
    ConvertedSettled
CHECK_DEADLOCK FALSE
