SPECIFICATION Spec
CONSTANTS
    MaxBlock = 2
    MaxTime = 4
    MaxRanges = 2
    Accounts = {owner, proposer}
    Nobody = nobody
    Owner = owner
    Proposer = proposer
    ConfigNames = {genesis, other}
    Genesis = genesis
    Intervals = {0, 1}
    Periods = {1, 3}
    FallbackTimeout = 1
    BlockhashWindow = 2
    MaxVersion = 2
    MaxOutputs = 3
    MaxChanges = 1
INVARIANTS
    OracleTypeOK
    OutputsOrdered
    SearchFindsFirst
    ProvenSound
    FallbackOpens
PROPERTIES
    ChainSpec
CHECK_DEADLOCK FALSE
