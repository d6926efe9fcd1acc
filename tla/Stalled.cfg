SPECIFICATION ActorsFairSpec
CONSTANTS
    Accounts = {proposer, challenger, other}
    Nobody = nobody
    Proposers = {proposer, other}
    Challengers = {challenger, other}
    InitBond = 1
    ChallengerBond = 1
    ChallengeDuration = 2
    ProveDuration = 3
    FallbackTimeout = 0
    FinalityDelay = 0
    MaxOverdue = 0
    MaxBlock = 2
    MaxGames = 2
    Proposer = proposer
    Challenger = challenger
    Interval = 1
    FastFinality = TRUE
    Malicious = FALSE
    Window = 2
    Skews = {1}
    Heads = {3}
    ProveTime = 1
    OutsiderClaims = {"wrong"}
    OutsiderBlocks = {1, 2}
    MaxOutside = 0
    MaxErrors = 0
PROPERTY
    ProvenResolved
CHECK_DEADLOCK FALSE
