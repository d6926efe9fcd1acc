SPECIFICATION ActorsFairSpec
CONSTANTS
    Accounts = {proposer, challenger, other}
    Nobody = nobody
    Proposers = {proposer, other}
    Challengers = {challenger}
    InitBond = 1
    ChallengerBond = 1
    ChallengeDuration = 4
    ProveDuration = 6
    FallbackTimeout = 0
    FinalityDelay = 0
    MaxOverdue = 0
    MaxBlock = 4
    MaxGames = 2
    Proposer = proposer
    Challenger = challenger
    Interval = 1
    FastFinality = FALSE
    Malicious = TRUE
    Window = 2
    Skews = {1}
    Heads = {3}
    ProveTime = 1
    OutsiderClaims = {"wrong"}
    OutsiderBlocks = {1, 2, 4}
    MaxOutside = 2
    MaxErrors = 1
INVARIANTS
    ActorsTypeOK
    WrongChallenged
    RightDefended
PROPERTIES
    EverySettled
CHECK_DEADLOCK FALSE
