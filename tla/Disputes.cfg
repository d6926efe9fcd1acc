SPECIFICATION Spec
CONSTANTS
    Accounts = {a, b}
    Nobody = Nobody
    Proposers = {a}
    Challengers = {b}
    InitBond = 2
    ChallengerBond = 1
    ChallengeDuration = 0
    ProveDuration = 1
    FallbackTimeout = 1
    FinalityDelay = 0
    MaxOverdue = 0
    MaxBlock = 2
    MaxGames = 2
INVARIANTS
    TypeOK
    Solvent
    WrongNeedsSlip
    OutcomesJustified
