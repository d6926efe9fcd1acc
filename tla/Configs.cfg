SPECIFICATION Spec
CONSTANTS
    c1 = c1
    c2 = c2
    Configs = {c1, c2}
    RangeInterval = 2
    SubmissionInterval = 2
    ContractInterval = 2
    MaxProofRequests = 2
    MaxWitnessGen = 1
    Proving = "network"
    PromptTasks = TRUE
    OtherProposers = TRUE
    Attempts = {0, 1, 2}
    MaxBlock = 4
    MaxFailures = 1
    MaxCrashes = 1
INVARIANTS
    TypeOK
    OneAggregation
    WithinLimits
PROPERTIES
    OutcomesFinal
SYMMETRY Symmetry
