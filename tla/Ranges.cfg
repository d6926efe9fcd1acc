SPECIFICATION Spec
CONSTANTS
    Configs = {c1}
    RangeInterval = 2
    SubmissionInterval = 2
    ContractInterval = 2
    MaxProofRequests = 2
    MaxWitnessGen = 1
    Proving = "network"
    PromptTasks = TRUE
    OtherProposers = FALSE
    Attempts = {0, 1, 2, 3}
    MaxBlock = 4
    MaxFailures = 3
    MaxCrashes = 1
INVARIANTS
    RangesDisjoint
    AggregationsTiled
