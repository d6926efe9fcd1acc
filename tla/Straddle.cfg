SPECIFICATION Spec
CONSTANTS
    Configs = {c1}
    RangeInterval = 2
    SubmissionInterval = 2
    ContractInterval = 2
    MaxProofRequests = 3
    MaxWitnessGen = 2
    Proving = "network"
    PromptTasks = TRUE
    OtherProposers = TRUE
    Attempts = {0, 1, 2}
    MaxBlock = 4
    MaxFailures = 2
    MaxCrashes = 1
INVARIANT
    RangesDisjoint
