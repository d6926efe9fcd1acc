SPECIFICATION FairSpec
CONSTANTS
    Configs = {c1}
    RangeInterval = 1
    SubmissionInterval = 1
    ContractInterval = 2
    MaxProofRequests = 3
    MaxWitnessGen = 2
    Proving = "network"
    PromptTasks = TRUE
    OtherProposers = TRUE
    Attempts = {0, 1, 2}
    MaxBlock = 3
    MaxFailures = 1
    MaxCrashes = 1
INVARIANTS
    RelayedLanded
PROPERTIES
    EverythingProposed
