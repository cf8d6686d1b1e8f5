CONSTANTS SIZE = 2 Consumers = {"a", "b"} Modulus = 3 MaxFailures = 1
SPECIFICATION FairSpec
INVARIANTS TokensConserved InitPhase UsedAfterInit
PROPERTIES ImplementsQueue EveryItemRetrieved
CHECK_DEADLOCK FALSE
