SPECIFICATION MCSpec
CONSTANTS
    Agents <- MCAgents
    Records <- MCRecords
    Content <- MCContent
    Inputs <- MCInputs
    ContentOf <- SecondSaysB
    InputOf <- MCInputOf
    AgentOf <- VerifierOnly
    RecordClock <- MCClockOf
    Eligible <- FalsePositiveFirst
    Contradicts <- NoContradiction
    Sim <- SimShipped
    Scale = 20
    Theta = 9
    ReinforceMin = 14
    ClusterSim = 12
    TTL = 2
    MinOccurrences = 2
    MinInputs = 2
    SeparateDuties = TRUE
    Schedule = 1
    KernelAgent = "kernel"
    Approver = "gate"
    MaxEvents = 7
INVARIANT
    ContentFromEvidence
CHECK_DEADLOCK FALSE
