SPECIFICATION TwinSpec
CONSTANTS
    Agents <- MCAgents
    Records <- MCRecords
    Content <- MCContent
    Inputs <- MCInputs
    ContentOf <- MCContentOf
    InputOf <- MCInputOf
    AgentOf <- MCAgentOf
    RecordClock <- MCClockOf
    Eligible <- MCRecords
    Contradicts <- MCContradicts
    Sim <- MCSim
    RetrievalSim <- MCSim
    RetrievalK = 1
    WallClocks <- TwoReadings
    Scale = 2
    Theta = 1
    ReinforceMin = 1
    ClusterSim = 1
    TTL = 2
    MinOccurrences = 2
    MinInputs = 2
    SeparateDuties = TRUE
    Schedule = 2
    KernelAgent = "kernel"
    Approver = "gate"
    MaxCalls = 4
INVARIANT
    ChainIgnoresWallClock
CHECK_DEADLOCK FALSE
