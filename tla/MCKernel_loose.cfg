SPECIFICATION MCSpecRepeating
CONSTANTS
    Agents <- MCAgents
    Records <- LooseRecords
    Content <- LooseContent
    Inputs <- MCInputs
    ContentOf <- LooseContentOf
    InputOf <- LooseInputOf
    AgentOf <- LooseAgentOf
    RecordClock <- LooseClockOf
    Eligible <- LooseEligible
    Contradicts <- LooseContradiction
    Sim <- LooseSim
    Scale = 20
    Theta = 8
    ReinforceMin = 12
    ClusterSim = 11
    TTL = 3
    MinOccurrences = 2
    MinInputs = 2
    SeparateDuties = TRUE
    Schedule = 2
    KernelAgent = "kernel"
    Approver = "gate"
    MaxEvents = 6
INVARIANTS
    DistinctOccurrences
    NoUnresolvedContradiction
PROPERTY
    PromotionExhaustive
CHECK_DEADLOCK FALSE
