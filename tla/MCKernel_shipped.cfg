SPECIFICATION MCSpec
CONSTANTS
    Agents <- MCAgents
    Records <- MCRecords
    Content <- MCContent
    Inputs <- MCInputs
    ContentOf <- MCContentOf
    InputOf <- MCInputOf
    AgentOf <- MCAgentOf
    RecordClock <- MCClockOf
    Eligible <- MCEligible
    Contradicts <- NoContradiction
    Sim <- SimShipped
    Scale = 20
    Theta = 9
    ReinforceMin = 14
    ClusterSim = 12
    TTL = 2
    MinOccurrences = 2
    MinInputs = 2
    SeparateDuties = TRUE
    Schedule = 1
    KernelAgent = "kernel"
    Approver = "gate"
    MaxEvents = 8
INVARIANTS
    TypeOK
    RedundancyFree
    NeverClusters
    NoStaleEvidence
    CausalOrder
    SupersessionChains
    EvidenceSuffices
    EvidenceUsedOnce
PROPERTIES
    FrozenLearnsNothing
    ImplementsBeliefs
CHECK_DEADLOCK FALSE
