SPECIFICATION RollingSpec
CONSTANTS
    NTasks = 5
    Agents <- MCAgents
    Records <- MCRecords
    Content <- MCContent
    Inputs <- MCInputs
    ContentOf <- MCContentOf
    InputOf <- MCInputOf
    AgentOf <- MCAgentOf
    RecordClock <- MCClockOf
    Eligible <- MCEligible
    Contradicts <- MCContradicts
    Answers <- MCAnswers
    Sim <- MCSim
    Scale = 20
    Theta = 9
    ReinforceMin = 14
    ClusterSim = 12
    TTL = 30
    MinOccurrences = 2
    MinInputs = 2
    SeparateDuties = TRUE
    Schedule = 1
    KernelAgent = "kernel"
    Approver = "gate"
    VerifierAgent = "verifier"
    Arms = {"control", "treatment", "gated", "placebo"}
    Control = "control"
    MemoryArms = {"treatment", "gated"}
    Relevance <- MCRelevance
    RetrievalK = 2
    Primary = "treatment"
    Tau <- MCTau
    PoolSize = 3
    Warmup = 1
    Learning = TRUE
    MaxFailures = 2
INVARIANTS
    MemoryCurrent
    DistinctPatterns
    LearnsExactly
    Pairing
    AsOfPreviousTask
    ControlFeedsLearning
PROPERTY
    RollingEnds
CHECK_DEADLOCK FALSE
