SPECIFICATION EvaluateSpec
CONSTANTS
    NTasks = 5
    Agents <- MCAgents
    Records <- MCRecords
    Content <- MCContent
    Inputs <- MCInputs
    ContentOf <- MCContentOf
    InputOf <- MCInputOf
    AgentOf <- MCAgentOf
    RecordClock <- MCClockOf
    Eligible <- MCEligible
    Contradicts <- MCContradicts
    Answers <- MCAnswers
    Sim <- MCSim
    Scale = 20
    Theta = 9
    ReinforceMin = 14
    ClusterSim = 12
    TTL = 30
    MinOccurrences = 2
    MinInputs = 2
    SeparateDuties = TRUE
    Schedule = 1
    KernelAgent = "kernel"
    Approver = "gate"
    VerifierAgent = "verifier"
    EvalTasks = {"e1", "e2"}
    Arms = {"control", "treatment", "placebo", "placebo_2"}
    Control = "control"
    MemoryArms = {"treatment"}
    Relevance <- MCRelevance
    RetrievalK = 2
    Primary = "treatment"
    Tau <- MCTau
    PoolSize = 3
INVARIANTS
    LearnsExactly
    EvaluatesFrozen
    EvaluationPairs
PROPERTY
    EvaluationEnds
CHECK_DEADLOCK FALSE
