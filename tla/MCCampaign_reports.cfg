SPECIFICATION CampaignSpec
CONSTANTS
    TestFiles = {"test_m.py"}
    SourceFiles = {"m.py", "n.py", "o.py", "test_m.py"}
    Commits <- MCCommits
    SourceAt <- MCSourceAt
    Cutoffs = {1, 3}
    Margin = 1
    Wanted = {"A", "B", "N", "D", "E"}
    AtCeiling = {"D"}
    BuildRule <- MCBuildRule
    DefaultBuild = 1
    MinEval = 1
    MinWords = 1
    Arms = {"control", "treatment", "placebo"}
    Negative = "N"
    Setups <- MCSetups
    Warmup = 1
    Answers <- MCAnswers
INVARIANTS
    ReportCountsEveryTaskOnce
    PairedAgreesWithReport
    NoLookahead
    OnlyFreshTasks
    FunctionHitIffTouched
    HandcheckAgrees
CHECK_DEADLOCK FALSE
