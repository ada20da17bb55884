SPECIFICATION CampaignSpec
CONSTANTS
    TestFiles = {"test_m.py"}
    SourceFiles = {"m.py", "n.py", "o.py", "test_m.py"}
    Commits <- MCCommits
    SourceAt <- MCSourceAt
    Cutoffs = {1, 3}
    Margin = 1
    Wanted = {"A", "B", "N", "D", "E"}
    AtCeiling = {"D"}
    BuildRule <- MCBuildRule
    DefaultBuild = 1
    MinEval = 1
    MinWords = 1
    Arms = {"control", "treatment", "placebo"}
    Negative = "N"
    Setups <- MCOffsetSetups
    Warmup = 1
    Answers <- MCAnswers
INVARIANT
    NoLookahead
CHECK_DEADLOCK FALSE
