SPECIFICATION ControlSpec
CONSTANTS
    Cut = Cut
    Keys <- MCKeys
    Responses <- MCResponses
    Usable <- MCUsable
    MaxAttempts = 2
    Corpus <- MCCorpus
    Repos = {1, 2}
    PerRepoLimit = 2
    Limit = 2
    OnDisk <- MCOnDisk
    Listed = {"p", "q", "r", "s"}
    MaxFiles = 2
    IndexOf <- MCIndexOf
    TopK = 2
    MaxCrashes = 1
INVARIANTS
    TypeOK
    StableAnswers
    NeverAskedAgain
    CallBounded
    RerunIdentical
    FlagsFromOwnTree
PROPERTY
    RunEnds
CHECK_DEADLOCK FALSE
