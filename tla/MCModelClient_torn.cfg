SPECIFICATION TearingSpec
CONSTANTS
    k1 = k1
    k2 = k2
    k3 = k3
    whole = whole
    cut = cut
    Keys <- MCKeys
    Responses <- MCResponses
    Usable <- MCUsable
    MaxAttempts = 3
INVARIANT
    ResumeSucceeds
CHECK_DEADLOCK FALSE
