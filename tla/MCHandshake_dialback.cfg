SPECIFICATION FairSpec
CONSTANTS
    Stray = {s1, s2}
    Runtime = rt
    NoPeer = NoPeer
INVARIANTS TypeOK OkHasControl FailsForCause LeavesOnlyIdle
PROPERTIES StartReturns FailedIsGone
