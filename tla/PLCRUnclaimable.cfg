SPECIFICATION MCSpec
CONSTANTS
    alice = alice
    bob = bob
    Voters = {alice, bob}
    MaxPolls = 1
    MaxTime = 5
    Options <- ForAgainstOther
    Quorums <- HalfOrTwoThirds
    Durations <- MixedDurations
    Supply <- TwoVotersSupply
    NoHash = NoHash
INVARIANT
    WinningTokensClaimable
CHECK_DEADLOCK FALSE
