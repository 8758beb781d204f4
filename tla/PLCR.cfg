SPECIFICATION MCFairSpec
CONSTANTS
    alice = alice
    bob = bob
    Voters = {alice, bob}
    MaxPolls = 3
    MaxTime = 5
    Options <- ForAgainstOther
    Quorums <- HalfOrTwoThirds
    Durations <- MixedDurations
    Supply <- TwoVotersSupply
    NoHash = NoHash
INVARIANTS
    TypeOK
    ListSorted
    LocksAreUnrevealedVotes
    LocksCovered
    InsertPointAccepted
    TotalsMatchVotes
PROPERTIES
    OutcomeFinal
    ImplementsVoteLocks
    ImplementsPollTally
    EventuallyWithdrawable
CHECK_DEADLOCK FALSE
