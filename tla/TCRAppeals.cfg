SPECIFICATION Spec
CONSTANTS
    paper = paper
    blog = blog
    ann = ann
    ben = ben
    Listings <- OneListing
    Users = {ann, ben}
    Voters = {ann, ben}
    Nobody = Nobody
    Polls <- PollIds2
    Options <- ForAgainst
    NoVote <- NoVoteValue
    ContractOwner <- OwnedByAnn
    Funds <- FundsOf6
    TokensVoted <- Weights
    Amounts <- Two
    ParamSets <- OneParams
    Governments <- TwoGovernments
    MaxTime = 11
    LastStart = 2
INVARIANTS
    TypeOK
    Solvent
    ClaimsCovered
    NoOrphanedChallenge
    OnePhase
PROPERTIES
    NobodyCutShort
    VerdictHonoured
    EntitlementFinal
    ImplementsLifecycle
    OffersFollowRules
    TimerCoversChange
CHECK_DEADLOCK FALSE
