SPECIFICATION Spec
CONSTANTS
    paper = paper
    blog = blog
    ann = ann
    ben = ben
    Listings <- TwoListings
    Users = {ann, ben}
    Voters = {ben}
    Nobody = Nobody
    Polls <- PollIds2
    Options <- ForAgainst
    NoVote <- NoVoteValue
    ContractOwner <- OwnedByAnn
    Funds <- FundsOf8
    TokensVoted <- BensWeight
    Amounts <- Two
    ParamSets <- TwoParams
    Governments <- NoAppealWindow
    MaxTime = 5
    LastStart = 3
INVARIANTS
    Solvent
CHECK_DEADLOCK FALSE
