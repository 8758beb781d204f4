SPECIFICATION Spec
CONSTANTS
    paper = paper
    blog = blog
    ann = ann
    ben = ben
    Listings <- OneListing
    Users = {ann, ben}
    Voters = {ann, ben}
    Nobody = Nobody
    Polls <- PollIds2
    Options <- ForAgainst
    NoVote <- NoVoteValue
    ContractOwner <- OwnedByAnn
    Funds <- FundsOf8
    TokensVoted <- Weights
    Amounts <- Two
    ParamSets <- OneParams
    Governments <- OddFee
    MaxTime = 12
    LastStart = 3
PROPERTY
    AppealFeeSplit
CHECK_DEADLOCK FALSE
