SPECIFICATION Spec
CONSTANTS
    paper = paper
    blog = blog
    ann = ann
    ben = ben
    Listings <- OneListing
    Users = {ann, ben}
    Voters = {ben}
    Nobody = Nobody
    Polls <- PollIds2
    Options <- ForAgainst
    NoVote <- NoVoteValue
    ContractOwner <- OwnedByAnn
    Funds <- FundsOf6
    TokensVoted <- BensWeight
    Amounts <- Two
    ParamSets <- OneParams
    Governments <- OneGovernment
    MaxTime = 11
    LastStart = 2
INVARIANTS
    ResultIsVerdict
CHECK_DEADLOCK FALSE
