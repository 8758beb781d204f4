SPECIFICATION FairSpec
CONSTANTS
    ann = ann
    ben = ben
    Users = {ann, ben}
    Voters = {ben}
    Nobody = Nobody
    Polls <- TwoPolls
    Options <- ForAgainst
    NoVote <- NoVoteValue
    Funds <- FundsOf6
    TokensVoted <- BensWeight
    PropIds <- DepositDates
    InitParams <- BaseParams
    PROCESSBY = 1
    MaxUint = 50
    MaxTime = 7
    LastStart = 3
INVARIANTS
    FundsCovered
    ProposalsSound
PROPERTIES
    EnactedByRule
    ProposalsDecided
CHECK_DEADLOCK FALSE
