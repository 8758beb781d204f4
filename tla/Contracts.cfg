SPECIFICATION Spec
CONSTANTS
    ann = ann
    ben = ben
    guild = guild
    eve = eve
    civil = civil
    shop = shop
    reader = reader
    plcr = plcr
    group = group
    h1 = h1
    h2 = h2
    Nobody = Nobody
    Addresses <- WalletAddresses
    Contracts <- GuildOnly
    Calls <- OwnerChanges
    InitialOwners <- AnnAndGuild
    InitialRequired = 2
    MAX_OWNER_COUNT = 3
    MaxTransactions = 3
    MaxDepth = 2
    Accounts <- NewsroomAccounts
    Wallet = ann
    Group = group
    Hashes <- TwoHashes
    Unsigned <- UnsignedRecord
    Garbage <- GarbageRecord
    MaxContents = 3
    MaxRevisions = 2
    Appellates <- TwoAccounts
    Voters <- TwoAccounts
    Polls <- TwoPolls
    Options <- ForAgainst
    NoVote <- NoVoteValue
    TokensVoted <- OneAndTwo
    PropIds <- FourValues
    Constitutions <- TwoHashes
    InitParams <- BaseParams
    PROCESSBY = 2
    MaxUint = 50
    MaxTime = 7
    LastStart = 4
    Users <- Tokenholders
    Voting = plcr
    GroupFactory = group
    Supply = 2
    Owner = civil
    InitialLists <- Deployed
    ManagedLists <- Civilians
    Amounts <- NoneOrOne
INVARIANTS
    WalletSound
    ContentsSound
    TokensAddUp
    ProposalsSound
PROPERTIES
    BackedByOwners
    ContentsKept
    OutsidersReceiveFromUnlocked
    ChangedByVote
    ImplementsSettings
CHECK_DEADLOCK FALSE
