SPECIFICATION Spec
CONSTANTS
    ann = ann
    ben = ben
    laptop = laptop
    Nobody = Nobody
    Users <- TwoUsers
    Browsers <- OneBrowser
    Polls <- TwoPolls
    ShownFor <- FirstOfBoth
    MaxSalts = 3
    MaxSaves = 2
    MaxCommits = 2
    MaxChanges = 3
    Kind <- AppealOfFirst
    Parent <- FirstOfBoth
    Events <- AllEvents
    MaxSessions = 3
    Page <- Pages
    MaxRuns = 2
INVARIANTS
    ReviewedPhraseConfirms
CHECK_DEADLOCK FALSE
