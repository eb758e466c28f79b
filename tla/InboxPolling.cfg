SPECIFICATION FairSpec
CONSTANTS
    INBOX_EPOCH_SECONDS = 2
    MailTtl = 6
    MaxPollEpochs = 3
    Skews <- MCSkews
    None = None
    StartTime = 1
    MaxTime = 8
    MaxMail = 1
    MaxPolls = 2
    MaxFailures = 1
    MaxKills = 1
INVARIANT NeverStranded
PROPERTY MailLeavesRelay
CHECK_DEADLOCK FALSE
