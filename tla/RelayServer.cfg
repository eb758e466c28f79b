SPECIFICATION FairServerSpec
CONSTANTS
    Thread = {Server}
    Server = Server
    FileBacked = {TRUE, FALSE}
    Options <- MCOptions
    Identity = {alice}
    Mailbox = {box}
    MailTtlSecs = 1
    MaxMessageBytes = 1
    MaxMailboxMessages = 2
    MaxMailboxBytes = 2
    MessageSizes = {1}
    MaxOpk = 1
    MaxPool = 1
    MaxMutations = 2
    MaxTime = 3
    MaxCrashes = 1
    None = None
    Torn = Torn
    Client = {ann, ben}
    MinuteSecs = 2
    WindowsCap = 1
    SweepIntervalSecs = 2
    MaxRequests = 4
INVARIANT BudgetExact
PROPERTY EventuallySaved
CHECK_DEADLOCK FALSE
