SPECIFICATION Spec
CONSTANTS
    Thread = {t1, t2}
    FileBacked = {TRUE}
    Identity = {alice}
    Mailbox = {box}
    MailTtlSecs = 1
    MaxMessageBytes = 1
    MaxMailboxMessages = 2
    MaxMailboxBytes = 2
    MessageSizes = {1}
    MaxOpk = 1
    MaxPool = 1
    MaxMutations = 2
    MaxTime = 1
    MaxCrashes = 1
    None = None
    Torn = Torn
SYMMETRY Threads
INVARIANTS
    TypeOK
    FlushIsDurable
    CleanMeansSaved
CHECK_DEADLOCK FALSE
