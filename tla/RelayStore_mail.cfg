SPECIFICATION Spec
CONSTANTS
    Thread = {t1, t2}
    FileBacked = {FALSE}
    Identity = {}
    Mailbox = {box}
    MailTtlSecs = 1
    MaxMessageBytes = 2
    MaxMailboxMessages = 2
    MaxMailboxBytes = 3
    MessageSizes = {1, 2, 3}
    MaxOpk = 0
    MaxPool = 0
    MaxMutations = 5
    MaxTime = 3
    MaxCrashes = 0
    None = None
    Torn = Torn
INVARIANTS
    CapsRespected
    PolledInOrderOnce
PROPERTY
    MailLeavesForAReason
CHECK_DEADLOCK FALSE
