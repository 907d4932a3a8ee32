\* An audio that is asked for twice, and any one fault.  The topic may end.
CONSTANTS
    m1 = m1  m2 = m2  t1 = t1  t2 = t2  t3 = t3  n1 = n1  n2 = n2
    NoId = NoId  Unreadable = Unreadable  None = None
    Id = {t1, t2, t3}
    Expiring = {t1}
    Msg = {m1}
    Name = {n1, n2}
    AudioName = {n1, n2}
    MaxFiles = 2
    PageSize = 1
    Patterns <- MCPatterns
    Input <- MCInput
    FormOf <- MCFormOf
    LeaveFilesOnError = TRUE
    Faults = {"save", "reply", "uploadcrash", "job", "query", "cleancrash",
              "audio", "status", "result", "db", "write", "unfile", "mark",
              "delete", "commit", "crash"}
    MaxFaults = 1
SPECIFICATION FairSpec
CHECK_DEADLOCK FALSE
INVARIANTS
    CommittedIsAnswered
    OneForEach
    CleanedIsDone
    NothingIsOrphaned
PROPERTIES
    FreshIsKept
    EveryMessageIsCommitted
