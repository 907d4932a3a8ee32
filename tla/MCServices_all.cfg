\* Every service by itself, with its faults.  The work may end.
CONSTANTS
    t1 = t1  t2 = t2  t3 = t3  n1 = n1  n2 = n2  n3 = n3
    d1 = d1  d2 = d2  d3 = d3  ma = ma  r1 = r1  r2 = r2
    ta = ta  tb = tb  ca = ca  cb = cb
    p1 = p1  p2 = p2  k1 = k1  c1 = c1  c2 = c2
    None = None
    Faults = {"save", "reply", "uploadcrash", "job", "query", "cleancrash",
              "prepare", "lock", "send", "unlock", "connection", "crash",
              "connect", "get", "write", "channel", "race", "read", "info"}
    Budget <- MCBudget
    Id = {t1, t2, t3}
    Name = {n1, n2, n3}
    AudioName = {n1, n2}
    MaxFiles = 3
    Forms <- MCForms
    Patterns <- MCPatterns
    PageSize = 1
    Expiring = {t1, t2}
    NewIds = {t1, t2}
    Deleted = {t1, t2}
    Earlier <- MCEarlier
    Delivery = {d1, d2, d3}
    MailOf <- MCMailOf
    Replica = {r1, r2}
    Topic = {ta, tb}
    Conn = {ca, cb}
    MaxChanges <- MCMaxChanges
    MaxMessages <- MCMaxMessages
    InitialWait = 1
    MaxWait = 3
    Task <- MCTask
    Worker = {1, 2}
    NoModel = 1
    LoadTime = 3
    RtFactor = 1
    Unit = 1
    DelayCost = 1
    MaxNow = 4
    MaxWords = 7
    Timesteps = {3, 4}
    Mark = {"word", "end"}
    SentenceEnd = {"end"}
    Unset = "unset"
    Versions = 3
    Broken = {1}
    BadInfo = {2}
    Caller = {c1, c2}
    MaxCalls = 2
    Tracked = {p1, p2}
    KeyOf <- MCKeyOf
    Length <- MCLength
    MaxHours = 4
    MaxRuns = 2
    MaxPosts <- MCMaxPosts
SPECIFICATION FairSpec
CHECK_DEADLOCK FALSE
INVARIANTS
    SentHasItsFiles
    LocksWork
    
    ChoiceIsRight
    MarksAreWhole
    CacheIsOfMap
    TasksAreMeasured
PROPERTIES
    InformConsumes
    WorkIsDone
