\* Liveness: one fault of any kind, and a task that kills its workers.
CONSTANTS
    t1 = t1  t2 = t2
    d1 = d1  d2 = d2  d3 = d3  d4 = d4
    Task = {t1, t2}
    Delivery = {d1, d2}
    WorkerQ = {w1, w2}
    IdOf <- MCIdOf
    Malformed = {}
    Poison = {t1}
    NoTask = NoTask  NoWorker = NoWorker  NoDelivery = NoDelivery
    MaxFail = 2
    Preload = 2
    MaxPending = 2
    Faults = {"connection", "channel", "restart", "crash", "quit", "expire", "stale"}
    MaxFaults = 1
SPECIFICATION FairSpec
INVARIANT FailBound
PROPERTY EveryTaskSettled
