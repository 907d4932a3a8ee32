\* A duplicate id, a malformed message, and every kind of fault once.
CONSTANTS
    t1 = t1  t2 = t2
    d1 = d1  d2 = d2  d3 = d3  d4 = d4
    Task = {t1, t2}
    Delivery = {d1, d2, d3, d4}
    WorkerQ = {w1, w2}
    IdOf <- MCIdOf
    Malformed = {d4}
    Poison = {}
    NoTask = NoTask  NoWorker = NoWorker  NoDelivery = NoDelivery
    MaxFail = 1
    Preload = 2
    MaxPending = 2
    Faults = {"connection", "channel", "restart", "crash", "quit", "expire", "stale"}
    MaxFaults = 1
SPECIFICATION Spec
SYMMETRY MCSymmetry
INVARIANTS
    PointersAgree
    HeldAreKnown
    StartedIsRunning
    NoSilentLoss
PROPERTY ConsumerSpec
