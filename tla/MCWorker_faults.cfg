\* Two models and no model, and any two faults, under fairness.  The service
\* may stop when everything is done.
CONSTANTS
    a1 = a1  b1 = b1  n1 = n1  x1 = x1
    Msg = {a1, b1, n1}
    KeyOf <- MCKeyOf
    NoInfo = {}
    NoKey = {}
    NoCmd = {}
    Faults = {"start", "exit", "stubborn", "stuck", "connection", "quit"}
    MaxFaults = 2
    MaxRuns = 2
SPECIFICATION FairSpec
CHECK_DEADLOCK FALSE
INVARIANTS
    CommandHasItsModel
    StatusIsNotStolen
    NothingLeftRunning
PROPERTIES
    ConsumerSpec
    EveryMessageAnswered
