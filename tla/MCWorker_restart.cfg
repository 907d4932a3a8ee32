\* Two messages of two models, and no fault.
CONSTANTS
    a1 = a1  b1 = b1  n1 = n1  x1 = x1
    Msg = {a1, b1}
    KeyOf <- MCKeyOf
    NoInfo = {}
    NoKey = {}
    NoCmd = {}
    Faults = {}
    MaxFaults = 0
    MaxRuns = 2
SPECIFICATION Spec
CHECK_DEADLOCK FALSE
INVARIANT NotRunningIsTrue
