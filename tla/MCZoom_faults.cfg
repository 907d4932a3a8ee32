\* One file, with any one fault at any place, under fairness.
CONSTANTS
    Files = 1
    Uploads = {"files", "channels", "uneven"}
    PartStages <- MCNoStages
    Failing = {"Part"}
    Faults = {"io", "connection", "crash", "repeat"}
    MaxFaults = 1
    MaxBusy <- MCBusyOne
SPECIFICATION FairSpec
CHECK_DEADLOCK FALSE
INVARIANT RecordsAreTrue
PROPERTY ParentEnds
