\* One file, no fault: is a failure ever overwritten?
CONSTANTS
    Files = 1
    Uploads = {"files"}
    PartStages <- MCStages
    Failing = {"JoinAudio", "JoinResults", "Part"}
    Faults = {}
    MaxFaults = 0
    MaxBusy <- MCBusy
SPECIFICATION FairSpec
CHECK_DEADLOCK FALSE
PROPERTY FailedStaysFailed
