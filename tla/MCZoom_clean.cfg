\* Two files and no fault.  The service may stop when everything is done.
CONSTANTS
    Files = 2
    Uploads = {"files"}
    PartStages <- MCStages
    Failing = {"JoinAudio", "JoinResults", "Part"}
    Faults = {}
    MaxFaults = 0
    MaxBusy <- MCBusy
SPECIFICATION Spec
CHECK_DEADLOCK FALSE
INVARIANTS
    JoinAfterParts
    OwnerIsTold
    PartFailureFails
PROPERTY OnlyEarlyIsDropped
