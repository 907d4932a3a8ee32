\* One part of a larger transcription and any one fault, under fairness.  The
\* service may stop when everything is done.
CONSTANTS
    t1 = t1  t2 = t2
    ID = {t1}
    Split = {}
    Child = {t1}
    Silent = {}
    Failing = {"Transcription", "ResultMake"}
    Faults = {"db", "connection", "crash", "worker"}
    MaxFaults = 1
    MaxBusy = 2
SPECIFICATION FairSpec
CHECK_DEADLOCK FALSE
INVARIANTS
    ResultBeforeCompleted
    NoLostWork
    OutcomeIsTold
PROPERTY
    EveryUploadEnds
