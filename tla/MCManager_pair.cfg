\* Two transcriptions, one to be split and one a part of a larger one, with
\* any two faults.  The listeners work one at a time.
CONSTANTS
    t1 = t1  t2 = t2
    ID = {t1, t2}
    Split = {t2}
    Child = {t1}
    Silent = {t1}
    Failing = {"Transcription", "ResultMake"}
    Faults = {"db", "connection", "crash", "worker"}
    MaxFaults = 2
    MaxBusy = 1
SPECIFICATION Spec
CHECK_DEADLOCK FALSE
INVARIANTS
    OneOutcome
    GivenUpForDatabase
PROPERTY StatusAdvances
