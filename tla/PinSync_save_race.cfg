SPECIFICATION Spec
CONSTANTS
    f1 = f1
    f2 = f2
    t1 = t1
    t2 = t2
    File = {f1}
    Thread = {t1}
    Environment = {"EditDuringControl"}
    MaxEdits = 2
    MaxStamp = 2
    MaxCrashes = 0
    MaxBatches = 1
PROPERTIES DiscardOnlyWithConsent
CHECK_DEADLOCK FALSE
