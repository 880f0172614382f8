SPECIFICATION Spec
CONSTANTS
    f1 = f1
    f2 = f2
    t1 = t1
    t2 = t2
    File = {f1}
    Thread = {t1, t2}
    Environment = {"Crash", "Expiry", "Failure", "Force", "Repin", "Touch", "EditDuringReconcile"}
    MaxEdits = 2
    MaxStamp = 3
    MaxCrashes = 1
    MaxBatches = 1
INVARIANTS TypeOK CleanCopyIsOnDrive IInv
PROPERTIES DiscardOnlyWithConsent ImplementsOfflineCopy
SYMMETRY Symmetry
CHECK_DEADLOCK FALSE
