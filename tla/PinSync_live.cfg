SPECIFICATION FairSpec
CONSTANTS
    f1 = f1
    f2 = f2
    t1 = t1
    t2 = t2
    File = {f1, f2}
    Thread = {t1}
    Environment = {"Crash", "Force"}
    MaxEdits = 2
    MaxStamp = 3
    MaxCrashes = 1
    MaxBatches = 1
PROPERTIES EditsReachDrive OnlyEditsArePublished
CHECK_DEADLOCK FALSE
