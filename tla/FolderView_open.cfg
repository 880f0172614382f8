SPECIFICATION ViewFairSpec
CONSTANTS
    a = a
    w1 = w1
    Folder = Folder
    Name = {a}
    Inside = {}
    Parent <- ParentOf
    Worker = {w1}
    Environment = {"Remote", "View"}
    MaxChanges = 2
    Mishap = {"Crash", "Expiry"}
    MaxOthers = 1
    MaxCount = 2
    MaxSignals = 2
INVARIANTS ViewTypeOK OpenIsTracked
PROPERTIES ViewConverges
CHECK_DEADLOCK FALSE
