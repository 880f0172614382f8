SPECIFICATION Spec
CONSTANTS
    f1 = f1
    f2 = f2
    w1 = w1
    w2 = w2
    File = {f1, f2}
    Worker = {w1}
    Environment = {"Cancel", "Failure", "Crash", "Evict", "Pin"}
    MaxRevisions = 3
INVARIANTS ServedIsCurrent EveryCopyIsRecorded IInv
SYMMETRY Symmetry
