SPECIFICATION Spec
CONSTANTS
    f1 = f1
    f2 = f2
    w1 = w1
    w2 = w2
    File = {f1}
    Worker = {w1}
    Environment = {"Pin", "Evict"}
    MaxRevisions = 3
PROPERTIES PinnedCopyStays
SYMMETRY Symmetry
