SPECIFICATION Spec
CONSTANTS
    a = a
    b = b
    i = i
    w1 = w1
    w2 = w2
    Folder = Folder
    Name = {a, b}
    Inside = {i}
    Parent <- ParentOf
    Worker = {w1, w2}
    Environment = {"Stat", "Write", "Put", "Failure"}
    MaxChanges = 3
INVARIANTS OwnWritesAreSeen
SYMMETRY Symmetry
CHECK_DEADLOCK FALSE
