SPECIFICATION FairSpec
CONSTANTS
    a = a
    b = b
    i = i
    w1 = w1
    w2 = w2
    Folder = Folder
    Name = {a}
    Inside = {i}
    Parent <- ParentOf
    Worker = {w1}
    Environment = {"Stat", "Write", "Put", "Restore", "Remote", "View", "Sweep"}
    MaxChanges = 2
PROPERTIES CacheConverges
CHECK_DEADLOCK FALSE
