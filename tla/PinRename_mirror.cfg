SPECIFICATION Spec
CONSTANTS
    d = d
    e = e
    a = a
    b = b
    None = None
    Dir = {d, e}
    Base = {a, b}
    Environment = {"Folder", "Failure"}
    MaxEdits = 1
    MaxRenames = 3
INVARIANTS TypeOK MirroredAtRest SyncedAtRest LeavesWorkerRenamesAlone InStepOnTrajectory
PROPERTIES UploadsReplaceOwnFile
SYMMETRY Symmetry
CHECK_DEADLOCK FALSE
