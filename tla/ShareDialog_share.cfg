SPECIFICATION Spec
CONSTANTS
    d1 = d1
    d2 = d2
    e1 = e1
    r1 = r1
    r2 = r2
    None = None
    Dialog = {d1, d2}
    Email = {e1}
    Role = {"viewer"}
    Refresh = {r1, r2}
    MaxCalls = 2
    Environment = {"Others", "Failure", "Late", "Quit"}
INVARIANTS TypeOK DialogShowsDrive BadgeIsCurrent
PROPERTIES UpdateKeepsSettings
CHECK_DEADLOCK FALSE
SYMMETRY Symmetric
