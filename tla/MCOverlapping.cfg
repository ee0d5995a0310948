SPECIFICATION Spec
CONSTANTS
    s1 = s1
    s2 = s2
    Nobody = nobody
    Sessions = {s1, s2}
    Requests = {1, 2, 3}
    LeaveDays <- MCLeaveDays
    Original <- MCOriginal
    LastDay = 3
SYMMETRY MCSymmetry
CHECK_DEADLOCK FALSE
INVARIANTS
    TypeOK
    CursorMatchesHeld
    OnlyRefusedOrLostDeadlock
PROPERTIES
    SettledStaySettled
