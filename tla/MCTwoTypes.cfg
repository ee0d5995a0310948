SPECIFICATION Spec
CONSTANTS
    s1 = s1
    s2 = s2
    s3 = s3
    anna = anna
    bob = bob
    Nobody = nobody
    NoRequest = none
    NoApprover = noone
    Sessions = {s1, s2}
    RequestIds = {r1, r2}
    Approvers = {anna}
    LeaveTypes = {vacation, sick}
    Periods <- MCOnePeriod
    Gates <- MCGates
    LastDay = 0
CHECK_DEADLOCK FALSE
INVARIANTS
    BookedOnce
