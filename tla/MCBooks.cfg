SPECIFICATION Spec
CONSTANTS
    r1 = r1
    r2 = r2
    r3 = r3
    anna = anna
    bob = bob
    NoRequest = none
    RequestIds = {r1, r2}
    Approvers = {anna}
    Newcomers = {}
    DefaultApprovers = {}
    LeaveTypes = {vacation}
    Days <- MCDays
    WorkingDays = {0, 1, 2, 3}
    DaysPerYear = 2
    Periods <- MCPeriods
    HoursPerDay = 2
    BookableHours = {1, 2}
    Instants <- MCInstants
    Zones <- MCZones
SYMMETRY MCSymmetry
CHECK_DEADLOCK FALSE
INVARIANTS
    TypeOK
    HoldsMatchRequests
    SpentMatchesConsumed
    HeldScalarMatchesCursor
PROPERTIES
    LivedLeaveStands
    ImplementsLedger
