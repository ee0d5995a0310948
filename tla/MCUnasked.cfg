SPECIFICATION Spec
CONSTANTS
    r1 = r1
    r2 = r2
    r3 = r3
    anna = anna
    bob = bob
    NoRequest = none
    RequestIds = {r1}
    Approvers = {anna}
    Newcomers = {anna}
    DefaultApprovers = {anna}
    LeaveTypes = {vacation}
    Days = {0}
    WorkingDays = {0}
    DaysPerYear = 1
    Periods <- MCOneDay
    HoursPerDay = 1
    BookableHours = {1}
    Instants = {0}
    Zones = {0}
CHECK_DEADLOCK FALSE
INVARIANTS
    EveryQuestionIsAsked
