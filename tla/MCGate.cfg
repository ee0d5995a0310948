SPECIFICATION Spec
CONSTANTS
    r1 = r1
    r2 = r2
    r3 = r3
    anna = anna
    bob = bob
    NoRequest = none
    RequestIds = {r1, r2}
    Approvers = {anna, bob}
    Newcomers = {bob}
    DefaultApprovers = {anna}
    LeaveTypes = {vacation}
    Days <- MCSwapDays
    WorkingDays = {1, 3}
    DaysPerYear = 4
    Periods <- MCSwapPeriods
    HoursPerDay = 1
    BookableHours = {1}
    Instants <- MCSwapInstants
    Zones = {0}
SYMMETRY MCSymmetry
CHECK_DEADLOCK FALSE
INVARIANTS
    AsksAreOpenQuestions
    NoDoubleBooking
PROPERTIES
    HistoryIsFinal
    GateIsHonoured
