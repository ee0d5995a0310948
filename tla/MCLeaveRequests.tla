--------------------------- MODULE MCLeaveRequests ---------------------------
(* Finite instances of LeaveRequests.  One unit of Days is a calendar date;  *)
(* Instants are hours since the first UTC midnight.                          *)
EXTENDS LeaveRequests, TLC

CONSTANTS r1, r2, r3, anna, bob

\* Dates 0, 1 | 2, 3: the New Year lies between 1 and 2.
MCDays == 0..3
MCPeriods == {<<1, 2>>, <<3, 3>>}
MCZones == {14, -12}
\* 34 ends date 1 and 58 date 2 at UTC+14, 108 ends date 3 at UTC-12.
MCInstants == {0, 34, 108}

\* One date, one instant: for the runs about people and not about time.
MCOneDay == {<<0, 0>>}

\* Dates 1 and 3 are worked, 2 is a holiday on which two periods may still meet.
MCSwapDays == 1..3
MCSwapPeriods == {<<1, 2>>, <<2, 3>>, <<3, 3>>}
MCSwapInstants == {0, 24, 48}

MCSymmetry == Permutations(RequestIds)
==============================================================================
