----------------------------- MODULE MCYearBooks -----------------------------
EXTENDS YearBooks

CONSTANTS standard, trial

Offered == {standard, trial}

TermsOffered ==
  [p \in Offered |->
     IF p = standard
     THEN [vacation |-> 3, sick |-> 2, raise |-> 1, every |-> 1, cap |-> 4,
           probation |-> 0, paidSick |-> FALSE]
     ELSE [vacation |-> 1, sick |-> 1, raise |-> 0, every |-> 1, cap |-> NoCap,
           probation |-> 1, paidSick |-> TRUE]]

Hires       == {4, 7, 13}
Corrections == {-2}
Asked       == {<<"vacation", 7, 8>>, <<"vacation", 10, 10>>, <<"sick", 9, 9>>}
Moves       == {8, 9}
Full        == [mode |-> "full", cap |-> 0]
Half        == [mode |-> "percent_of_total", cap |-> 50]
Caps        == {Half}
=============================================================================
