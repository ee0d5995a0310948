SPECIFICATION Spec
CONSTANTS
  standard = standard
  trial = trial
  MonthsPerYear = 2
  DatesPerMonth = 2
  Policies <- Offered
  Terms <- TermsOffered
  LastYear = 4
  RequestIds = {1, 2}
  FirstDay = 6
  LastDay = 12
  FirstPolicy = standard
  StartDates <- Hires
  Adjustments <- Corrections
  FirstCarryover <- Full
  Carryovers <- Caps
  Bookings <- Asked
  TransferDates <- Moves
  MaxEdits = 2
INVARIANTS TypeOK AccruedOnTarget DormancyLeavesNoTrace NothingFundedTwice ForecastIsBookedUnlessChanging EveryOutcomeIsFunded LedgerKeepsOrder
PROPERTY BooksStayClosed
CHECK_DEADLOCK FALSE
