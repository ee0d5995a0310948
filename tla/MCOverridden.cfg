SPECIFICATION Spec
CONSTANTS
  t1 = t1
  t2 = t2
  n1 = n1
  n2 = n2
  ann = ann
  bob = bob
  NoName = NoName
  PolicyIds = {1, 2, 3}
  Terms = {t1, t2}
  Typed = {n1, n2}
  Users = {ann, bob}
  Lead <- West
  FirstDay = 1
  LastDay = 3
  NewYear <- Years
  FirstPolicy = 1
  Offers <- Made
  Hires <- Starts
  Imports <- RowsImported
  Files <- FilesImported
  MaxRows = 3
  MaxEdits = 3
INVARIANT DeletingLeavesRoom
CHECK_DEADLOCK FALSE
