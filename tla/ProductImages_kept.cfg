SPECIFICATION FairSpec
CONSTANTS
  Products = {p}
  Files = {1, 2, 3}
  Clients = {c1, c2}
  BatchSize = 1
  MaxFaults = 1
  None = None
INVARIANTS TypeOK ImageHasFile RowsAreImages NothingLeftBehind
PROPERTIES OrphansSwept
