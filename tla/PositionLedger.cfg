SPECIFICATION Spec
CONSTANTS
  Scale = 4
  Quantities = {1, 2, 3}
  Prices = {1, 2, 7}
  MaxFills = 5
INVARIANTS TypeOK BooksBalance EntryWithinEntries FlatHasNoEntry
PROPERTIES ProfitOnlyFromClosing
CHECK_DEADLOCK FALSE
