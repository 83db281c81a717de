CONSTANTS
  Scale = 8
  Draws = {0, 7}
  Rates = {0, 4, 8}
  StreamLength = 3
  MaxLog = 3
SPECIFICATION FlakySpec
INVARIANTS FlakyTypeOK SameRequestsSameOutcomes
