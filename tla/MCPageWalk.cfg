CONSTANTS
  Kind = {1, 2}
  Rank = {1, 2}
  RawQueries <- SmallQueries
  NotANumber = NotANumber
  MaxId = 3
SPECIFICATION Spec
INVARIANTS TypeOK QuietWalkIsTheListing NothingSkippedUnlessRemoved NothingRepeatedUnlessInserted
