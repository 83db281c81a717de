CONSTANTS
  Client = {alice, bob}
  Content = {hello, bye}
  SeedContent = hello
  LastClock = 3
  MaxVersion = 4
  MaxEpoch = 1
SPECIFICATION CacheSpec
SYMMETRY ClientSymmetry
INVARIANTS NotModifiedIsTrue FullOnlyWhenNeeded
