CONSTANTS
  Caller = {alice, bob}
  Limit = 2
  Window = 3
  MsPerSecond = 2
  MaxClock = 7
  MaxCount = 4
SPECIFICATION Spec
SYMMETRY CallerSymmetry
INVARIANTS WindowQuota SeamQuota RetryAfterIsKept
