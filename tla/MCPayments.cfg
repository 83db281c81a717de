CONSTANTS
  k1 = k1
  k2 = k2
  b1 = b1
  b2 = b2
  Key = {k1, k2}
  NoKey = NoKey
  Body = {b1, b2}
  BadBody = BadBody
  Purchases <- MixedPurchases
  SeedBody = b1
  SeedCount = 1
  MaxInFlight = 3
  MaxDrawn = 4
  MaxEpoch = 1
SPECIFICATION FairSpec
INVARIANTS OnePaymentPerKey AnswersAgree AnswersHold
PROPERTIES KeepsIdempotency EveryPurchaseAnswered
