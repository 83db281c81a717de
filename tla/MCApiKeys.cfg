CONSTANTS
  ApiKey = {k1, k2, k3, k4}
  NoApiKey = NoApiKey
SPECIFICATION Spec
SYMMETRY KeySymmetry
INVARIANT LastWordHolds
PROPERTY StandingOnlyWorsens
