SPECIFICATION MCSpec
CONSTANTS
  h1 = h1
  h2 = h2
  Hashes = {h1, h2}
  Scenarios <- SomeScenarios
  MaxActive = 3
  None = None
  MaxBytes = 2
CHECK_DEADLOCK FALSE
INVARIANTS Linked Kept InfoSurvives
PROPERTIES StartsAsBefore ShutdownEnds
