CONSTANTS
  g1 = g1  g2 = g2  g3 = g3  i1 = i1  i2 = i2
  None = None
  Requests = {g1, g2, g3}
  Kind <- RegenerateTwice
  Guests = {g3}
  Inputs = {i1}
  FirstInput = i1
  Sides <- ReviewOnly
  InitialCredits = 1
  MaxRegenerations = 1
  MaxChanges = 0
  MaxFaults = 1
SPECIFICATION Spec
INVARIANTS
  ChargesAccounted
  NothingSavedIsRefunded
  RegenerationsWithinCap
  DownloadFollowsReview
PROPERTIES
  RegenerateRunsEverything
  ImplementsPromise
CHECK_DEADLOCK FALSE
