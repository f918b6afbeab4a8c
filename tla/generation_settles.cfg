CONSTANTS
  g1 = g1  g2 = g2  g3 = g3  i1 = i1  i2 = i2
  None = None
  Requests = {g1, g2, g3}
  Kind <- RunAndEdit
  Guests = {}
  Inputs = {i1, i2}
  FirstInput = i1
  Sides <- AllSides
  InitialCredits = 1
  MaxRegenerations = 1
  MaxChanges = 1
  MaxFaults = 0
SPECIFICATION FairSpec
PROPERTIES
  ChargeIsSettled
  DraftIsCompleted
CHECK_DEADLOCK FALSE
