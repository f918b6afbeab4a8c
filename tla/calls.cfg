CONSTANTS
  r1 = r1  r2 = r2  a1 = a1  a2 = a2  u1 = u1
  w1 = w1  w2 = w2
  Workers = {w1, w2}
  Runs = {r1, r2}
  Kind <- MCKind
  AttemptOf <- MCAttemptOf
  UserOf <- MCUserOf
  Polish = {"cover", "groups"}
  Users = {u1}
  None = None
  MaxCalls = 2
  MaxEvents = 2
SPECIFICATION Spec
INVARIANTS
  RowsTellWhoAsked
  PromptsNeedConsent
  FlagIsCurrent
SYMMETRY WorkerSymmetry
CHECK_DEADLOCK FALSE
