CONSTANTS
  t1 = t1  t2 = t2  starter = starter  lead = lead
  Tabs = {t1, t2}
  Users = {ann, bob}
  Roles = {lead}
  Phones = {"+61"}
  Starter = starter
  Tailored <- ThreeRoles
  Token = "<<PHONE_1>>"
  None = None
  Limit = 1
  MaxRows = 2
  MaxAttempts = 2
  MaxOpens = 2
  MaxEdits = 1
  MaxRequests = 2
  MaxVisits = 2
SPECIFICATION Spec
INVARIANTS
  TokensResolve
PROPERTIES
  NothingIsOverwritten
  RolesAreKept
SYMMETRY Alike
CHECK_DEADLOCK FALSE
