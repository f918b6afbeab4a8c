CONSTANTS
  Users = {ann, bob}
  Browsers = {b1}
  Tasks = {t1, t2}
  Passwords = {p, q}
  Attempts = {a1}
  Server = Server
  None = None
  MaxRequests = 6
SPECIFICATION Spec
SYMMETRY Alike
INVARIANTS
  DataStaysWithItsOwner
  LoggedInHasVault
  ServerKeyMeansProvider
  VaultOpensWithPassword
CHECK_DEADLOCK FALSE
