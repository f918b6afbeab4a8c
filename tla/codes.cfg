CONSTANTS
  u1 = u1  u2 = u2  open = open  personal = personal  k1 = k1  k2 = k2  t1 = t1  t2 = t2
  Users = {u1, u2}
  Invitations = {open, personal}
  Amount <- MCAmount
  Addressee <- MCAddressee
  Tokens = {k1, k2}
  Tasks = {t1, t2}
  None = None
  MaxCrashes = 1
SPECIFICATION CodesSpec
INVARIANTS
  CreditsFollowRedemption
  TokensResetOnce
SYMMETRY TaskSymmetry
CHECK_DEADLOCK FALSE
