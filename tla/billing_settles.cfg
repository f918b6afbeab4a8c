CONSTANTS
  u1 = u1
  s1 = s1
  s2 = s2
  h1 = h1
  h2 = h2
  NoSession = none
  Users = {u1}
  Sessions = {s1, s2}
  Handlers = {h1, h2}
  Buyer <- OneBuyer
  Credits <- PackCredits
  AlphaPack = {s1}
  Delayed = {s2}
  FounderCap = 1
  AdminAmounts <- GiveAndTake
  MaxAdmin = 0
  MaxUsed = 0
  MaxCrashes = 0
  MaxAged = 1
SPECIFICATION FairSpec
PROPERTIES
  PromptPaymentIsCredited
  AbandonedIsClosed
