CONSTANTS
  t1 = t1  t2 = t2  plain = plain  bold = bold
  Tabs = {t1, t2}
  Regions = {"AU", "JP"}
  PhotoRegions = {"JP"}
  DobRegions = {"JP"}
  Default = "AU"
  Fields = {"values", "appeal"}
  Shared = {"values"}
  Voices = {plain, bold}
  None = None
  Own = Own
  Vaults <- MCVaults
  MaxAttempts = 2
  MaxRows = 2
  MaxSubmits = 2
  MaxCrashes = 1
SPECIFICATION Spec
INVARIANTS
  DetailsFollowConsent
  VoiceIsKept
SYMMETRY TabSymmetry
CHECK_DEADLOCK FALSE
