CONSTANTS
  Uploads <- MCUploads
  Vaults <- MCVaults
  Attempts <- MCAttempts
  Notes <- MCNotes
SPECIFICATION Spec
INVARIANTS
  PromptIsAnonymous
  
  RoundTripIsLossless
  GeneratedCvIsComplete
  ShownAsSaved
